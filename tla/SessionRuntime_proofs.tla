------------------------ MODULE SessionRuntime_proofs -----------------------
(***************************************************************************)
(* Theorems about SessionRuntime, for every value of its constants.        *)
(***************************************************************************)
EXTENDS SessionRuntime, FiniteSetTheorems, TLAPS

-----------------------------------------------------------------------------
(* Lemmas about the rows of the turns.                                     *)

\* Rows that differ from the turns in their statuses only.
SameButStatus(rows) ==
  /\ rows \in Seq(Turn)
  /\ Len(rows) = Len(turns)
  /\ \A i \in 1 .. Len(turns) :
       \E s \in TurnStatus : rows[i] = [turns[i] EXCEPT !.status = s]

\* Closing a turn changes the status of that turn only, if it was open.
LEMMA CloseTurnChangesStatusOnly ==
  ASSUME turns \in Seq(Turn), NEW id \in Nat, NEW s \in TurnStatus
  PROVE  /\ SameButStatus(CloseTurn(id, s))
         /\ \A i \in 1 .. Len(turns) :
              CloseTurn(id, s)[i].status =
                IF i = id /\ turns[i].status = "OPEN" THEN s ELSE turns[i].status
<1> DEFINE rows == CloseTurn(id, s)
<1>1. \A i \in 1 .. Len(turns) : turns[i] \in Turn
  OBVIOUS
<1>2. Len(turns) \in Nat
  OBVIOUS
<1>3. \A i \in 1 .. Len(turns) :
        rows[i] = IF i = id /\ turns[i].status = "OPEN"
                    THEN [turns[i] EXCEPT !.status = s] ELSE turns[i]
  BY DEF CloseTurn
<1>4. \A i \in 1 .. Len(turns) :
        \E u \in TurnStatus : rows[i] = [turns[i] EXCEPT !.status = u]
  <2> TAKE i \in 1 .. Len(turns)
  <2>1. turns[i] = [turns[i] EXCEPT !.status = turns[i].status] /\ turns[i].status \in TurnStatus
    BY <1>1 DEF Turn
  <2> QED BY <1>3, <2>1
<1>5. \A i \in 1 .. Len(turns) : rows[i] \in Turn
  BY <1>1, <1>4 DEF Turn
<1>6. rows \in Seq(Turn) /\ Len(rows) = Len(turns)
  BY <1>2, <1>5 DEF CloseTurn
<1>7. \A i \in 1 .. Len(turns) :
        rows[i].status = IF i = id /\ turns[i].status = "OPEN" THEN s ELSE turns[i].status
  BY <1>1, <1>3 DEF Turn
<1> QED BY <1>4, <1>6, <1>7 DEF SameButStatus

\* A new main question is a row of the table.
LEMMA MainTurnType ==
  ASSUME NEW q \in Positions, NEW s \in Nat
  PROVE  MainTurn(q, s) \in Turn
BY DEF MainTurn, Turn, TurnKind, TurnStatus, NoTurn, NoRun

-----------------------------------------------------------------------------
(* Type correctness.                                                       *)

\* The follow-ups are finitely many.
LEMMA FollowUpsAreFinite ==
  ASSUME turns \in Seq(Turn)
  PROVE  /\ IsFiniteSet(FollowUpTurns) /\ Cardinality(FollowUpTurns) \in Nat
         /\ \A q : IsFiniteSet({i \in FollowUpTurns : turns[i].root = q})
         /\ \A q : FollowUpsOf(q) \in Nat
<1>1. IsFiniteSet(1 .. Len(turns))
  BY FS_Interval
<1>2. IsFiniteSet(FollowUpTurns)
  BY <1>1, FS_Subset DEF FollowUpTurns
<1>3. \A q : IsFiniteSet({i \in FollowUpTurns : turns[i].root = q})
  BY <1>2, FS_Subset
<1> QED BY <1>2, <1>3, FS_CardinalityType DEF FollowUpsOf

\* The columns of the session, and its two counters after an increment.
LEMMA SessionColumns ==
  ASSUME TypeOK
  PROVE  /\ session \in SessionRow
         /\ session.version \in Nat
         /\ session.followUpsUsed \in Nat
         /\ session.deadline \in Nat
         /\ session.currentTurn \in Nat
         /\ session.version + 1 \in Nat
         /\ session.followUpsUsed + 1 \in Nat
<1>1. session \in SessionRow
  BY DEF TypeOK
<1>2. /\ session.version \in Nat
      /\ session.followUpsUsed \in Nat
      /\ session.deadline \in Nat
      /\ session.currentTurn \in Nat
  BY <1>1 DEF SessionRow
<1> QED BY <1>1, <1>2

\* Opening the next main question keeps the types.
LEMMA OpenNextMainQuestionType ==
  ASSUME TypeOK, NEW rows \in Seq(Turn), Len(rows) = Len(turns),
         NEW q \in Positions, NEW lastSeq \in Nat,
         OpenNextMainQuestion(rows, q, lastSeq)
  PROVE  /\ turns' \in Seq(Turn)
         /\ Len(turns') \in Nat /\ Len(turns') >= Len(turns)
         /\ session' \in SessionRow
         /\ session'.currentTurn \in 0 .. Len(turns')
<1>1. q < NumQuestions => MainTurn(q + 1, lastSeq + 1) \in Turn
  BY MainTurnType, ConstantsAssumption DEF Positions
<1>2. /\ turns' \in Seq(Turn)
      /\ Len(turns') = IF q < NumQuestions THEN Len(rows) + 1 ELSE Len(rows)
  BY <1>1 DEF OpenNextMainQuestion
<1> DEFINE turn == IF q < NumQuestions THEN Len(rows) + 1 ELSE NoTurn
           state == IF q < NumQuestions THEN "AWAITING_ANSWER" ELSE "READY_TO_FINISH"
<1>3. turn \in 0 .. Len(turns') /\ turn \in Nat /\ state \in RuntimeState
  BY <1>2 DEF NoTurn, RuntimeState
<1>4. session' = [session EXCEPT !.currentTurn = turn, !.runtimeState = state,
                                 !.advanceDeadline = NoDeadline, !.version = @ + 1]
  BY DEF OpenNextMainQuestion
<1> HIDE DEF turn, state
<1>5. session' \in SessionRow /\ session'.currentTurn = turn
  BY <1>3, <1>4, SessionColumns DEF SessionRow, NoDeadline
<1> QED BY <1>2, <1>3, <1>5

\* Closing the session keeps the types.
LEMMA CloseSessionType ==
  ASSUME TypeOK, NEW endReason \in EndReason, CloseSession(endReason)
  PROVE  /\ turns' \in Seq(Turn) /\ Len(turns') = Len(turns)
         /\ session' \in SessionRow
         /\ session'.currentTurn = 0
         /\ interview' \in InterviewStatus
         /\ application' \in ApplicationStatus
<1>1. "CLOSED_UNANSWERED" \in TurnStatus
  BY DEF TurnStatus
<1>2. SameButStatus(turns')
  BY <1>1, SessionColumns, CloseTurnChangesStatusOnly DEF CloseSession, TypeOK
<1> DEFINE status == ClosedStatus(endReason)
<1>3. status \in SessionStatus /\ status \in InterviewStatus
  BY DEF ClosedStatus, SessionStatus, InterviewStatus
<1>4. session' = [session EXCEPT !.status = status, !.runtimeState = "CLOSED",
                                 !.endReason = endReason, !.currentTurn = NoTurn,
                                 !.version = @ + 1]
  BY DEF CloseSession
<1>5. interview' = status
  BY DEF CloseSession
<1> HIDE DEF status
<1>6. session' \in SessionRow /\ session'.currentTurn = 0
  BY <1>3, <1>4, SessionColumns DEF SessionRow, NoTurn, RuntimeState
<1>7. application' \in ApplicationStatus
  BY DEF CloseSession, ApplicationStatus
<1> QED BY <1>2, <1>3, <1>5, <1>6, <1>7 DEF SameButStatus

\* Settling a run, or moving its workflow on, keeps the types and the parent.
LEMMA RunUpdateType ==
  ASSUME TypeOK, NEW i \in 1 .. Len(runs), NEW p \in Phase,
         NEW s \in RunStatus,
         runs' = [runs EXCEPT ![i].phase = p,
                              ![i].status = IF @ = "PROCESSING" THEN s ELSE @]
  PROVE  /\ runs' \in Seq(Run)
         /\ Len(runs') = Len(runs)
         /\ \A j \in 1 .. Len(runs) : runs'[j].parent = runs[j].parent
<1>1. runs \in Seq(Run) /\ Len(runs) \in Nat
  BY DEF TypeOK
<1>2. \A j \in 1 .. Len(runs) : runs[j] \in Run
  BY <1>1
<1> DEFINE status == IF runs[i].status = "PROCESSING" THEN s ELSE runs[i].status
           run == [runs[i] EXCEPT !.phase = p, !.status = status]
<1>3. status \in RunStatus
  BY <1>2 DEF Run
<1>4. [runs[i] EXCEPT !.phase = p].status = runs[i].status
  BY <1>2 DEF Run
<1>5. runs' = [runs EXCEPT ![i] = run]
  BY <1>1, <1>4
<1> HIDE DEF status
<1>6. run \in Run /\ run.parent = runs[i].parent
  BY <1>2, <1>3 DEF Run
<1> HIDE DEF run
<1> QED BY <1>1, <1>5, <1>6

\* Moving the workflow of a run on keeps the types and the parent.
LEMMA RunPhaseType ==
  ASSUME TypeOK, NEW i \in 1 .. Len(runs), NEW p \in Phase,
         runs' = [runs EXCEPT ![i].phase = p]
  PROVE  /\ runs' \in Seq(Run)
         /\ Len(runs') = Len(runs)
         /\ \A j \in 1 .. Len(runs) : /\ runs'[j].parent = runs[j].parent
                                      /\ runs'[j].status = runs[j].status
                                      /\ runs'[j].expectedVersion = runs[j].expectedVersion
<1>1. runs \in Seq(Run) /\ Len(runs) \in Nat
  BY DEF TypeOK
<1>2. \A j \in 1 .. Len(runs) : runs[j] \in Run
  BY <1>1
<1> DEFINE run == [runs[i] EXCEPT !.phase = p]
<1>3. /\ run \in Run /\ run.parent = runs[i].parent
      /\ run.status = runs[i].status /\ run.expectedVersion = runs[i].expectedVersion
  BY <1>2 DEF Run
<1>4. runs' = [runs EXCEPT ![i] = run]
  BY <1>1
<1> HIDE DEF run
<1> QED BY <1>1, <1>3, <1>4

\* A session that exists, or that an HR transaction saw, has a turn; with it the
\* types are inductive, for the recovery looks at the last turn.
TypeInv ==
  /\ TypeOK
  /\ session.status # "NONE" => Len(turns) > 0
  /\ hr.seen.status # "NONE" => Len(turns) > 0

LEMMA InitType == Init => TypeInv
BY ConstantsAssumption
   DEF Init, TypeInv, TypeOK, NoSession, SessionRow, HrIdle, SessionStatus, RuntimeState,
       EndReason, InterviewStatus, ApplicationStatus, NoTurn, NoDeadline

\* The conditions a step has to establish, given what it leaves unchanged.
LEMMA TypeFromParts ==
  ASSUME TypeOK,
         now' \in Nat, accessUntil' \in Nat,
         session' \in SessionRow, session'.currentTurn \in 0 .. Len(turns'),
         turns' \in Seq(Turn),
         runs' \in Seq(Run), \A i \in 1 .. Len(runs') : runs'[i].parent \in 1 .. Len(turns'),
         interview' \in InterviewStatus, application' \in ApplicationStatus,
         hr' \in [kind : {"none", "revoke", "withdraw"}, seen : SessionRow],
         reply' \in {"NONE", "SESSION_EXPIRED"},
         session'.status # "NONE" => Len(turns') > 0,
         hr'.seen.status # "NONE" => Len(turns') > 0
  PROVE  TypeInv'
BY DEF TypeInv, TypeOK

LEMMA NextType == TypeInv /\ [Next]_vars => TypeInv'
<1> SUFFICES ASSUME TypeInv, [Next]_vars PROVE TypeInv'
  OBVIOUS
<1> USE DEF TypeInv
<1>0. /\ TypeOK
      /\ turns \in Seq(Turn) /\ Len(turns) \in Nat
      /\ runs \in Seq(Run) /\ Len(runs) \in Nat
      /\ \A i \in 1 .. Len(turns) : turns[i] \in Turn
      /\ \A i \in 1 .. Len(runs) : runs[i] \in Run
      /\ \A i \in 1 .. Len(runs) : runs[i].parent \in 1 .. Len(turns)
  BY DEF TypeOK
<1>a. \A i \in 1 .. Len(turns) : turns[i].root \in Positions /\ turns[i].seq \in Nat
  BY <1>0 DEF Turn
<1>b. \A i \in 1 .. Len(runs) : runs[i].status \in RunStatus
  BY <1>0 DEF Run
<1>c. {"done", "dead", "calling", "ask", "continue", "error"} \subseteq Phase
      /\ {"PROCESSING", "SUCCEEDED", "FAILED", "SUPERSEDED"} \subseteq RunStatus
  BY DEF Phase, RunStatus
<1>1. ASSUME NEW t \in RequestTimes, StartInterview(t) PROVE TypeInv'
  <2>1. t \in Nat
    BY <1>0 DEF RequestTimes, TypeOK
  <2>2. session' \in SessionRow /\ session'.currentTurn = 1
    BY <1>1, <2>1, ConstantsAssumption
    DEF StartInterview, SessionRow, SessionStatus, RuntimeState, EndReason, NoDeadline
  <2>3. turns' \in Seq(Turn) /\ Len(turns') = Len(turns) + 1
    <3>1. MainTurn(1, 1) \in Turn
      BY MainTurnType, ConstantsAssumption DEF Positions
    <3> QED BY <1>0, <1>1, <3>1 DEF StartInterview
  <2>4. accessUntil' \in Nat
    BY <1>0, <1>1, <2>1, ConstantsAssumption DEF StartInterview, TypeOK
  <2>5. interview' \in InterviewStatus
    BY <1>1 DEF StartInterview, InterviewStatus
  <2>6. /\ now' = now /\ runs' = runs /\ application' = application /\ hr' = hr /\ reply' = "NONE"
    BY <1>1 DEF StartInterview
  <2> QED BY <1>0, <2>2, <2>3, <2>4, <2>5, <2>6, TypeFromParts DEF TypeOK
<1>2. ASSUME NEW t \in RequestTimes, NEW isSkipped \in BOOLEAN, NEW id \in 1 .. Len(turns),
             SubmitAnswer(id, isSkipped, t)
      PROVE  TypeInv'
  <2> DEFINE status == IF isSkipped THEN "SKIPPED" ELSE "ANSWERED"
             closed == CloseTurn(id, status)
  <2>1. t \in Nat
    BY <1>0 DEF RequestTimes, TypeOK
  <2>2. closed \in Seq(Turn) /\ Len(closed) = Len(turns)
    BY <1>0, CloseTurnChangesStatusOnly DEF SameButStatus, TurnStatus
  <2>3. /\ now' = now /\ interview' = interview /\ application' = application
        /\ accessUntil' = accessUntil /\ hr' = hr /\ reply' = "NONE"
    BY <1>2 DEF SubmitAnswer
  <2>4. session.status # "NONE"
    BY <1>2 DEF SubmitAnswer, InProgress
  <2>5. CASE Eligible(turns[id].root, isSkipped, t)
    <3>1. turns' = closed /\ PrepareAdvancingRun(id, t)
      BY <1>2, <2>5 DEF SubmitAnswer
    <3>2. AdvanceDeadline(t) \in Nat
      BY <1>0, <2>1, SessionColumns, ConstantsAssumption DEF AdvanceDeadline
    <3>3. session' \in SessionRow /\ session'.currentTurn = 0
      BY <1>0, <3>1, <3>2, SessionColumns DEF PrepareAdvancingRun, SessionRow, RuntimeState, NoTurn
    <3> DEFINE run == [status |-> "PROCESSING", phase |-> "calling",
                       expectedVersion |-> session.version + 1, parent |-> id]
    <3>4. run \in Run
      BY <1>0, <1>c, SessionColumns DEF Run
    <3>5. runs' = Append(runs, run)
      BY <3>1 DEF PrepareAdvancingRun
    <3>6. run.parent = id
      OBVIOUS
    <3> HIDE DEF run, closed
    <3>7. /\ runs' \in Seq(Run)
          /\ \A i \in 1 .. Len(runs') : runs'[i].parent \in 1 .. Len(turns')
      BY <1>0, <2>2, <3>1, <3>4, <3>5, <3>6
    <3> QED BY <1>0, <2>2, <2>3, <2>4, <3>1, <3>3, <3>7, TypeFromParts DEF TypeOK
  <2>6. CASE ~Eligible(turns[id].root, isSkipped, t)
    <3>1. OpenNextMainQuestion(closed, turns[id].root, turns[id].seq) /\ runs' = runs
      BY <1>2, <2>6 DEF SubmitAnswer
    <3> HIDE DEF closed
    <3>2. /\ turns' \in Seq(Turn) /\ Len(turns') \in Nat /\ Len(turns') >= Len(turns)
          /\ session' \in SessionRow /\ session'.currentTurn \in 0 .. Len(turns')
      BY <1>0, <1>a, <2>2, <3>1, OpenNextMainQuestionType
    <3> QED BY <1>0, <2>3, <2>4, <3>1, <3>2, TypeFromParts DEF TypeOK
  <2> QED BY <2>5, <2>6
<1>3. ASSUME NEW endReason \in EndReason, CloseSession(endReason), InProgress,
             reply' = "NONE"
      PROVE  TypeInv'
  <2>1. /\ now' = now /\ runs' = runs /\ accessUntil' = accessUntil /\ hr' = hr
    BY <1>3 DEF CloseSession
  <2>2. session.status # "NONE"
    BY <1>3 DEF InProgress
  <2>3. /\ turns' \in Seq(Turn) /\ Len(turns') = Len(turns)
        /\ session' \in SessionRow
        /\ session'.currentTurn = 0
        /\ interview' \in InterviewStatus
        /\ application' \in ApplicationStatus
    BY <1>0, <1>3, CloseSessionType
  <2> QED BY <1>0, <1>3, <2>1, <2>2, <2>3, TypeFromParts DEF TypeOK
<1>4. ASSUME NEW t \in RequestTimes, NEW confirm \in BOOLEAN, FinishSession(confirm, t)
      PROVE  TypeInv'
  <2>1. PICK endReason \in EndReason : CloseSession(endReason)
    BY <1>4 DEF FinishSession, EndReason
  <2> QED BY <1>3, <1>4, <2>1 DEF FinishSession
<1>5. ASSUME NEW t \in RequestTimes, CloseAtDeadline(t) PROVE TypeInv'
  BY <1>3, <1>5 DEF CloseAtDeadline, EndReason
<1>6. ASSUME NEW t \in RequestTimes, RefuseExpired(t) PROVE TypeInv'
  BY <1>6 DEF RefuseExpired, TypeOK
<1>7. ASSUME NEW t \in RequestTimes, RecoverStaleAdvancing(t) PROVE TypeInv'
  <2> DEFINE last == turns[Len(turns)]
  <2>1. session.status # "NONE" /\ Len(turns) > 0
    BY <1>7 DEF RecoverStaleAdvancing, Advancing, InProgress
  <2>2. OpenNextMainQuestion(turns, last.root, last.seq)
    BY <1>7 DEF RecoverStaleAdvancing
  <2>3. /\ turns' \in Seq(Turn) /\ Len(turns') \in Nat /\ Len(turns') >= Len(turns)
        /\ session' \in SessionRow /\ session'.currentTurn \in 0 .. Len(turns')
    BY <1>0, <1>a, <2>1, <2>2, OpenNextMainQuestionType
  <2>4. runs' = [i \in 1 .. Len(runs) |->
                  IF runs[i].status = "PROCESSING" THEN [runs[i] EXCEPT !.status = "FAILED"]
                                                   ELSE runs[i]]
    BY <1>7 DEF RecoverStaleAdvancing
  <2>5. \A i \in 1 .. Len(runs) : runs'[i] \in Run /\ runs'[i].parent = runs[i].parent
    BY <1>0, <1>c, <2>4 DEF Run
  <2>6. runs' \in Seq(Run) /\ Len(runs') = Len(runs)
    BY <1>0, <2>4, <2>5
  <2>7. /\ now' = now /\ interview' = interview /\ application' = application
        /\ accessUntil' = accessUntil /\ hr' = hr /\ reply' = "NONE"
    BY <1>7 DEF RecoverStaleAdvancing
  <2> QED BY <1>0, <2>1, <2>3, <2>5, <2>6, <2>7, TypeFromParts DEF TypeOK
<1>8. ASSUME NEW i \in 1 .. Len(runs), NEW p \in Phase, runs' = [runs EXCEPT ![i].phase = p],
             reply' = "NONE",
             UNCHANGED <<now, session, turns, interview, application, accessUntil, hr>>
      PROVE  TypeInv'
  <2>1. /\ runs' \in Seq(Run) /\ Len(runs') = Len(runs)
        /\ \A j \in 1 .. Len(runs) : runs'[j].parent = runs[j].parent
    BY <1>0, <1>8, RunPhaseType
  <2> QED BY <1>0, <1>8, <2>1, TypeFromParts DEF TypeOK
<1>9. ASSUME NEW i \in 1 .. Len(runs),
             \/ \E outcome \in {"ask", "continue", "error"} : AiReturns(i, outcome)
             \/ WorkflowDies(i)
      PROVE  TypeInv'
  BY <1>8, <1>9, <1>c DEF AiReturns, WorkflowDies
<1>10. ASSUME NEW i \in 1 .. Len(runs), NEW s \in RunStatus, SettleRun(i, s),
              now' = now, interview' = interview, application' = application,
              accessUntil' = accessUntil, hr' = hr, reply' = "NONE",
              \/ UNCHANGED <<session, turns>>
              \/ /\ turns' \in Seq(Turn) /\ Len(turns') \in Nat /\ Len(turns') >= Len(turns)
                 /\ session' \in SessionRow /\ session'.currentTurn \in 0 .. Len(turns')
                 /\ Len(turns') > 0
       PROVE  TypeInv'
  <2>1. /\ runs' \in Seq(Run) /\ Len(runs') = Len(runs)
        /\ \A j \in 1 .. Len(runs) : runs'[j].parent = runs[j].parent
    BY <1>0, <1>10, <1>c, RunUpdateType DEF SettleRun
  <2>2. CASE UNCHANGED <<session, turns>>
    BY <1>0, <1>10, <2>1, <2>2, TypeFromParts DEF TypeOK
  <2>3. CASE ~UNCHANGED <<session, turns>>
    <3>1. /\ turns' \in Seq(Turn) /\ Len(turns') \in Nat /\ Len(turns') >= Len(turns)
          /\ session' \in SessionRow /\ session'.currentTurn \in 0 .. Len(turns')
          /\ Len(turns') > 0
      BY <1>10, <2>3
    <3>2. \A j \in 1 .. Len(runs') : runs'[j].parent \in 1 .. Len(turns')
      BY <1>0, <2>1, <3>1
    <3> QED BY <1>0, <1>10, <2>1, <3>1, <3>2, TypeFromParts DEF TypeOK
  <2> QED BY <2>2, <2>3
<1>11. ASSUME NEW i \in 1 .. Len(runs), NEW s \in RunStatus, ContinueWithNextMain(i, s)
       PROVE  /\ SettleRun(i, s)
              /\ turns' \in Seq(Turn) /\ Len(turns') \in Nat /\ Len(turns') >= Len(turns)
              /\ session' \in SessionRow /\ session'.currentTurn \in 0 .. Len(turns')
              /\ Len(turns') > 0
  <2>1. runs[i].parent \in 1 .. Len(turns)
    BY <1>0
  <2>2. OpenNextMainQuestion(turns, turns[runs[i].parent].root, turns[runs[i].parent].seq)
    BY <1>11 DEF ContinueWithNextMain
  <2>3. SettleRun(i, s)
    BY <1>11 DEF ContinueWithNextMain
  <2> QED BY <1>0, <1>a, <2>1, <2>2, <2>3, OpenNextMainQuestionType
<1>12. ASSUME NEW i \in 1 .. Len(runs), AskFollowUp(i)
       PROVE  /\ SettleRun(i, "SUCCEEDED")
              /\ turns' \in Seq(Turn) /\ Len(turns') \in Nat /\ Len(turns') >= Len(turns)
              /\ session' \in SessionRow /\ session'.currentTurn \in 0 .. Len(turns')
              /\ Len(turns') > 0
  <2>1. FollowUpTurn(i) \in Turn
    <3> DEFINE parent == turns[runs[i].parent]
    <3>1. parent.root \in Positions /\ parent.seq + 1 \in Nat /\ runs[i].parent \in Nat /\ i \in Nat
      BY <1>0, <1>a
    <3>2. FollowUpsOf(parent.root) + 1 \in Nat
      BY <1>0, FollowUpsAreFinite
    <3> HIDE DEF parent
    <3>3. FollowUpTurn(i) = [root |-> parent.root, seq |-> parent.seq + 1, kind |-> "FOLLOW_UP",
                             followUpIndex |-> FollowUpsOf(parent.root) + 1,
                             parent |-> runs[i].parent, run |-> i, status |-> "OPEN"]
      BY DEF FollowUpTurn, parent
    <3> QED BY <3>1, <3>2, <3>3 DEF Turn, TurnKind, TurnStatus
  <2>2. turns' = Append(turns, FollowUpTurn(i))
    BY <1>12 DEF AskFollowUp
  <2>3. turns' \in Seq(Turn) /\ Len(turns') = Len(turns) + 1
    BY <1>0, <2>1, <2>2
  <2>4. session' \in SessionRow /\ session'.currentTurn = Len(turns) + 1
    <3>1. session' = [session EXCEPT !.currentTurn = Len(turns) + 1,
                                     !.runtimeState = "AWAITING_ANSWER",
                                     !.advanceDeadline = NoDeadline,
                                     !.followUpsUsed = @ + 1,
                                     !.version = @ + 1]
      BY <1>12 DEF AskFollowUp
    <3>2. Len(turns) + 1 \in Nat
      BY <1>0
    <3> QED BY <1>0, <3>1, <3>2, SessionColumns DEF SessionRow, RuntimeState, NoDeadline
  <2>5. SettleRun(i, "SUCCEEDED")
    BY <1>12 DEF AskFollowUp
  <2> QED BY <1>0, <2>3, <2>4, <2>5
<1>13. ASSUME NEW i \in 1 .. Len(runs), ApplyAiResult(i) PROVE TypeInv'
  <2>1. CASE Supersede(i)
    BY <1>10, <1>13, <1>c, <2>1 DEF Supersede, ApplyAiResult
  <2>2. CASE AskFollowUp(i)
    BY <1>10, <1>12, <1>13, <1>c, <2>2 DEF ApplyAiResult
  <2>3. CASE ContinueWithNextMain(i, "SUCCEEDED")
    BY <1>10, <1>11, <1>13, <1>c, <2>3 DEF ApplyAiResult
  <2> QED BY <1>13, <2>1, <2>2, <2>3 DEF ApplyAiResult
<1>14. ASSUME NEW i \in 1 .. Len(runs), ApplyFallback(i) PROVE TypeInv'
  <2>1. CASE Supersede(i)
    BY <1>10, <1>14, <1>c, <2>1 DEF Supersede, ApplyFallback
  <2>2. CASE ContinueWithNextMain(i, "FAILED")
    BY <1>10, <1>11, <1>14, <1>c, <2>2 DEF ApplyFallback
  <2> QED BY <1>14, <2>1, <2>2 DEF ApplyFallback
<1>15. ASSUME NEW kind \in HrTransactions, HrReads(kind) PROVE TypeInv'
  BY <1>15, ConstantsAssumption DEF HrReads, TypeOK
<1>16. CASE HrCommits
  <2>1. hr.seen \in SessionRow /\ hr.seen.currentTurn \in Nat /\ hr.seen.version + 1 \in Nat
    BY <1>0 DEF TypeOK, SessionRow
  <2>2. \/ UNCHANGED <<session, turns>>
        \/ /\ turns' \in Seq(Turn) /\ Len(turns') = Len(turns)
           /\ session' \in SessionRow /\ session'.currentTurn = 0
           /\ session'.status = "CANCELLED" /\ hr.seen.status = "IN_PROGRESS"
           /\ InterviewOpen
    <3>1. CASE InterviewOpen /\ hr.seen.status = "IN_PROGRESS"
      <4>1. SameButStatus(turns')
        BY <1>0, <1>16, <2>1, <3>1, CloseTurnChangesStatusOnly
        DEF HrCommits, CancelSession, TurnStatus
      <4>2. session' \in SessionRow /\ session'.currentTurn = 0 /\ session'.status = "CANCELLED"
        <5>1. session' = [session EXCEPT !.status = "CANCELLED", !.runtimeState = "CLOSED",
                                         !.endReason = "HR_CANCELLED", !.currentTurn = NoTurn,
                                         !.version = hr.seen.version + 1]
          BY <1>16, <3>1 DEF HrCommits, CancelSession
        <5> QED BY <1>0, <2>1, <5>1, SessionColumns
                DEF SessionRow, SessionStatus, RuntimeState, EndReason, NoTurn
      <4> QED BY <3>1, <4>1, <4>2 DEF SameButStatus
    <3>2. CASE ~(InterviewOpen /\ hr.seen.status = "IN_PROGRESS")
      BY <1>16, <3>2 DEF HrCommits, CancelSession
    <3> QED BY <3>1, <3>2
  <2>3. interview' \in InterviewStatus /\ application' \in ApplicationStatus
    BY <1>0, <1>16 DEF HrCommits, ApplicationAfterHr, TypeOK, InterviewStatus, ApplicationStatus
  <2>4. hr' \in [kind : {"none", "revoke", "withdraw"}, seen : SessionRow]
    BY <1>16 DEF HrCommits, HrIdle, NoSession, SessionRow, SessionStatus, RuntimeState,
                 EndReason, NoTurn, NoDeadline
  <2>5. hr'.seen.status = "NONE" /\ now' = now /\ accessUntil' = accessUntil
        /\ runs' = runs /\ reply' = "NONE"
    BY <1>16 DEF HrCommits, HrIdle, NoSession
  <2>6. Len(turns') = Len(turns) /\ (session'.status # "NONE" => Len(turns) > 0)
    BY <1>0, <2>2
  <2> QED BY <1>0, <2>2, <2>3, <2>4, <2>5, <2>6, TypeFromParts DEF TypeOK
<1>17. CASE HrAborts
  <2>1. hr' \in [kind : {"none", "revoke", "withdraw"}, seen : SessionRow]
    BY <1>17 DEF HrAborts, HrIdle, NoSession, SessionRow, SessionStatus, RuntimeState,
                 EndReason, NoTurn, NoDeadline
  <2>2. hr'.seen.status = "NONE"
    BY <1>17 DEF HrAborts, HrIdle, NoSession
  <2> QED BY <1>0, <1>17, <2>1, <2>2, TypeFromParts DEF HrAborts, TypeOK
<1>18. CASE Tick
  BY <1>0, <1>18 DEF Tick, TypeOK
<1>19. CASE UNCHANGED vars
  BY <1>0, <1>19 DEF vars, TypeOK
<1> QED BY <1>1, <1>2, <1>4, <1>5, <1>6, <1>7, <1>9, <1>13, <1>14, <1>15, <1>16, <1>17, <1>18, <1>19
        DEF Next, CandidateRequest, GetSession, WorkflowStep, HrStep

\* The rows hold values of their types in every reachable state, for every
\* number of questions, budget, duration and set of HR transactions.
THEOREM TypesAreCorrect == Spec => []TypeOK
<1>1. Spec => []TypeInv
  BY InitType, NextType, PTL DEF Spec
<1>2. TypeInv => TypeOK
  BY DEF TypeInv
<1> QED BY <1>1, <1>2, PTL

-----------------------------------------------------------------------------
(* The inductive invariant.                                                *)

Last == turns[Len(turns)]

SessionInv ==
  /\ session.status = "NONE" =>
       turns = <<>> /\ runs = <<>> /\ session.followUpsUsed = 0 /\ session.endReason = "NONE"
  /\ InProgress =>
       /\ session.runtimeState \in {"AWAITING_ANSWER", "ADVANCING", "READY_TO_FINISH"}
       /\ session.currentTurn \in {NoTurn, Len(turns)}
       /\ session.endReason = "NONE"

\* Of the runs only the newest can match the version of the session, and it
\* does exactly while the session advances.
RunsInv ==
  InProgress =>
    /\ \A i \in 1 .. Len(runs) :
         /\ runs[i].expectedVersion <= session.version
         /\ runs[i].expectedVersion = session.version =>
              i = Len(runs) /\ session.runtimeState = "ADVANCING"
    /\ session.runtimeState = "ADVANCING" =>
         /\ Len(runs) > 0
         /\ runs[Len(runs)].expectedVersion = session.version
         /\ runs[Len(runs)].parent = Len(turns)
         /\ runs[Len(runs)].status = "PROCESSING" \/ now >= session.advanceDeadline
         /\ Last.status = "ANSWERED"

\* What the next insert is computed from: the last turn.
LastTurnInv ==
  Len(turns) > 0 =>
    /\ \A i \in 1 .. Len(turns) : turns[i].root <= Last.root
    /\ FollowUpsOf(Last.root) = Last.followUpIndex

\* Every main question up to the last turn's was asked; what was closed without
\* an answer was closed with the session.
QuestionsInv ==
  /\ Len(turns) > 0 =>
       \A q \in 1 .. Last.root :
         \E i \in 1 .. Len(turns) : turns[i].kind = "MAIN" /\ turns[i].root = q
  /\ InProgress => \A i \in 1 .. Len(turns) : turns[i].status # "CLOSED_UNANSWERED"
  /\ InProgress /\ session.runtimeState = "READY_TO_FINISH" => Last.root = NumQuestions
  /\ session.endReason = "ALL_QUESTIONS_ANSWERED" =>
       /\ session.status = "COMPLETED"
       /\ Last.root = NumQuestions
       /\ \A i \in 1 .. Len(turns) : turns[i].status \in {"ANSWERED", "SKIPPED"}

ProvenanceInv ==
  \A i \in 1 .. Len(turns) :
    IF turns[i].kind = "MAIN" THEN turns[i].run = NoRun
    ELSE /\ turns[i].run \in 1 .. Len(runs)
         /\ runs[turns[i].run].status = "SUCCEEDED"
         /\ runs[turns[i].run].parent = i - 1
         /\ turns[i - 1].status = "ANSWERED"

\* No closing commits while an HR transaction holds the interview.
HrInv == hr # HrIdle => hr.kind # "none" /\ hr.seen.status = session.status

Inv ==
  /\ TypeInv
  /\ OneOpenTurn
  /\ TurnsInOrder
  /\ FollowUpBudget
  /\ SessionInv
  /\ RunsInv
  /\ LastTurnInv
  /\ QuestionsInv
  /\ ProvenanceInv
  /\ HrInv
  /\ StatusesAgree

-----------------------------------------------------------------------------
(* The kinds of steps.  Every step of the specification is one of these    *)
(* six, which the rest of the proofs looks at instead of the handlers.     *)

\* No run is added, and a run that is settled stays so.
RunsKept ==
  /\ runs' \in Seq(Run)
  /\ Len(runs') = Len(runs)
  /\ \A i \in 1 .. Len(runs) :
       /\ runs'[i].expectedVersion = runs[i].expectedVersion
       /\ runs'[i].parent = runs[i].parent
       /\ runs[i].status # "PROCESSING" => runs'[i].status = runs[i].status

\* The turns, the open one of them answered or skipped.
Answered(rows) ==
  /\ SameButStatus(rows)
  /\ \A i \in 1 .. Len(turns) :
       IF turns[i].status = "OPEN" THEN rows[i].status \in {"ANSWERED", "SKIPPED"}
                                   ELSE rows[i].status = turns[i].status

BeginStep ==
  /\ session.status = "NONE"
  /\ turns' = Append(turns, MainTurn(1, 1))
  /\ session'.status = "IN_PROGRESS"
  /\ session'.runtimeState = "AWAITING_ANSWER"
  /\ session'.currentTurn = 1
  /\ session'.followUpsUsed = 0
  /\ session'.endReason = "NONE"
  /\ runs' = runs

NextMainStep ==
  /\ InProgress
  /\ session.runtimeState \in {"AWAITING_ANSWER", "ADVANCING"}
  /\ \E rows : Answered(rows) /\ OpenNextMainQuestion(rows, Last.root, Len(turns))
  /\ RunsKept

ConsiderStep ==
  /\ InProgress
  /\ session.runtimeState = "AWAITING_ANSWER"
  /\ BudgetsAllow(Last.root)
  /\ Answered(turns')
  /\ turns'[Len(turns)].status = "ANSWERED"
  /\ \E t \in Nat : PrepareAdvancingRun(Len(turns), t)

FollowUpStep ==
  /\ Advancing
  /\ BudgetsAllow(Last.root)
  /\ AskFollowUp(Len(runs))
  /\ runs[Len(runs)].status = "PROCESSING"
  /\ RunsKept

EndStep ==
  /\ InProgress
  /\ session'.status \in {"COMPLETED", "EXPIRED", "CANCELLED"}
  /\ session'.followUpsUsed = session.followUpsUsed
  /\ session'.currentTurn = NoTurn
  /\ SameButStatus(turns')
  /\ \A i \in 1 .. Len(turns) :
       turns[i].status # "OPEN" => turns'[i].status = turns[i].status
  /\ session'.status # "CANCELLED" =>
       \A i \in 1 .. Len(turns) : turns'[i].status # "OPEN"
  /\ session'.endReason = "ALL_QUESTIONS_ANSWERED" =>
       session'.status = "COMPLETED" /\ session.runtimeState = "READY_TO_FINISH"
  /\ runs' = runs

\* The session and its turns stay as they are.
IdleStep ==
  /\ UNCHANGED <<session, turns>>
  /\ RunsKept
  /\ now' >= now
  /\ Advancing => \/ runs'[Len(runs)].status = runs[Len(runs)].status
                  \/ now >= session.advanceDeadline

\* Settling a run changes no run that is settled.
LEMMA SettleRunKeeps ==
  ASSUME TypeOK, NEW i \in 1 .. Len(runs), NEW s \in RunStatus, SettleRun(i, s)
  PROVE  /\ RunsKept
         /\ \A j \in 1 .. Len(runs) :
              runs'[j].status = IF j = i /\ runs[j].status = "PROCESSING" THEN s
                                                                          ELSE runs[j].status
<1>1. runs \in Seq(Run) /\ Len(runs) \in Nat /\ \A j \in 1 .. Len(runs) : runs[j] \in Run
  BY DEF TypeOK
<1> DEFINE status == IF runs[i].status = "PROCESSING" THEN s ELSE runs[i].status
           run == [runs[i] EXCEPT !.phase = "done", !.status = status]
<1>2. status \in RunStatus /\ "done" \in Phase
  BY <1>1 DEF Run, Phase
<1>3. [runs[i] EXCEPT !.phase = "done"].status = runs[i].status
  BY <1>1 DEF Run
<1>4. runs' = [runs EXCEPT ![i] = run]
  BY <1>1, <1>3 DEF SettleRun
<1> HIDE DEF status
<1>5. /\ run \in Run /\ run.parent = runs[i].parent
      /\ run.expectedVersion = runs[i].expectedVersion /\ run.status = status
  BY <1>1, <1>2 DEF Run
<1> HIDE DEF run
<1>6. /\ runs' \in Seq(Run) /\ Len(runs') = Len(runs)
      /\ \A j \in 1 .. Len(runs) :
           /\ runs'[j].expectedVersion = runs[j].expectedVersion
           /\ runs'[j].parent = runs[j].parent
           /\ runs'[j].status = IF j = i THEN status ELSE runs[j].status
  BY <1>1, <1>4, <1>5
<1> QED BY <1>6 DEF RunsKept, status

\* Unchanged rows differ in nothing, not even their statuses.
LEMMA SameTurns ==
  ASSUME turns \in Seq(Turn)
  PROVE  SameButStatus(turns)
<1>1. \A i \in 1 .. Len(turns) : turns[i] \in Turn
  OBVIOUS
<1>2. \A i \in 1 .. Len(turns) :
        turns[i] = [turns[i] EXCEPT !.status = turns[i].status] /\ turns[i].status \in TurnStatus
  BY <1>1 DEF Turn
<1> QED BY <1>2 DEF SameButStatus

LEMMA RunsUnchanged ==
  ASSUME TypeOK, runs' = runs
  PROVE  RunsKept
BY DEF TypeOK, RunsKept

\* Every step is one of the kinds.
LEMMA KindsOfSteps ==
  ASSUME Inv, [Next]_vars
  PROVE  BeginStep \/ NextMainStep \/ ConsiderStep \/ FollowUpStep \/ EndStep \/ IdleStep
<1> DEFINE Kind == BeginStep \/ NextMainStep \/ ConsiderStep \/ FollowUpStep \/ EndStep \/ IdleStep
<1> SUFFICES Kind
  OBVIOUS
<1>0. /\ TypeOK /\ TypeInv
      /\ turns \in Seq(Turn) /\ Len(turns) \in Nat
      /\ runs \in Seq(Run) /\ Len(runs) \in Nat
      /\ now \in Nat
      /\ session.status # "NONE" => Len(turns) > 0
      /\ \A i \in 1 .. Len(turns) : turns[i].seq = i
  BY DEF Inv, TypeInv, TypeOK, TurnsInOrder
<1>1. ASSUME NEW t \in RequestTimes, StartInterview(t) PROVE Kind
  BY <1>1 DEF StartInterview, BeginStep
<1>2. ASSUME NEW t \in RequestTimes, NEW isSkipped \in BOOLEAN, NEW id \in 1 .. Len(turns),
             SubmitAnswer(id, isSkipped, t)
      PROVE  Kind
  <2> DEFINE status == IF isSkipped THEN "SKIPPED" ELSE "ANSWERED"
             closed == CloseTurn(id, status)
  <2>1. InProgress /\ session.currentTurn = id /\ turns[id].status = "OPEN"
    BY <1>2 DEF SubmitAnswer
  <2>2. id = Len(turns) /\ session.runtimeState = "AWAITING_ANSWER"
    BY <1>0, <2>1 DEF Inv, SessionInv, OneOpenTurn, NoTurn
  <2>3. \A i \in 1 .. Len(turns) : turns[i].status = "OPEN" <=> i = id
    BY <2>1 DEF Inv, OneOpenTurn
  <2>4. Answered(closed) /\ closed[Len(turns)].status = status
    <3>1. id \in Nat /\ status \in TurnStatus
      BY DEF TurnStatus
    <3>2. /\ SameButStatus(closed)
          /\ \A i \in 1 .. Len(turns) :
               closed[i].status = IF i = id /\ turns[i].status = "OPEN" THEN status
                                                                       ELSE turns[i].status
      BY <1>0, <3>1, CloseTurnChangesStatusOnly
    <3> QED BY <2>1, <2>2, <2>3, <3>2 DEF Answered
  <2>5. CASE Eligible(turns[id].root, isSkipped, t)
    <3>1. t \in Nat
      BY <1>0 DEF RequestTimes
    <3>2. turns' = closed /\ PrepareAdvancingRun(Len(turns), t) /\ status = "ANSWERED"
      BY <1>2, <2>2, <2>5 DEF SubmitAnswer, Eligible
    <3>3. BudgetsAllow(Last.root)
      BY <2>2, <2>5 DEF Eligible, BudgetsAllow, Last
    <3> QED BY <2>1, <2>2, <2>4, <3>1, <3>2, <3>3 DEF ConsiderStep
  <2>6. CASE ~Eligible(turns[id].root, isSkipped, t)
    <3>1. OpenNextMainQuestion(closed, turns[id].root, turns[id].seq) /\ runs' = runs
      BY <1>2, <2>6 DEF SubmitAnswer
    <3>2. OpenNextMainQuestion(closed, Last.root, Len(turns))
      BY <1>0, <2>2, <3>1 DEF Last
    <3>3. RunsKept
      BY <1>0, <3>1, RunsUnchanged
    <3> QED BY <2>1, <2>2, <2>4, <3>2, <3>3 DEF NextMainStep
  <2> QED BY <2>5, <2>6
<1>3. ASSUME NEW endReason \in EndReason, CloseSession(endReason), InProgress,
             endReason # "HR_CANCELLED",
             endReason = "ALL_QUESTIONS_ANSWERED" => session.runtimeState = "READY_TO_FINISH"
      PROVE  Kind
  <2>1. turns' = CloseTurn(session.currentTurn, "CLOSED_UNANSWERED")
    BY <1>3 DEF CloseSession
  <2>2. /\ SameButStatus(turns')
        /\ \A i \in 1 .. Len(turns) :
             turns'[i].status = IF i = session.currentTurn /\ turns[i].status = "OPEN"
                                  THEN "CLOSED_UNANSWERED" ELSE turns[i].status
    BY <1>0, <2>1, SessionColumns, CloseTurnChangesStatusOnly DEF TurnStatus
  <2>3. \A i \in 1 .. Len(turns) : turns[i].status = "OPEN" <=> i = session.currentTurn
    BY <1>3 DEF Inv, OneOpenTurn
  <2>4. /\ session'.status = ClosedStatus(endReason)
        /\ session'.endReason = endReason
        /\ session'.currentTurn = NoTurn
        /\ session'.followUpsUsed = session.followUpsUsed
        /\ runs' = runs
    BY <1>0, <1>3, SessionColumns DEF CloseSession, SessionRow
  <2>5. /\ ClosedStatus(endReason) \in {"COMPLETED", "EXPIRED", "CANCELLED"}
        /\ endReason = "ALL_QUESTIONS_ANSWERED" => ClosedStatus(endReason) = "COMPLETED"
    BY DEF ClosedStatus
  <2> QED BY <1>3, <2>2, <2>3, <2>4, <2>5 DEF EndStep
<1>4. ASSUME NEW t \in RequestTimes, NEW confirm \in BOOLEAN, FinishSession(confirm, t)
      PROVE  Kind
  <2> DEFINE endReason == IF session.runtimeState = "READY_TO_FINISH"
                            THEN "ALL_QUESTIONS_ANSWERED" ELSE "SUBMITTED_EARLY"
  <2>1. InProgress /\ CloseSession(endReason)
    BY <1>4 DEF FinishSession
  <2>2. endReason \in EndReason /\ endReason # "HR_CANCELLED"
        /\ (endReason = "ALL_QUESTIONS_ANSWERED" => session.runtimeState = "READY_TO_FINISH")
    BY DEF EndReason
  <2> HIDE DEF endReason, Kind
  <2> QED BY <1>3, <2>1, <2>2
<1>5. ASSUME NEW t \in RequestTimes, CloseAtDeadline(t) PROVE Kind
  <2>1. InProgress /\ CloseSession("DEADLINE_REACHED")
    BY <1>5 DEF CloseAtDeadline
  <2>2. "DEADLINE_REACHED" \in EndReason
    BY DEF EndReason
  <2> HIDE DEF Kind
  <2> QED BY <1>3, <2>1, <2>2
<1>6. ASSUME NEW t \in RequestTimes, RecoverStaleAdvancing(t) PROVE Kind
  <2>1. Advancing /\ OpenNextMainQuestion(turns, Last.root, Last.seq)
    BY <1>6 DEF RecoverStaleAdvancing, Last
  <2>2. Len(turns) > 0 /\ Last.seq = Len(turns)
    BY <1>0, <2>1 DEF Last, Advancing, InProgress
  <2>3. \A i \in 1 .. Len(turns) : turns[i].status # "OPEN"
    BY <1>0, <2>1 DEF Inv, OneOpenTurn, Advancing, NoTurn
  <2>4. Answered(turns)
    BY <1>0, <2>3, SameTurns DEF Answered
  <2>5. RunsKept
    <3>1. runs' = [i \in 1 .. Len(runs) |->
                    IF runs[i].status = "PROCESSING" THEN [runs[i] EXCEPT !.status = "FAILED"]
                                                     ELSE runs[i]]
      BY <1>6 DEF RecoverStaleAdvancing
    <3>2. \A i \in 1 .. Len(runs) : runs[i] \in Run
      BY <1>0
    <3>3. \A i \in 1 .. Len(runs) :
            /\ runs'[i] \in Run
            /\ runs'[i].expectedVersion = runs[i].expectedVersion
            /\ runs'[i].parent = runs[i].parent
            /\ runs[i].status # "PROCESSING" => runs'[i].status = runs[i].status
      BY <3>1, <3>2 DEF Run, RunStatus
    <3>4. runs' \in Seq(Run) /\ Len(runs') = Len(runs)
      BY <1>0, <3>1, <3>3
    <3> QED BY <3>3, <3>4 DEF RunsKept
  <2> QED BY <2>1, <2>2, <2>4, <2>5 DEF NextMainStep, Advancing
<1>7. ASSUME NEW i \in 1 .. Len(runs), NEW p \in Phase, runs' = [runs EXCEPT ![i].phase = p],
             UNCHANGED <<now, session, turns>>
      PROVE  Kind
  <2>1. /\ RunsKept
        /\ \A j \in 1 .. Len(runs) : runs'[j].status = runs[j].status
    BY <1>0, <1>7, RunPhaseType DEF RunsKept
  <2>2. Advancing => Len(runs) > 0
    BY DEF Inv, RunsInv, Advancing
  <2> QED BY <1>0, <1>7, <2>1, <2>2 DEF IdleStep
<1>8. ASSUME NEW i \in 1 .. Len(runs),
             \/ \E outcome \in {"ask", "continue", "error"} : AiReturns(i, outcome)
             \/ WorkflowDies(i)
      PROVE  Kind
  <2>1. {"done", "dead", "ask", "continue", "error"} \subseteq Phase
    BY DEF Phase
  <2> HIDE DEF Kind
  <2> QED BY <1>7, <1>8, <2>1 DEF AiReturns, WorkflowDies
<1>9. ASSUME NEW i \in 1 .. Len(runs), Supersede(i), now' = now,
             LateResult(i) \/ now >= session.advanceDeadline
      PROVE  Kind
  <2>1. SettleRun(i, "SUPERSEDED") /\ UNCHANGED <<session, turns>>
    BY <1>9 DEF Supersede
  <2>2. /\ RunsKept
        /\ \A j \in 1 .. Len(runs) : j # i => runs'[j].status = runs[j].status
    BY <1>0, <2>1, SettleRunKeeps DEF RunStatus
  <2>3. Advancing => Len(runs) > 0 /\ runs[Len(runs)].expectedVersion = session.version
    BY DEF Inv, RunsInv, Advancing
  <2>4. Advancing /\ now < session.advanceDeadline => i # Len(runs)
    BY <1>0, <1>9, <2>3 DEF LateResult, Inv, TypeOK, SessionRow
  <2>5. session.advanceDeadline \in Nat
    BY <1>0, SessionColumns DEF SessionRow
  <2> QED BY <1>0, <1>9, <2>1, <2>2, <2>3, <2>4, <2>5 DEF IdleStep
<1>10. ASSUME NEW i \in 1 .. Len(runs), ~LateResult(i)
       PROVE  /\ Advancing /\ i = Len(runs)
              /\ runs[i].parent = Len(turns)
              /\ Last.seq = Len(turns)
              /\ runs[i].status = "PROCESSING" \/ now >= session.advanceDeadline
  <2>1. Advancing /\ InProgress /\ session.version = runs[i].expectedVersion
    BY <1>10 DEF LateResult, Advancing
  <2>2. Len(turns) > 0
    BY <1>0, <2>1 DEF InProgress
  <2>3. i = Len(runs)
    BY <2>1 DEF Inv, RunsInv
  <2> QED BY <1>0, <2>1, <2>2, <2>3 DEF Inv, RunsInv, Last, Advancing
<1>11. ASSUME NEW i \in 1 .. Len(runs), NEW s \in RunStatus, ContinueWithNextMain(i, s),
              ~LateResult(i)
       PROVE  Kind
  <2>1. Advancing /\ runs[i].parent = Len(turns) /\ Last.seq = Len(turns)
    BY <1>10, <1>11
  <2>2. OpenNextMainQuestion(turns, Last.root, Len(turns)) /\ SettleRun(i, s)
    BY <1>11, <2>1 DEF ContinueWithNextMain, Last
  <2>3. \A j \in 1 .. Len(turns) : turns[j].status # "OPEN"
    BY <1>0, <2>1 DEF Inv, OneOpenTurn, Advancing, NoTurn
  <2>4. Answered(turns)
    BY <1>0, <2>3, SameTurns DEF Answered
  <2>5. RunsKept
    BY <1>0, <2>2, SettleRunKeeps
  <2> QED BY <2>1, <2>2, <2>4, <2>5 DEF NextMainStep, Advancing
<1>12. ASSUME NEW i \in 1 .. Len(runs), ApplyAiResult(i) PROVE Kind
  <2>1. CASE LateResult(i) \/ now >= session.advanceDeadline
    BY <1>9, <1>12, <2>1 DEF ApplyAiResult
  <2>2. CASE ~(LateResult(i) \/ now >= session.advanceDeadline)
    <3>1. /\ Advancing /\ i = Len(runs) /\ runs[i].parent = Len(turns)
          /\ runs[i].status = "PROCESSING"
      BY <1>10, <2>2
    <3>2. CASE runs[i].phase = "ask" /\ BudgetsAllow(turns[runs[i].parent].root)
      <4>1. AskFollowUp(i) /\ BudgetsAllow(Last.root)
        BY <1>12, <2>2, <3>1, <3>2 DEF ApplyAiResult, Last
      <4>2. RunsKept
        BY <1>0, <4>1, SettleRunKeeps DEF AskFollowUp, RunStatus
      <4> QED BY <3>1, <4>1, <4>2 DEF FollowUpStep
    <3>3. CASE ~(runs[i].phase = "ask" /\ BudgetsAllow(turns[runs[i].parent].root))
      <4>1. ContinueWithNextMain(i, "SUCCEEDED") /\ "SUCCEEDED" \in RunStatus
        BY <1>12, <2>2, <3>3 DEF ApplyAiResult, RunStatus
      <4> HIDE DEF Kind
      <4> QED BY <1>11, <2>2, <4>1
    <3> QED BY <3>2, <3>3
  <2> QED BY <2>1, <2>2
<1>13. ASSUME NEW i \in 1 .. Len(runs), ApplyFallback(i) PROVE Kind
  <2>1. CASE LateResult(i)
    BY <1>9, <1>13, <2>1 DEF ApplyFallback
  <2>2. CASE ~LateResult(i)
    <3>1. ContinueWithNextMain(i, "FAILED") /\ "FAILED" \in RunStatus
      BY <1>13, <2>2 DEF ApplyFallback, RunStatus
    <3> HIDE DEF Kind
    <3> QED BY <1>11, <2>2, <3>1
  <2> QED BY <2>1, <2>2
<1>14. CASE UNCHANGED <<session, turns, runs>> /\ now' >= now
  <2>1. Advancing => Len(runs) > 0
    BY DEF Inv, RunsInv, Advancing
  <2> QED BY <1>0, <1>14, <2>1, RunsUnchanged DEF IdleStep
<1>15. CASE HrCommits
  <2>1. CASE InterviewOpen /\ hr.seen.status = "IN_PROGRESS"
    <3>1. InProgress
      BY <1>15, <2>1 DEF Inv, HrInv, InProgress, HrCommits
    <3>2. hr.seen \in SessionRow /\ hr.seen.currentTurn \in Nat
      BY <1>0 DEF TypeOK, SessionRow
    <3>3. turns' = CloseTurn(hr.seen.currentTurn, "CLOSED_UNANSWERED") /\ runs' = runs
      BY <1>15, <2>1 DEF HrCommits, CancelSession
    <3>4. /\ SameButStatus(turns')
          /\ \A i \in 1 .. Len(turns) :
               turns'[i].status = IF i = hr.seen.currentTurn /\ turns[i].status = "OPEN"
                                    THEN "CLOSED_UNANSWERED" ELSE turns[i].status
      BY <1>0, <3>2, <3>3, CloseTurnChangesStatusOnly DEF TurnStatus
    <3>5. /\ session'.status = "CANCELLED"
          /\ session'.endReason = "HR_CANCELLED"
          /\ session'.currentTurn = NoTurn
          /\ session'.followUpsUsed = session.followUpsUsed
      <4>1. session' = [session EXCEPT !.status = "CANCELLED", !.runtimeState = "CLOSED",
                                       !.endReason = "HR_CANCELLED", !.currentTurn = NoTurn,
                                       !.version = hr.seen.version + 1]
        BY <1>15, <2>1 DEF HrCommits, CancelSession
      <4> QED BY <1>0, <4>1, SessionColumns DEF SessionRow
    <3> QED BY <3>1, <3>3, <3>4, <3>5 DEF EndStep
  <2>2. CASE ~(InterviewOpen /\ hr.seen.status = "IN_PROGRESS")
    BY <1>0, <1>14, <1>15, <2>2 DEF HrCommits, CancelSession
  <2> QED BY <2>1, <2>2
<1>16. CASE \/ \E t \in RequestTimes : RefuseExpired(t)
            \/ \E kind \in HrTransactions : HrReads(kind)
            \/ HrAborts
            \/ Tick
            \/ UNCHANGED vars
  <2>1. UNCHANGED <<session, turns, runs>> /\ now' >= now
    BY <1>0, <1>16 DEF RefuseExpired, HrReads, HrAborts, Tick, vars
  <2> HIDE DEF Kind
  <2> QED BY <1>14, <2>1
<1> HIDE DEF Kind
<1>17. ASSUME NEW t \in RequestTimes, CandidateRequest(t) PROVE Kind
  BY <1>1, <1>2, <1>4, <1>5, <1>6, <1>16, <1>17 DEF CandidateRequest, GetSession
<1>18. ASSUME NEW i \in 1 .. Len(runs), WorkflowStep(i) \/ WorkflowDies(i) PROVE Kind
  BY <1>8, <1>12, <1>13, <1>18 DEF WorkflowStep
<1>19. ASSUME HrStep PROVE Kind
  BY <1>15, <1>16, <1>19 DEF HrStep
<1>20. Next \/ UNCHANGED vars
  OBVIOUS
<1> QED BY <1>16, <1>17, <1>18, <1>19, <1>20 DEF Next

-----------------------------------------------------------------------------
(* What the kinds of steps do to the turns.                                *)

\* The columns that closing a turn leaves alone.
SameQuestion(r, u) ==
  /\ r.root = u.root /\ r.seq = u.seq /\ r.kind = u.kind
  /\ r.followUpIndex = u.followUpIndex /\ r.parent = u.parent /\ r.run = u.run

LEMMA SameButStatusKeeps ==
  ASSUME turns \in Seq(Turn), NEW rows, SameButStatus(rows)
  PROVE  /\ Len(turns) \in Nat
         /\ \A i \in 1 .. Len(turns) :
              turns[i] \in Turn /\ rows[i] \in Turn /\ SameQuestion(rows[i], turns[i])
<1>1. /\ rows \in Seq(Turn) /\ Len(rows) = Len(turns) /\ Len(turns) \in Nat
      /\ \A i \in 1 .. Len(turns) :
           turns[i] \in Turn /\ \E s \in TurnStatus : rows[i] = [turns[i] EXCEPT !.status = s]
  BY DEF SameButStatus
<1>2. \A i \in 1 .. Len(turns) : rows[i] \in Turn
  BY <1>1
<1>3. ASSUME NEW u \in Turn, NEW s PROVE SameQuestion([u EXCEPT !.status = s], u)
  BY DEF Turn, SameQuestion
<1>4. ASSUME NEW i \in 1 .. Len(turns) PROVE SameQuestion(rows[i], turns[i])
  <2>1. PICK s : turns[i] \in Turn /\ rows[i] = [turns[i] EXCEPT !.status = s]
    BY <1>1
  <2> QED BY <1>3, <2>1
<1> QED BY <1>1, <1>2, <1>4

\* Closing a turn does not change the number of follow-ups.
LEMMA CountsUnchanged ==
  ASSUME turns \in Seq(Turn), SameButStatus(turns')
  PROVE  /\ FollowUpTurns' = FollowUpTurns
         /\ \A q : FollowUpsOf(q)' = FollowUpsOf(q)
<1>1. /\ Len(turns') = Len(turns)
      /\ \A i \in 1 .. Len(turns) :
           turns'[i].kind = turns[i].kind /\ turns'[i].root = turns[i].root
  <2>1. \A i \in 1 .. Len(turns) : SameQuestion(turns'[i], turns[i])
    BY SameButStatusKeeps
  <2>2. Len(turns') = Len(turns)
    BY DEF SameButStatus
  <2> QED BY <2>1, <2>2 DEF SameQuestion
<1>2. FollowUpTurns' = FollowUpTurns
  BY <1>1 DEF FollowUpTurns
<1>3. ASSUME NEW q PROVE FollowUpsOf(q)' = FollowUpsOf(q)
  <2>1. {i \in FollowUpTurns' : turns'[i].root = q} = {i \in FollowUpTurns : turns[i].root = q}
    BY <1>1, <1>2 DEF FollowUpTurns
  <2> QED BY <2>1 DEF FollowUpsOf
<1> QED BY <1>2, <1>3

\* Appending a turn.
LEMMA AppendedTurn ==
  ASSUME turns \in Seq(Turn), NEW rows, SameButStatus(rows), NEW r \in Turn,
         turns' = Append(rows, r)
  PROVE  /\ turns' \in Seq(Turn)
         /\ Len(turns') = Len(turns) + 1
         /\ turns'[Len(turns) + 1] = r
         /\ \A i \in 1 .. Len(turns) :
              turns'[i] = rows[i] /\ SameQuestion(turns'[i], turns[i])
         /\ \A i \in 1 .. Len(turns') : i \in 1 .. Len(turns) \/ i = Len(turns) + 1
<1>1. /\ rows \in Seq(Turn) /\ Len(rows) = Len(turns) /\ Len(turns) \in Nat
  BY DEF SameButStatus
<1>2. \A i \in 1 .. Len(turns) : turns'[i] = rows[i]
  BY <1>1
<1>3. /\ turns' \in Seq(Turn) /\ Len(turns') = Len(turns) + 1 /\ turns'[Len(turns) + 1] = r
  BY <1>1
<1> QED BY <1>1, <1>2, <1>3, SameButStatusKeeps

LEMMA CountsAfterMain ==
  ASSUME turns \in Seq(Turn), NEW rows, SameButStatus(rows), NEW r \in Turn,
         turns' = Append(rows, r), r.kind = "MAIN"
  PROVE  /\ FollowUpTurns' = FollowUpTurns
         /\ \A q : FollowUpsOf(q)' = FollowUpsOf(q)
<1>1. /\ Len(turns) \in Nat /\ Len(turns') = Len(turns) + 1 /\ turns'[Len(turns) + 1] = r
      /\ \A i \in 1 .. Len(turns) :
           turns'[i].kind = turns[i].kind /\ turns'[i].root = turns[i].root
  BY AppendedTurn DEF SameQuestion
<1>2. FollowUpTurns' = FollowUpTurns
  BY <1>1 DEF FollowUpTurns
<1>3. ASSUME NEW q PROVE FollowUpsOf(q)' = FollowUpsOf(q)
  <2>1. {i \in FollowUpTurns' : turns'[i].root = q} = {i \in FollowUpTurns : turns[i].root = q}
    BY <1>1, <1>2 DEF FollowUpTurns
  <2> QED BY <2>1 DEF FollowUpsOf
<1> QED BY <1>2, <1>3

LEMMA CountsAfterFollowUp ==
  ASSUME turns \in Seq(Turn), NEW r \in Turn, turns' = Append(turns, r), r.kind = "FOLLOW_UP"
  PROVE  /\ Cardinality(FollowUpTurns') = Cardinality(FollowUpTurns) + 1
         /\ \A q : FollowUpsOf(q)' = IF q = r.root THEN FollowUpsOf(q) + 1 ELSE FollowUpsOf(q)
<1>1. /\ Len(turns) \in Nat /\ Len(turns') = Len(turns) + 1 /\ turns'[Len(turns) + 1] = r
      /\ \A i \in 1 .. Len(turns) :
           turns'[i].kind = turns[i].kind /\ turns'[i].root = turns[i].root
  BY AppendedTurn, SameTurns DEF SameQuestion
<1>2. FollowUpTurns' = FollowUpTurns \cup {Len(turns) + 1} /\ Len(turns) + 1 \notin FollowUpTurns
  BY <1>1 DEF FollowUpTurns
<1>3. Cardinality(FollowUpTurns') = Cardinality(FollowUpTurns) + 1
  BY <1>2, FollowUpsAreFinite, FS_AddElement
<1>4. ASSUME NEW q
      PROVE  FollowUpsOf(q)' = IF q = r.root THEN FollowUpsOf(q) + 1 ELSE FollowUpsOf(q)
  <2> DEFINE before == {i \in FollowUpTurns : turns[i].root = q}
             after == {i \in FollowUpTurns' : turns'[i].root = q}
  <2>1. FollowUpsOf(q) = Cardinality(before) /\ FollowUpsOf(q)' = Cardinality(after)
    BY DEF FollowUpsOf
  <2>2. IsFiniteSet(before) /\ Len(turns) + 1 \notin before
    BY <1>2, FollowUpsAreFinite
  <2>3. CASE q = r.root
    <3>1. after = before \cup {Len(turns) + 1}
      BY <1>1, <1>2, <2>3 DEF FollowUpTurns
    <3> HIDE DEF before, after
    <3>2. Cardinality(after) = Cardinality(before) + 1
      BY <2>2, <3>1, FS_AddElement
    <3> QED BY <2>1, <2>3, <3>2
  <2>4. CASE q # r.root
    <3>1. after = before
      BY <1>1, <1>2, <2>4 DEF FollowUpTurns
    <3> QED BY <2>1, <2>4, <3>1
  <2> QED BY <2>3, <2>4
<1> QED BY <1>3, <1>4

\* The next main question, or none is left.
LEMMA NextMainEffect ==
  ASSUME Inv, NextMainStep
  PROVE  /\ Len(turns) > 0 /\ Last.root \in Positions
         /\ session'.status = "IN_PROGRESS"
         /\ session'.version = session.version + 1
         /\ session'.followUpsUsed = session.followUpsUsed
         /\ session'.endReason = session.endReason
         /\ \E rows :
              /\ Answered(rows)
              /\ \/ /\ Last.root < NumQuestions
                    /\ MainTurn(Last.root + 1, Len(turns) + 1) \in Turn
                    /\ turns' = Append(rows, MainTurn(Last.root + 1, Len(turns) + 1))
                    /\ session'.currentTurn = Len(turns) + 1
                    /\ session'.runtimeState = "AWAITING_ANSWER"
                 \/ /\ Last.root = NumQuestions
                    /\ turns' = rows
                    /\ session'.currentTurn = NoTurn
                    /\ session'.runtimeState = "READY_TO_FINISH"
<1>1. /\ TypeOK /\ session \in SessionRow /\ session.status = "IN_PROGRESS"
      /\ turns \in Seq(Turn) /\ Len(turns) \in Nat /\ Len(turns) > 0
  BY DEF Inv, TypeInv, TypeOK, NextMainStep, InProgress
<1>2. Last \in Turn /\ Last.root \in Positions
  <2>1. Last \in Turn
    BY <1>1 DEF Last
  <2> QED BY <2>1 DEF Turn
<1>3. PICK rows : Answered(rows) /\ OpenNextMainQuestion(rows, Last.root, Len(turns))
  BY DEF NextMainStep
<1>4. Len(rows) = Len(turns)
  BY <1>3 DEF Answered, SameButStatus
<1>5. /\ session'.status = "IN_PROGRESS"
      /\ session'.version = session.version + 1
      /\ session'.followUpsUsed = session.followUpsUsed
      /\ session'.endReason = session.endReason
  BY <1>1, <1>3 DEF OpenNextMainQuestion, SessionRow
<1>6. CASE Last.root < NumQuestions
  <2>1. MainTurn(Last.root + 1, Len(turns) + 1) \in Turn
    BY <1>1, <1>2, <1>6, MainTurnType, ConstantsAssumption DEF Positions
  <2>2. /\ session'.currentTurn = Len(turns) + 1
        /\ session'.runtimeState = "AWAITING_ANSWER"
    BY <1>1, <1>3, <1>4, <1>6 DEF OpenNextMainQuestion, SessionRow
  <2>3. turns' = Append(rows, MainTurn(Last.root + 1, Len(turns) + 1))
    BY <1>3, <1>6 DEF OpenNextMainQuestion
  <2> QED BY <1>1, <1>2, <1>3, <1>5, <1>6, <2>1, <2>2, <2>3
<1>7. CASE ~(Last.root < NumQuestions)
  <2>1. Last.root = NumQuestions
    BY <1>2, <1>7, ConstantsAssumption DEF Positions
  <2>2. /\ session'.currentTurn = NoTurn
        /\ session'.runtimeState = "READY_TO_FINISH"
    BY <1>1, <1>3, <1>7 DEF OpenNextMainQuestion, SessionRow
  <2>3. turns' = rows
    BY <1>3, <1>7 DEF OpenNextMainQuestion
  <2> QED BY <1>1, <1>2, <1>3, <1>5, <2>1, <2>2, <2>3
<1> QED BY <1>6, <1>7

\* The follow-up of the last turn.
LEMMA FollowUpEffect ==
  ASSUME Inv, FollowUpStep
  PROVE  /\ Len(turns) > 0 /\ Last.root \in Positions
         /\ FollowUpTurn(Len(runs)) \in Turn
         /\ FollowUpTurn(Len(runs)) =
              [root |-> Last.root, seq |-> Len(turns) + 1, kind |-> "FOLLOW_UP",
               followUpIndex |-> FollowUpsOf(Last.root) + 1,
               parent |-> Len(turns), run |-> Len(runs), status |-> "OPEN"]
         /\ turns' = Append(turns, FollowUpTurn(Len(runs)))
         /\ session'.status = "IN_PROGRESS"
         /\ session'.runtimeState = "AWAITING_ANSWER"
         /\ session'.currentTurn = Len(turns) + 1
         /\ session'.version = session.version + 1
         /\ session'.followUpsUsed = session.followUpsUsed + 1
         /\ session'.endReason = session.endReason
         /\ Len(runs) \in 1 .. Len(runs)
         /\ runs'[Len(runs)].status = "SUCCEEDED"
         /\ runs[Len(runs)].parent = Len(turns)
         /\ Last.status = "ANSWERED"
<1>1. /\ TypeOK /\ session \in SessionRow /\ session.status = "IN_PROGRESS"
      /\ turns \in Seq(Turn) /\ Len(turns) \in Nat /\ Len(turns) > 0
      /\ runs \in Seq(Run) /\ Len(runs) \in Nat
      /\ \A i \in 1 .. Len(turns) : turns[i].seq = i
  BY DEF Inv, TypeInv, TypeOK, FollowUpStep, Advancing, InProgress, TurnsInOrder
<1>2. Last \in Turn /\ Last.root \in Positions /\ Last.seq = Len(turns)
  <2>1. Last \in Turn /\ Last.seq = Len(turns)
    BY <1>1 DEF Last
  <2> QED BY <2>1 DEF Turn
<1>3. Len(runs) > 0 /\ runs[Len(runs)].parent = Len(turns) /\ Last.status = "ANSWERED"
  BY <1>1 DEF Inv, RunsInv, FollowUpStep, Advancing
<1>4. FollowUpTurn(Len(runs)) =
        [root |-> Last.root, seq |-> Len(turns) + 1, kind |-> "FOLLOW_UP",
         followUpIndex |-> FollowUpsOf(Last.root) + 1,
         parent |-> Len(turns), run |-> Len(runs), status |-> "OPEN"]
  BY <1>2, <1>3 DEF FollowUpTurn, Last
<1>5. FollowUpTurn(Len(runs)) \in Turn
  <2>1. FollowUpsOf(Last.root) + 1 \in Nat /\ Len(turns) + 1 \in Nat
    BY <1>1, FollowUpsAreFinite
  <2> QED BY <1>1, <1>2, <1>4, <2>1 DEF Turn, TurnKind, TurnStatus
<1>6. turns' = Append(turns, FollowUpTurn(Len(runs)))
  BY DEF FollowUpStep, AskFollowUp
<1>7. /\ session'.status = "IN_PROGRESS"
      /\ session'.runtimeState = "AWAITING_ANSWER"
      /\ session'.currentTurn = Len(turns) + 1
      /\ session'.version = session.version + 1
      /\ session'.followUpsUsed = session.followUpsUsed + 1
      /\ session'.endReason = session.endReason
  <2>1. session' = [session EXCEPT !.currentTurn = Len(turns) + 1,
                                   !.runtimeState = "AWAITING_ANSWER",
                                   !.advanceDeadline = NoDeadline,
                                   !.followUpsUsed = @ + 1,
                                   !.version = @ + 1]
    BY DEF FollowUpStep, AskFollowUp
  <2> QED BY <1>1, <2>1 DEF SessionRow
<1>8. runs'[Len(runs)].status = "SUCCEEDED"
  BY <1>1, <1>3, SettleRunKeeps DEF FollowUpStep, AskFollowUp, RunStatus
<1> QED BY <1>1, <1>2, <1>3, <1>4, <1>5, <1>6, <1>7, <1>8

\* The AI considers the answer.
LEMMA ConsiderEffect ==
  ASSUME Inv, ConsiderStep
  PROVE  /\ Len(turns) > 0
         /\ session'.status = "IN_PROGRESS"
         /\ session'.runtimeState = "ADVANCING"
         /\ session'.currentTurn = NoTurn
         /\ session'.version = session.version + 1
         /\ session'.followUpsUsed = session.followUpsUsed
         /\ session'.endReason = session.endReason
         /\ runs' \in Seq(Run)
         /\ Len(runs') = Len(runs) + 1
         /\ \A i \in 1 .. Len(runs) : runs'[i] = runs[i]
         /\ runs'[Len(runs) + 1].status = "PROCESSING"
         /\ runs'[Len(runs) + 1].expectedVersion = session.version + 1
         /\ runs'[Len(runs) + 1].parent = Len(turns)
<1>1. /\ TypeOK /\ session \in SessionRow /\ session.status = "IN_PROGRESS"
      /\ turns \in Seq(Turn) /\ Len(turns) \in Nat /\ Len(turns) > 0
      /\ runs \in Seq(Run) /\ Len(runs) \in Nat
  BY DEF Inv, TypeInv, TypeOK, ConsiderStep, InProgress
<1>2. PICK t \in Nat : PrepareAdvancingRun(Len(turns), t)
  BY DEF ConsiderStep
<1>3. /\ session'.status = "IN_PROGRESS"
      /\ session'.runtimeState = "ADVANCING"
      /\ session'.currentTurn = NoTurn
      /\ session'.version = session.version + 1
      /\ session'.followUpsUsed = session.followUpsUsed
      /\ session'.endReason = session.endReason
  BY <1>1, <1>2 DEF PrepareAdvancingRun, SessionRow
<1> DEFINE run == [status |-> "PROCESSING", phase |-> "calling",
                   expectedVersion |-> session.version + 1, parent |-> Len(turns)]
<1>4. run \in Run
  BY <1>1, SessionColumns DEF Run, RunStatus, Phase
<1>5. runs' = Append(runs, run)
  BY <1>2 DEF PrepareAdvancingRun
<1>6. /\ run.status = "PROCESSING" /\ run.expectedVersion = session.version + 1
      /\ run.parent = Len(turns)
  OBVIOUS
<1> HIDE DEF run
<1>7. /\ runs' \in Seq(Run) /\ Len(runs') = Len(runs) + 1
      /\ \A i \in 1 .. Len(runs) : runs'[i] = runs[i]
      /\ runs'[Len(runs) + 1] = run
  BY <1>1, <1>4, <1>5
<1> QED BY <1>1, <1>3, <1>6, <1>7

\* The types of the rows, from the invariant.
LEMMA RowTypes ==
  ASSUME Inv
  PROVE  /\ TypeOK
         /\ turns \in Seq(Turn) /\ Len(turns) \in Nat
         /\ \A i \in 1 .. Len(turns) : turns[i] \in Turn
         /\ \A i \in 1 .. Len(turns) : turns[i].root \in Positions /\ turns[i].followUpIndex \in Nat
         /\ runs \in Seq(Run) /\ Len(runs) \in Nat
         /\ \A i \in 1 .. Len(runs) : runs[i].expectedVersion \in Nat
         /\ session.version \in Nat
         /\ session.status # "NONE" => Len(turns) > 0
<1>1. /\ TypeOK /\ turns \in Seq(Turn) /\ runs \in Seq(Run)
      /\ session.status # "NONE" => Len(turns) > 0
  BY DEF Inv, TypeInv, TypeOK
<1>2. /\ Len(turns) \in Nat /\ Len(runs) \in Nat
      /\ \A i \in 1 .. Len(turns) : turns[i] \in Turn
      /\ \A i \in 1 .. Len(runs) : runs[i] \in Run
  BY <1>1
<1>3. /\ \A i \in 1 .. Len(turns) : turns[i].root \in Positions /\ turns[i].followUpIndex \in Nat
      /\ \A i \in 1 .. Len(runs) : runs[i].expectedVersion \in Nat
  BY <1>2 DEF Turn, Run
<1> QED BY <1>1, <1>2, <1>3, SessionColumns

\* The first turn.
LEMMA BeginEffect ==
  ASSUME Inv, BeginStep
  PROVE  /\ turns = <<>> /\ runs = <<>> /\ runs' = <<>>
         /\ MainTurn(1, 1) \in Turn
         /\ turns' = Append(turns, MainTurn(1, 1))
         /\ Len(turns) = 0 /\ Len(turns') = 1 /\ turns'[1] = MainTurn(1, 1)
<1>1. turns = <<>> /\ runs = <<>> /\ runs' = runs /\ turns' = Append(turns, MainTurn(1, 1))
  BY DEF Inv, SessionInv, BeginStep
<1>2. MainTurn(1, 1) \in Turn
  BY MainTurnType, ConstantsAssumption DEF Positions
<1>3. Len(turns) = 0 /\ Len(turns') = 1 /\ turns'[1] = MainTurn(1, 1)
  BY <1>1
<1> QED BY <1>1, <1>2, <1>3

-----------------------------------------------------------------------------
(* The parts of the invariant are preserved, kind of step by kind of step. *)

LEMMA OneOpenTurnKept ==
  ASSUME Inv, BeginStep \/ NextMainStep \/ ConsiderStep \/ FollowUpStep \/ EndStep \/ IdleStep
  PROVE  OneOpenTurn'
<1>0. turns \in Seq(Turn) /\ Len(turns) \in Nat /\ OneOpenTurn
  BY RowTypes DEF Inv
<1>1. CASE BeginStep
  <2>1. Len(turns') = 1 /\ turns'[1].status = "OPEN"
    BY <1>1, BeginEffect DEF MainTurn
  <2> QED BY <1>1, <2>1 DEF BeginStep, OneOpenTurn, InProgress, NoTurn
<1>2. CASE NextMainStep
  <2>1. PICK rows :
          /\ Answered(rows)
          /\ \/ /\ MainTurn(Last.root + 1, Len(turns) + 1) \in Turn
                /\ turns' = Append(rows, MainTurn(Last.root + 1, Len(turns) + 1))
                /\ session'.currentTurn = Len(turns) + 1
                /\ session'.runtimeState = "AWAITING_ANSWER"
             \/ /\ turns' = rows
                /\ session'.currentTurn = NoTurn
                /\ session'.runtimeState = "READY_TO_FINISH"
    BY <1>2, NextMainEffect
  <2>2. session'.status = "IN_PROGRESS"
    BY <1>2, NextMainEffect
  <2>3. SameButStatus(rows) /\ Len(rows) = Len(turns)
        /\ \A i \in 1 .. Len(turns) : rows[i].status # "OPEN"
    BY <2>1 DEF Answered, SameButStatus
  <2>4. CASE turns' = rows /\ session'.currentTurn = NoTurn
             /\ session'.runtimeState = "READY_TO_FINISH"
    BY <2>2, <2>3, <2>4 DEF OneOpenTurn, InProgress, NoTurn
  <2>5. CASE /\ MainTurn(Last.root + 1, Len(turns) + 1) \in Turn
             /\ turns' = Append(rows, MainTurn(Last.root + 1, Len(turns) + 1))
             /\ session'.currentTurn = Len(turns) + 1
             /\ session'.runtimeState = "AWAITING_ANSWER"
    <3> DEFINE r == MainTurn(Last.root + 1, Len(turns) + 1)
    <3>1. r.status = "OPEN"
      BY DEF MainTurn
    <3> HIDE DEF r
    <3>2. /\ Len(turns') = Len(turns) + 1 /\ turns'[Len(turns) + 1] = r
          /\ \A i \in 1 .. Len(turns) : turns'[i] = rows[i]
      BY <1>0, <2>3, <2>5, AppendedTurn DEF r
    <3> QED BY <1>0, <2>2, <2>3, <2>5, <3>1, <3>2 DEF OneOpenTurn, InProgress, NoTurn
  <2> QED BY <2>1, <2>4, <2>5
<1>3. CASE ConsiderStep
  <2>1. Len(turns') = Len(turns) /\ \A i \in 1 .. Len(turns) : turns'[i].status # "OPEN"
    BY <1>3 DEF ConsiderStep, Answered, SameButStatus
  <2> QED BY <1>0, <1>3, <2>1, ConsiderEffect DEF OneOpenTurn, InProgress, NoTurn
<1>4. CASE FollowUpStep
  <2> DEFINE r == FollowUpTurn(Len(runs))
  <2>1. \A i \in 1 .. Len(turns) : turns[i].status # "OPEN"
    BY <1>0, <1>4 DEF FollowUpStep, Advancing, OneOpenTurn, NoTurn, InProgress
  <2>2. r \in Turn /\ r.status = "OPEN" /\ turns' = Append(turns, r)
    BY <1>4, FollowUpEffect
  <2> HIDE DEF r
  <2>3. /\ Len(turns') = Len(turns) + 1 /\ turns'[Len(turns) + 1] = r
        /\ \A i \in 1 .. Len(turns) : turns'[i] = turns[i]
    BY <1>0, <2>2
  <2>4. /\ session'.status = "IN_PROGRESS" /\ session'.runtimeState = "AWAITING_ANSWER"
        /\ session'.currentTurn = Len(turns) + 1
    BY <1>4, FollowUpEffect
  <2> QED BY <1>0, <2>1, <2>2, <2>3, <2>4 DEF OneOpenTurn, InProgress, NoTurn
<1>5. CASE EndStep
  <2>1. Len(turns') = Len(turns)
    BY <1>5 DEF EndStep, SameButStatus
  <2> QED BY <1>5, <2>1 DEF EndStep, OneOpenTurn, InProgress
<1>6. CASE IdleStep
  BY <1>0, <1>6 DEF IdleStep, OneOpenTurn, InProgress
<1> QED BY <1>1, <1>2, <1>3, <1>4, <1>5, <1>6

\* A turn that keeps its question keeps its place.
InOrder(rows, i) ==
  LET turn == rows[i]
      previous == rows[i - 1]
  IN  /\ turn.seq = i
      /\ IF i = 1 THEN turn.kind = "MAIN" /\ turn.root = 1
         ELSE IF turn.kind = "MAIN" THEN turn.root = previous.root + 1
         ELSE /\ turn.root = previous.root
              /\ turn.parent = i - 1
              /\ turn.followUpIndex = previous.followUpIndex + 1

LEMMA PlacesKept ==
  ASSUME turns \in Seq(Turn), TurnsInOrder, NEW rows,
         \A i \in 1 .. Len(turns) : SameQuestion(rows[i], turns[i])
  PROVE  \A i \in 1 .. Len(turns) : InOrder(rows, i)
<1> TAKE i \in 1 .. Len(turns)
<1>1. i = 1 \/ i - 1 \in 1 .. Len(turns)
  OBVIOUS
<1>2. CASE i = 1
  BY <1>2 DEF TurnsInOrder, SameQuestion, InOrder
<1>3. CASE i # 1
  BY <1>1, <1>3 DEF TurnsInOrder, SameQuestion, InOrder
<1> QED BY <1>2, <1>3

LEMMA TurnsInOrderKept ==
  ASSUME Inv, BeginStep \/ NextMainStep \/ ConsiderStep \/ FollowUpStep \/ EndStep \/ IdleStep
  PROVE  TurnsInOrder'
<1>0. turns \in Seq(Turn) /\ Len(turns) \in Nat /\ TurnsInOrder
  BY RowTypes DEF Inv
<1>a. SUFFICES \A i \in 1 .. Len(turns') : InOrder(turns', i)
  BY DEF TurnsInOrder, InOrder
<1>b. ASSUME SameButStatus(turns') PROVE \A i \in 1 .. Len(turns') : InOrder(turns', i)
  <2>1. Len(turns') = Len(turns)
    BY <1>b DEF SameButStatus
  <2> QED BY <1>0, <1>b, <2>1, SameButStatusKeeps, PlacesKept
<1>c. ASSUME NEW rows, SameButStatus(rows), NEW r \in Turn, turns' = Append(rows, r),
             Len(turns) > 0, r.seq = Len(turns) + 1,
             \/ r.kind = "MAIN" /\ r.root = Last.root + 1
             \/ /\ r.kind = "FOLLOW_UP" /\ r.root = Last.root /\ r.parent = Len(turns)
                /\ r.followUpIndex = Last.followUpIndex + 1
      PROVE  \A i \in 1 .. Len(turns') : InOrder(turns', i)
  <2>1. /\ Len(turns') = Len(turns) + 1 /\ turns'[Len(turns) + 1] = r
        /\ \A i \in 1 .. Len(turns) : SameQuestion(turns'[i], turns[i])
    BY <1>0, <1>c, AppendedTurn
  <2>2. \A i \in 1 .. Len(turns) : InOrder(turns', i)
    BY <1>0, <2>1, PlacesKept
  <2>3. SameQuestion(turns'[Len(turns)], Last)
    BY <1>0, <1>c, <2>1 DEF Last
  <2>4. InOrder(turns', Len(turns) + 1)
    BY <1>0, <1>c, <2>1, <2>3 DEF InOrder, SameQuestion
  <2> QED BY <1>0, <2>1, <2>2, <2>4
<1>1. CASE BeginStep
  <2>1. Len(turns') = 1 /\ turns'[1] = MainTurn(1, 1)
    BY <1>1, BeginEffect
  <2> QED BY <2>1 DEF InOrder, MainTurn
<1>2. CASE NextMainStep
  <2>1. PICK rows :
          /\ Answered(rows)
          /\ \/ /\ MainTurn(Last.root + 1, Len(turns) + 1) \in Turn
                /\ turns' = Append(rows, MainTurn(Last.root + 1, Len(turns) + 1))
             \/ turns' = rows
    BY <1>2, NextMainEffect
  <2>2. SameButStatus(rows) /\ Len(turns) > 0
    BY <1>2, <2>1, NextMainEffect DEF Answered
  <2>3. /\ MainTurn(Last.root + 1, Len(turns) + 1).seq = Len(turns) + 1
        /\ MainTurn(Last.root + 1, Len(turns) + 1).kind = "MAIN"
        /\ MainTurn(Last.root + 1, Len(turns) + 1).root = Last.root + 1
    BY DEF MainTurn
  <2> QED BY <1>b, <1>c, <2>1, <2>2, <2>3
<1>3. CASE ConsiderStep
  BY <1>3, <1>b DEF ConsiderStep, Answered
<1>4. CASE FollowUpStep
  <2>1. FollowUpsOf(Last.root) = Last.followUpIndex
    BY <1>4, FollowUpEffect DEF Inv, LastTurnInv
  <2> QED BY <1>0, <1>4, <1>c, <2>1, FollowUpEffect, SameTurns
<1>5. CASE EndStep
  BY <1>5, <1>b DEF EndStep
<1>6. CASE IdleStep
  BY <1>0, <1>6, <1>b, SameTurns DEF IdleStep
<1> QED BY <1>1, <1>2, <1>3, <1>4, <1>5, <1>6

\* The budget: a follow-up is only asked when it is allowed, and counted.
LEMMA FollowUpBudgetKept ==
  ASSUME Inv, BeginStep \/ NextMainStep \/ ConsiderStep \/ FollowUpStep \/ EndStep \/ IdleStep
  PROVE  FollowUpBudget'
<1>0. turns \in Seq(Turn) /\ Len(turns) \in Nat /\ FollowUpBudget
  BY RowTypes DEF Inv
<1>a. ASSUME session'.followUpsUsed = session.followUpsUsed,
             FollowUpTurns' = FollowUpTurns,
             \A q : FollowUpsOf(q)' = FollowUpsOf(q)
      PROVE  FollowUpBudget'
  BY <1>0, <1>a DEF FollowUpBudget
<1>b. ASSUME session'.followUpsUsed = session.followUpsUsed, SameButStatus(turns')
      PROVE  FollowUpBudget'
  BY <1>0, <1>a, <1>b, CountsUnchanged
<1>1. CASE BeginStep
  <2>1. session'.followUpsUsed = session.followUpsUsed
    BY <1>1 DEF BeginStep, Inv, SessionInv
  <2>2. MainTurn(1, 1).kind = "MAIN"
    BY DEF MainTurn
  <2> QED BY <1>0, <1>1, <1>a, <2>1, <2>2, BeginEffect, SameTurns, CountsAfterMain
<1>2. CASE NextMainStep
  <2>1. PICK rows :
          /\ Answered(rows)
          /\ \/ /\ MainTurn(Last.root + 1, Len(turns) + 1) \in Turn
                /\ turns' = Append(rows, MainTurn(Last.root + 1, Len(turns) + 1))
             \/ turns' = rows
    BY <1>2, NextMainEffect
  <2>2. SameButStatus(rows) /\ session'.followUpsUsed = session.followUpsUsed
    BY <1>2, <2>1, NextMainEffect DEF Answered
  <2>3. MainTurn(Last.root + 1, Len(turns) + 1).kind = "MAIN"
    BY DEF MainTurn
  <2> QED BY <1>0, <1>a, <1>b, <2>1, <2>2, <2>3, CountsAfterMain
<1>3. CASE ConsiderStep
  BY <1>3, <1>b, ConsiderEffect DEF ConsiderStep, Answered
<1>4. CASE FollowUpStep
  <2> DEFINE r == FollowUpTurn(Len(runs))
  <2>1. /\ r \in Turn /\ turns' = Append(turns, r)
        /\ session'.followUpsUsed = session.followUpsUsed + 1
        /\ Last.root \in Positions
    BY <1>4, FollowUpEffect
  <2>2. r.kind = "FOLLOW_UP" /\ r.root = Last.root
    BY <1>4, FollowUpEffect
  <2> HIDE DEF r
  <2>3. /\ Cardinality(FollowUpTurns') = Cardinality(FollowUpTurns) + 1
        /\ \A q : FollowUpsOf(q)' = IF q = Last.root THEN FollowUpsOf(q) + 1 ELSE FollowUpsOf(q)
    BY <1>0, <2>1, <2>2, CountsAfterFollowUp
  <2>4. BudgetsAllow(Last.root)
    BY <1>4 DEF FollowUpStep
  <2>5. Cardinality(FollowUpTurns) \in Nat /\ \A q : FollowUpsOf(q) \in Nat
    BY <1>0, FollowUpsAreFinite
  <2>6. \A q \in Positions : MaxFollowUps[q] \in Nat
    BY ConstantsAssumption
  <2>7. MaxFollowUpsTotal \in Nat
    BY ConstantsAssumption
  <2>8. session'.followUpsUsed <= MaxFollowUpsTotal
    BY <1>0, <2>1, <2>4, <2>5, <2>7 DEF BudgetsAllow, FollowUpBudget
  <2>9. \A q \in Positions : FollowUpsOf(q)' <= MaxFollowUps[q]
    BY <1>0, <2>3, <2>4, <2>5, <2>6 DEF BudgetsAllow, FollowUpBudget
  <2>10. session'.followUpsUsed = Cardinality(FollowUpTurns')
    BY <1>0, <2>1, <2>3 DEF FollowUpBudget
  <2> QED BY <2>8, <2>9, <2>10 DEF FollowUpBudget
<1>5. CASE EndStep
  BY <1>5, <1>b DEF EndStep
<1>6. CASE IdleStep
  BY <1>0, <1>6, <1>b, SameTurns DEF IdleStep
<1> QED BY <1>1, <1>2, <1>3, <1>4, <1>5, <1>6

LEMMA SessionInvKept ==
  ASSUME Inv, BeginStep \/ NextMainStep \/ ConsiderStep \/ FollowUpStep \/ EndStep \/ IdleStep
  PROVE  SessionInv'
<1>0. turns \in Seq(Turn) /\ Len(turns) \in Nat /\ SessionInv
  BY RowTypes DEF Inv
<1>1. CASE BeginStep
  BY <1>1, BeginEffect DEF BeginStep, SessionInv, InProgress
<1>2. CASE NextMainStep
  <2>1. PICK rows :
          /\ Answered(rows)
          /\ \/ /\ MainTurn(Last.root + 1, Len(turns) + 1) \in Turn
                /\ turns' = Append(rows, MainTurn(Last.root + 1, Len(turns) + 1))
                /\ session'.currentTurn = Len(turns) + 1
                /\ session'.runtimeState = "AWAITING_ANSWER"
             \/ /\ turns' = rows
                /\ session'.currentTurn = NoTurn
                /\ session'.runtimeState = "READY_TO_FINISH"
    BY <1>2, NextMainEffect
  <2>2. session'.currentTurn \in {NoTurn, Len(turns')}
    BY <1>0, <2>1, AppendedTurn DEF Answered
  <2>3. session.endReason = "NONE"
    BY <1>2 DEF NextMainStep, Inv, SessionInv
  <2> QED BY <1>2, <2>1, <2>2, <2>3, NextMainEffect DEF SessionInv, InProgress
<1>3. CASE ConsiderStep
  <2>1. session.endReason = "NONE"
    BY <1>3 DEF ConsiderStep, Inv, SessionInv
  <2> QED BY <1>3, <2>1, ConsiderEffect DEF SessionInv, InProgress
<1>4. CASE FollowUpStep
  <2>1. session.endReason = "NONE"
    BY <1>4 DEF FollowUpStep, Advancing, Inv, SessionInv
  <2>2. Len(turns') = Len(turns) + 1
    BY <1>0, <1>4, FollowUpEffect
  <2> QED BY <1>4, <2>1, <2>2, FollowUpEffect DEF SessionInv, InProgress
<1>5. CASE EndStep
  BY <1>5 DEF EndStep, SessionInv, InProgress
<1>6. CASE IdleStep
  BY <1>0, <1>6 DEF IdleStep, RunsKept, SessionInv, InProgress
<1> QED BY <1>1, <1>2, <1>3, <1>4, <1>5, <1>6

\* No run but the newest matches the version, which every transaction raises.
LEMMA RunsInvKept ==
  ASSUME Inv, TypeInv', BeginStep \/ NextMainStep \/ ConsiderStep \/ FollowUpStep \/ EndStep \/ IdleStep
  PROVE  RunsInv'
<1>0. /\ turns \in Seq(Turn) /\ Len(turns) \in Nat /\ RunsInv /\ Len(runs) \in Nat
      /\ session.version \in Nat
      /\ \A i \in 1 .. Len(runs) : runs[i].expectedVersion \in Nat
  BY RowTypes DEF Inv
<1>a. ASSUME InProgress, RunsKept, session'.version = session.version + 1,
             session'.runtimeState # "ADVANCING"
      PROVE  RunsInv'
  <2>1. /\ Len(runs') = Len(runs)
        /\ \A i \in 1 .. Len(runs) : /\ runs'[i].expectedVersion = runs[i].expectedVersion
                                     /\ runs[i].expectedVersion <= session.version
    BY <1>0, <1>a DEF RunsKept, RunsInv
  <2>2. \A i \in 1 .. Len(runs') : runs'[i].expectedVersion < session'.version
    BY <1>0, <1>a, <2>1
  <2>3. \A i \in 1 .. Len(runs') : /\ runs'[i].expectedVersion <= session'.version
                                   /\ runs'[i].expectedVersion # session'.version
    BY <1>0, <1>a, <2>1, <2>2
  <2> QED BY <1>a, <2>3 DEF RunsInv
<1>1. CASE BeginStep
  BY <1>1, BeginEffect DEF BeginStep, RunsInv
<1>2. CASE NextMainStep
  <2>1. session'.runtimeState # "ADVANCING"
    BY <1>2, NextMainEffect
  <2> QED BY <1>2, <1>a, <2>1, NextMainEffect DEF NextMainStep
<1>3. CASE ConsiderStep
  <2>1. /\ session'.version = session.version + 1
        /\ session'.runtimeState = "ADVANCING"
        /\ Len(runs') = Len(runs) + 1
        /\ \A i \in 1 .. Len(runs) : runs'[i] = runs[i]
        /\ runs'[Len(runs) + 1].status = "PROCESSING"
        /\ runs'[Len(runs) + 1].expectedVersion = session.version + 1
        /\ runs'[Len(runs) + 1].parent = Len(turns)
        /\ Len(turns) > 0
    BY <1>3, ConsiderEffect
  <2>2. Len(turns') = Len(turns) /\ turns'[Len(turns)].status = "ANSWERED"
    BY <1>3 DEF ConsiderStep, Answered, SameButStatus
  <2>3. \A i \in 1 .. Len(runs) : runs[i].expectedVersion < session'.version
    BY <1>0, <1>3, <2>1 DEF RunsInv, ConsiderStep
  <2>4. \A i \in 1 .. Len(runs') :
          /\ runs'[i].expectedVersion <= session'.version
          /\ runs'[i].expectedVersion = session'.version => i = Len(runs')
    <3> TAKE i \in 1 .. Len(runs')
    <3>1. CASE i = Len(runs) + 1
      <4>1. runs'[i].expectedVersion = session'.version /\ session'.version \in Nat
        BY <1>0, <2>1, <3>1
      <4> QED BY <2>1, <3>1, <4>1
    <3>2. CASE i # Len(runs) + 1
      <4>1. i \in 1 .. Len(runs)
        BY <1>0, <2>1, <3>2
      <4>2. /\ runs'[i].expectedVersion < session'.version
            /\ runs'[i].expectedVersion \in Nat /\ session'.version \in Nat
        BY <1>0, <2>1, <2>3, <4>1
      <4> QED BY <4>2
    <3> QED BY <3>1, <3>2
  <2>5. Last'.status = "ANSWERED"
    BY <2>2 DEF Last
  <2> QED BY <1>0, <2>1, <2>2, <2>4, <2>5 DEF RunsInv
<1>4. CASE FollowUpStep
  <2>1. InProgress /\ RunsKept
    BY <1>4 DEF FollowUpStep, Advancing
  <2>2. session'.version = session.version + 1 /\ session'.runtimeState # "ADVANCING"
    BY <1>4, FollowUpEffect
  <2> QED BY <1>a, <2>1, <2>2
<1>5. CASE EndStep
  BY <1>5 DEF EndStep, RunsInv, InProgress
<1>6. CASE IdleStep
  <2>1. /\ session' = session /\ turns' = turns /\ Len(runs') = Len(runs)
        /\ \A i \in 1 .. Len(runs) : /\ runs'[i].expectedVersion = runs[i].expectedVersion
                                     /\ runs'[i].parent = runs[i].parent
    BY <1>6 DEF IdleStep, RunsKept
  <2>2. now \in Nat /\ session.advanceDeadline \in Nat /\ now' >= now /\ now' \in Nat
    <3>1. session \in SessionRow
      BY RowTypes DEF TypeOK
    <3>2. session.advanceDeadline \in Nat
      BY <3>1 DEF SessionRow
    <3> QED BY <1>6, <3>2, RowTypes DEF IdleStep, TypeOK, TypeInv
  <2>3. ASSUME InProgress, session.runtimeState = "ADVANCING"
        PROVE  runs'[Len(runs)].status = "PROCESSING" \/ now' >= session.advanceDeadline
    <3>1. \/ runs'[Len(runs)].status = runs[Len(runs)].status
          \/ now >= session.advanceDeadline
      BY <1>6, <2>3 DEF IdleStep, Advancing
    <3>2. runs[Len(runs)].status = "PROCESSING" \/ now >= session.advanceDeadline
      BY <1>0, <2>3 DEF RunsInv
    <3> QED BY <2>2, <3>1, <3>2
  <2> QED BY <1>0, <2>1, <2>3 DEF RunsInv, InProgress, Last
<1> QED BY <1>1, <1>2, <1>3, <1>4, <1>5, <1>6

\* What the next insert is computed from.
LEMMA LastTurnInvKept ==
  ASSUME Inv, BeginStep \/ NextMainStep \/ ConsiderStep \/ FollowUpStep \/ EndStep \/ IdleStep
  PROVE  LastTurnInv'
<1>0. /\ turns \in Seq(Turn) /\ Len(turns) \in Nat /\ LastTurnInv
      /\ \A i \in 1 .. Len(turns) : turns[i].root \in Positions /\ turns[i].followUpIndex \in Nat
  BY RowTypes DEF Inv
<1>p. \A q \in Positions : q \in Nat
  BY ConstantsAssumption DEF Positions
<1>b. ASSUME SameButStatus(turns') PROVE LastTurnInv'
  <2>1. /\ Len(turns') = Len(turns)
        /\ \A i \in 1 .. Len(turns) : SameQuestion(turns'[i], turns[i])
    BY <1>0, <1>b, SameButStatusKeeps DEF SameButStatus
  <2>2. \A q : FollowUpsOf(q)' = FollowUpsOf(q)
    BY <1>0, <1>b, CountsUnchanged
  <2>3. Len(turns) > 0 => SameQuestion(Last', Last)
    BY <1>0, <2>1 DEF Last
  <2> QED BY <1>0, <2>1, <2>2, <2>3 DEF LastTurnInv, SameQuestion
\* A main question that was never asked has no follow-up.
<1>c. ASSUME NEW rows, SameButStatus(rows), NEW r \in Turn, turns' = Append(rows, r),
             r.kind = "MAIN", r.followUpIndex = 0,
             \A i \in 1 .. Len(turns) : turns[i].root < r.root
      PROVE  LastTurnInv'
  <2>1. /\ Len(turns') = Len(turns) + 1 /\ turns'[Len(turns) + 1] = r
        /\ \A i \in 1 .. Len(turns) : SameQuestion(turns'[i], turns[i])
    BY <1>0, <1>c, AppendedTurn
  <2>2. Last' = r
    BY <2>1 DEF Last
  <2>3. r.root \in Nat
    BY <1>c, <1>p DEF Turn
  <2>4. \A i \in 1 .. Len(turns') : turns'[i].root <= r.root
    BY <1>0, <1>c, <1>p, <2>1, <2>3 DEF SameQuestion
  <2>5. {i \in FollowUpTurns : turns[i].root = r.root} = {}
    BY <1>0, <1>c, <1>p, <2>3 DEF FollowUpTurns
  <2>6. FollowUpsOf(r.root) = 0
    BY <2>5, FS_EmptySet DEF FollowUpsOf
  <2>7. FollowUpsOf(r.root)' = FollowUpsOf(r.root)
    BY <1>0, <1>c, CountsAfterMain
  <2> QED BY <1>c, <2>2, <2>4, <2>6, <2>7 DEF LastTurnInv
<1>1. CASE BeginStep
  <2>1. MainTurn(1, 1).kind = "MAIN" /\ MainTurn(1, 1).followUpIndex = 0
    BY DEF MainTurn
  <2> QED BY <1>0, <1>1, <1>c, <2>1, BeginEffect, SameTurns
<1>2. CASE NextMainStep
  <2>1. PICK rows :
          /\ Answered(rows)
          /\ \/ /\ MainTurn(Last.root + 1, Len(turns) + 1) \in Turn
                /\ turns' = Append(rows, MainTurn(Last.root + 1, Len(turns) + 1))
             \/ turns' = rows
    BY <1>2, NextMainEffect
  <2>2. SameButStatus(rows) /\ Len(turns) > 0 /\ Last.root \in Nat
    BY <1>2, <1>p, <2>1, NextMainEffect DEF Answered
  <2> DEFINE r == MainTurn(Last.root + 1, Len(turns) + 1)
  <2>3. r.kind = "MAIN" /\ r.followUpIndex = 0 /\ r.root = Last.root + 1
    BY DEF MainTurn
  <2> HIDE DEF r
  <2>4. \A i \in 1 .. Len(turns) : turns[i].root < r.root
    BY <1>0, <1>p, <2>2, <2>3 DEF LastTurnInv
  <2> QED BY <1>b, <1>c, <2>1, <2>2, <2>3, <2>4 DEF r
<1>3. CASE ConsiderStep
  BY <1>3, <1>b DEF ConsiderStep, Answered
<1>4. CASE FollowUpStep
  <2>0. PICK r : r = FollowUpTurn(Len(runs))
    OBVIOUS
  <2>1. /\ r \in Turn /\ turns' = Append(turns, r)
        /\ Last.root \in Positions /\ Len(turns) > 0
    BY <1>4, <2>0, FollowUpEffect
  <2>2. /\ r.kind = "FOLLOW_UP" /\ r.root = Last.root
        /\ r.followUpIndex = FollowUpsOf(Last.root) + 1
    BY <1>4, <2>0, FollowUpEffect
  <2>3. /\ Len(turns') = Len(turns) + 1 /\ turns'[Len(turns) + 1] = r
        /\ \A i \in 1 .. Len(turns) : turns'[i] = turns[i]
    BY <1>0, <2>1
  <2>4. Last' = r
    BY <2>3 DEF Last
  <2>5. \A i \in 1 .. Len(turns') : turns'[i].root <= r.root
    BY <1>0, <1>p, <2>1, <2>2, <2>3 DEF LastTurnInv
  <2>6. FollowUpsOf(r.root)' = FollowUpsOf(r.root) + 1
    BY <1>0, <2>1, <2>2, CountsAfterFollowUp
  <2> QED BY <2>2, <2>4, <2>5, <2>6 DEF LastTurnInv
<1>5. CASE EndStep
  BY <1>5, <1>b DEF EndStep
<1>6. CASE IdleStep
  BY <1>0, <1>6, <1>b, SameTurns DEF IdleStep
<1> QED BY <1>1, <1>2, <1>3, <1>4, <1>5, <1>6

\* A follow-up keeps its run, and the run stays succeeded.
LEMMA ProvenanceInvKept ==
  ASSUME Inv, BeginStep \/ NextMainStep \/ ConsiderStep \/ FollowUpStep \/ EndStep \/ IdleStep
  PROVE  ProvenanceInv'
<1> DEFINE Proven(i) ==
      IF turns[i].kind = "MAIN" THEN turns[i].run = NoRun
      ELSE /\ turns[i].run \in 1 .. Len(runs)
           /\ runs[turns[i].run].status = "SUCCEEDED"
           /\ runs[turns[i].run].parent = i - 1
           /\ turns[i - 1].status = "ANSWERED"
<1>0. /\ turns \in Seq(Turn) /\ Len(turns) \in Nat /\ Len(runs) \in Nat /\ runs \in Seq(Run)
      /\ \A i \in 1 .. Len(turns) : Proven(i)
      /\ Len(turns) > 0 => turns[1].kind = "MAIN"
  <2>1. TurnsInOrder /\ ProvenanceInv
    BY DEF Inv
  <2>2. Len(turns) > 0 => turns[1].kind = "MAIN"
    BY <2>1, RowTypes DEF TurnsInOrder
  <2> QED BY <2>1, <2>2, RowTypes DEF ProvenanceInv
\* Turns that keep their questions, and answers that stay given.
<1>a. ASSUME \A i \in 1 .. Len(turns) :
               /\ SameQuestion(turns'[i], turns[i])
               /\ turns[i].status = "ANSWERED" => turns'[i].status = "ANSWERED",
             RunsKept \/ (/\ Len(runs') = Len(runs) + 1
                          /\ \A i \in 1 .. Len(runs) : runs'[i] = runs[i])
      PROVE  \A i \in 1 .. Len(turns) : Proven(i)'
  <2>1. \A j \in 1 .. Len(runs) :
          /\ j \in 1 .. Len(runs')
          /\ runs'[j].parent = runs[j].parent
          /\ runs[j].status = "SUCCEEDED" => runs'[j].status = "SUCCEEDED"
    <3>0. Len(runs) \in Nat
      BY <1>0
    <3>1. CASE RunsKept
      <4>1. /\ Len(runs') = Len(runs)
            /\ \A j \in 1 .. Len(runs) :
                 /\ runs'[j].parent = runs[j].parent
                 /\ runs[j].status # "PROCESSING" => runs'[j].status = runs[j].status
        BY <3>1 DEF RunsKept
      <4> QED BY <4>1
    <3>2. CASE Len(runs') = Len(runs) + 1 /\ \A j \in 1 .. Len(runs) : runs'[j] = runs[j]
      BY <3>0, <3>2
    <3> QED BY <1>a, <3>1, <3>2
  <2> TAKE i \in 1 .. Len(turns)
  <2>2. CASE turns[i].kind = "MAIN"
    BY <1>0, <1>a, <2>2 DEF SameQuestion
  <2>3. CASE turns[i].kind # "MAIN"
    <3>1. i - 1 \in 1 .. Len(turns)
      BY <1>0, <2>3
    <3>2. /\ turns[i].run \in 1 .. Len(runs)
          /\ runs[turns[i].run].status = "SUCCEEDED"
          /\ runs[turns[i].run].parent = i - 1
          /\ turns[i - 1].status = "ANSWERED"
      BY <1>0, <2>3
    <3>3. turns'[i].run = turns[i].run /\ turns'[i].kind = turns[i].kind
          /\ turns'[i - 1].status = "ANSWERED"
      BY <1>a, <3>1, <3>2 DEF SameQuestion
    <3> QED BY <2>1, <2>3, <3>2, <3>3
  <2> QED BY <2>2, <2>3
<1>b. ASSUME SameButStatus(turns'),
             \A i \in 1 .. Len(turns) :
               turns[i].status = "ANSWERED" => turns'[i].status = "ANSWERED",
             RunsKept \/ (/\ Len(runs') = Len(runs) + 1
                          /\ \A i \in 1 .. Len(runs) : runs'[i] = runs[i])
      PROVE  ProvenanceInv'
  <2>1. /\ Len(turns') = Len(turns)
        /\ \A i \in 1 .. Len(turns) : SameQuestion(turns'[i], turns[i])
    BY <1>0, <1>b, SameButStatusKeeps DEF SameButStatus
  <2>2. \A i \in 1 .. Len(turns) : Proven(i)'
    BY <1>a, <1>b, <2>1
  <2> QED BY <2>1, <2>2 DEF ProvenanceInv
<1>1. CASE BeginStep
  <2>1. Len(turns') = 1 /\ turns'[1] = MainTurn(1, 1)
    BY <1>1, BeginEffect
  <2> QED BY <2>1 DEF ProvenanceInv, MainTurn
<1>2. CASE NextMainStep
  <2>1. PICK rows :
          /\ Answered(rows)
          /\ \/ /\ MainTurn(Last.root + 1, Len(turns) + 1) \in Turn
                /\ turns' = Append(rows, MainTurn(Last.root + 1, Len(turns) + 1))
             \/ turns' = rows
    BY <1>2, NextMainEffect
  <2>2. /\ SameButStatus(rows) /\ RunsKept
        /\ \A i \in 1 .. Len(turns) : turns[i].status = "ANSWERED" => rows[i].status = "ANSWERED"
    BY <1>2, <2>1 DEF Answered, NextMainStep
  <2>3. CASE turns' = rows
    BY <1>b, <2>2, <2>3
  <2>4. CASE /\ MainTurn(Last.root + 1, Len(turns) + 1) \in Turn
             /\ turns' = Append(rows, MainTurn(Last.root + 1, Len(turns) + 1))
    <3> DEFINE r == MainTurn(Last.root + 1, Len(turns) + 1)
    <3>1. r.kind = "MAIN" /\ r.run = NoRun
      BY DEF MainTurn
    <3> HIDE DEF r
    <3>2. /\ Len(turns') = Len(turns) + 1 /\ turns'[Len(turns) + 1] = r
          /\ \A i \in 1 .. Len(turns) :
               turns'[i] = rows[i] /\ SameQuestion(turns'[i], turns[i])
      BY <1>0, <2>2, <2>4, AppendedTurn DEF r
    <3>3. \A i \in 1 .. Len(turns) : Proven(i)'
      BY <1>a, <2>2, <3>2
    <3> QED BY <1>0, <3>1, <3>2, <3>3 DEF ProvenanceInv
  <2> QED BY <2>1, <2>3, <2>4
<1>3. CASE ConsiderStep
  <2>1. /\ Len(runs') = Len(runs) + 1
        /\ \A i \in 1 .. Len(runs) : runs'[i] = runs[i]
    BY <1>3, ConsiderEffect
  <2>2. /\ SameButStatus(turns')
        /\ \A i \in 1 .. Len(turns) :
             turns[i].status = "ANSWERED" => turns'[i].status = "ANSWERED"
    BY <1>3 DEF ConsiderStep, Answered
  <2> QED BY <1>b, <2>1, <2>2
<1>4. CASE FollowUpStep
  <2> DEFINE r == FollowUpTurn(Len(runs))
  <2>1. /\ r \in Turn /\ turns' = Append(turns, r)
        /\ Len(runs) \in 1 .. Len(runs) /\ Len(turns) > 0
        /\ runs'[Len(runs)].status = "SUCCEEDED"
        /\ runs[Len(runs)].parent = Len(turns)
        /\ Last.status = "ANSWERED"
    BY <1>4, FollowUpEffect
  <2>2. r.kind = "FOLLOW_UP" /\ r.run = Len(runs)
    BY <1>4, FollowUpEffect
  <2> HIDE DEF r
  <2>3. /\ Len(turns') = Len(turns) + 1 /\ turns'[Len(turns) + 1] = r
        /\ \A i \in 1 .. Len(turns) : turns'[i] = turns[i]
    BY <1>0, <2>1
  <2>4. RunsKept
    BY <1>4 DEF FollowUpStep
  <2>5. \A i \in 1 .. Len(turns) : Proven(i)'
    BY <1>a, <2>3, <2>4 DEF SameQuestion
  <2>6. /\ Len(runs') = Len(runs) /\ runs'[Len(runs)].parent = Len(turns)
        /\ turns'[Len(turns)].status = "ANSWERED"
    BY <1>0, <2>1, <2>3, <2>4 DEF RunsKept, Last
  <2>7. ASSUME NEW n, n = Len(turns) + 1 PROVE Proven(n)'
    BY <1>0, <2>1, <2>2, <2>3, <2>6, <2>7
  <2>8. ASSUME NEW i \in 1 .. Len(turns') PROVE Proven(i)'
    <3>1. i \in 1 .. Len(turns) \/ i = Len(turns) + 1
      BY <1>0, <2>3
    <3> QED BY <2>5, <2>7, <3>1
  <2> QED BY <2>8 DEF ProvenanceInv
<1>5. CASE EndStep
  <2>1. RunsKept
    BY <1>5, RowTypes, RunsUnchanged DEF EndStep
  <2>2. /\ SameButStatus(turns')
        /\ \A i \in 1 .. Len(turns) :
             turns[i].status = "ANSWERED" => turns'[i].status = "ANSWERED"
    BY <1>5 DEF EndStep
  <2> QED BY <1>b, <2>1, <2>2
<1>6. CASE IdleStep
  BY <1>0, <1>6, <1>b, SameTurns DEF IdleStep
<1> QED BY <1>1, <1>2, <1>3, <1>4, <1>5, <1>6

\* No main question is passed over.
LEMMA QuestionsInvKept ==
  ASSUME Inv, BeginStep \/ NextMainStep \/ ConsiderStep \/ FollowUpStep \/ EndStep \/ IdleStep
  PROVE  QuestionsInv'
<1>0. /\ turns \in Seq(Turn) /\ Len(turns) \in Nat /\ QuestionsInv /\ OneOpenTurn
      /\ session.status # "NONE" => Len(turns) > 0
      /\ \A i \in 1 .. Len(turns) : turns[i].root \in Positions
      /\ InProgress => session.endReason = "NONE"
  BY RowTypes DEF Inv, SessionInv
<1>p. \A q \in Positions : q \in Nat
  BY ConstantsAssumption DEF Positions
<1> DEFINE Put == Len(turns) > 0 =>
             \A q \in 1 .. Last.root :
               \E i \in 1 .. Len(turns) : turns[i].kind = "MAIN" /\ turns[i].root = q
<1>b. ASSUME SameButStatus(turns')
      PROVE  /\ Len(turns') = Len(turns)
             /\ Put'
             /\ Len(turns) > 0 => Last'.root = Last.root
  <2>1. /\ Len(turns') = Len(turns)
        /\ \A i \in 1 .. Len(turns) : SameQuestion(turns'[i], turns[i])
    BY <1>0, <1>b, SameButStatusKeeps DEF SameButStatus
  <2>2. Len(turns) > 0 => Last'.root = Last.root
    BY <1>0, <2>1 DEF Last, SameQuestion
  <2>3. Put
    BY <1>0 DEF QuestionsInv
  <2>4. Put'
    BY <1>0, <2>1, <2>2, <2>3 DEF SameQuestion
  <2> QED BY <2>1, <2>2, <2>4
<1>c. ASSUME NEW rows, SameButStatus(rows), NEW r \in Turn, turns' = Append(rows, r),
             Len(turns) > 0,
             \/ r.kind = "MAIN" /\ r.root = Last.root + 1
             \/ r.root = Last.root
      PROVE  /\ Len(turns') = Len(turns) + 1
             /\ turns'[Len(turns) + 1] = r
             /\ \A i \in 1 .. Len(turns) : turns'[i] = rows[i]
             /\ Put'
  <2>1. /\ Len(turns') = Len(turns) + 1 /\ turns'[Len(turns) + 1] = r
        /\ \A i \in 1 .. Len(turns) : turns'[i] = rows[i] /\ SameQuestion(turns'[i], turns[i])
    BY <1>0, <1>c, AppendedTurn
  <2>2. Last' = r /\ Last.root \in Nat
    BY <1>0, <1>c, <1>p, <2>1 DEF Last
  <2>3. Put
    BY <1>0 DEF QuestionsInv
  <2>4. ASSUME NEW q \in 1 .. r.root
        PROVE  \E i \in 1 .. Len(turns') : turns'[i].kind = "MAIN" /\ turns'[i].root = q
    <3>1. CASE q \in 1 .. Last.root
      <4>1. PICK i \in 1 .. Len(turns) : turns[i].kind = "MAIN" /\ turns[i].root = q
        BY <1>c, <2>3, <3>1
      <4>2. i \in 1 .. Len(turns') /\ turns'[i].kind = "MAIN" /\ turns'[i].root = q
        BY <1>0, <2>1, <4>1 DEF SameQuestion
      <4> QED BY <4>2
    <3>2. CASE q \notin 1 .. Last.root
      <4>1. r.kind = "MAIN" /\ q = r.root
        BY <1>c, <2>2, <2>4, <3>2
      <4> QED BY <1>0, <2>1, <4>1
    <3> QED BY <3>1, <3>2
  <2> QED BY <2>1, <2>2, <2>4
<1>1. CASE BeginStep
  <2>1. Len(turns') = 1 /\ turns'[1] = MainTurn(1, 1)
    BY <1>1, BeginEffect
  <2>2. Last' = MainTurn(1, 1)
    BY <2>1 DEF Last
  <2>3. turns'[1].kind = "MAIN" /\ turns'[1].root = 1 /\ Last'.root = 1 /\ turns'[1].status = "OPEN"
    BY <2>1, <2>2 DEF MainTurn
  <2> QED BY <1>1, <2>1, <2>3 DEF BeginStep, QuestionsInv
<1>2. CASE NextMainStep
  <2>1. PICK rows :
          /\ Answered(rows)
          /\ \/ /\ MainTurn(Last.root + 1, Len(turns) + 1) \in Turn
                /\ turns' = Append(rows, MainTurn(Last.root + 1, Len(turns) + 1))
                /\ session'.runtimeState = "AWAITING_ANSWER"
             \/ /\ turns' = rows
                /\ Last.root = NumQuestions
    BY <1>2, NextMainEffect
  <2>2. /\ SameButStatus(rows) /\ Len(turns) > 0
        /\ session'.endReason = "NONE"
        /\ \A i \in 1 .. Len(turns) : rows[i].status # "CLOSED_UNANSWERED"
    BY <1>0, <1>2, <2>1, NextMainEffect DEF Answered, NextMainStep, QuestionsInv
  <2>3. CASE turns' = rows /\ Last.root = NumQuestions
    BY <1>b, <2>2, <2>3 DEF QuestionsInv
  <2>4. CASE /\ MainTurn(Last.root + 1, Len(turns) + 1) \in Turn
             /\ turns' = Append(rows, MainTurn(Last.root + 1, Len(turns) + 1))
             /\ session'.runtimeState = "AWAITING_ANSWER"
    <3>1. PICK r : r = MainTurn(Last.root + 1, Len(turns) + 1)
      OBVIOUS
    <3>2. r.kind = "MAIN" /\ r.root = Last.root + 1 /\ r.status = "OPEN"
      BY <3>1 DEF MainTurn
    <3>3. /\ Len(turns') = Len(turns) + 1 /\ turns'[Len(turns) + 1] = r
          /\ \A i \in 1 .. Len(turns) : turns'[i] = rows[i]
          /\ Put'
      BY <1>c, <2>2, <2>4, <3>1, <3>2
    <3>4. \A i \in 1 .. Len(turns') : turns'[i].status # "CLOSED_UNANSWERED"
      BY <1>0, <2>2, <3>2, <3>3
    <3> QED BY <2>2, <2>4, <3>3, <3>4 DEF QuestionsInv
  <2> QED BY <2>1, <2>3, <2>4
<1>3. CASE ConsiderStep
  <2>1. /\ SameButStatus(turns')
        /\ \A i \in 1 .. Len(turns) : turns'[i].status # "CLOSED_UNANSWERED"
    BY <1>0, <1>3 DEF ConsiderStep, Answered, QuestionsInv
  <2>2. session'.endReason = "NONE" /\ session'.runtimeState = "ADVANCING"
    BY <1>0, <1>3, ConsiderEffect DEF ConsiderStep
  <2> QED BY <1>b, <2>1, <2>2 DEF QuestionsInv
<1>4. CASE FollowUpStep
  <2>0. PICK r : r = FollowUpTurn(Len(runs))
    OBVIOUS
  <2>1. /\ r \in Turn /\ turns' = Append(turns, r) /\ Len(turns) > 0
        /\ r.root = Last.root /\ r.status = "OPEN"
    BY <1>4, <2>0, FollowUpEffect
  <2>2. /\ Len(turns') = Len(turns) + 1 /\ turns'[Len(turns) + 1] = r
        /\ \A i \in 1 .. Len(turns) : turns'[i] = turns[i]
        /\ Put'
    BY <1>0, <1>c, <2>1, SameTurns
  <2>3. InProgress /\ session'.endReason = "NONE" /\ session'.runtimeState = "AWAITING_ANSWER"
    BY <1>0, <1>4, FollowUpEffect DEF FollowUpStep, Advancing
  <2>4. \A i \in 1 .. Len(turns') : turns'[i].status # "CLOSED_UNANSWERED"
    BY <1>0, <2>1, <2>2, <2>3 DEF QuestionsInv
  <2> QED BY <2>2, <2>3, <2>4 DEF QuestionsInv
<1>5. CASE EndStep
  <2>1. /\ Len(turns') = Len(turns) /\ Put' /\ Len(turns) > 0 /\ Last'.root = Last.root
    BY <1>0, <1>5, <1>b DEF EndStep, InProgress
  <2>2. ASSUME session'.endReason = "ALL_QUESTIONS_ANSWERED"
        PROVE  /\ session'.status = "COMPLETED"
               /\ Last'.root = NumQuestions
               /\ \A i \in 1 .. Len(turns') : turns'[i].status \in {"ANSWERED", "SKIPPED"}
    <3>1. session'.status = "COMPLETED" /\ session.runtimeState = "READY_TO_FINISH" /\ InProgress
      BY <1>5, <2>2 DEF EndStep
    <3>2. \A i \in 1 .. Len(turns) :
            turns[i].status # "OPEN" /\ turns[i].status # "CLOSED_UNANSWERED"
      BY <1>0, <3>1 DEF OneOpenTurn, QuestionsInv, NoTurn
    <3>3. \A i \in 1 .. Len(turns) : turns[i].status \in TurnStatus
      BY RowTypes DEF Turn
    <3>4. \A i \in 1 .. Len(turns) : turns'[i].status = turns[i].status
      BY <1>5, <3>2 DEF EndStep
    <3> QED BY <1>0, <2>1, <3>1, <3>2, <3>3, <3>4 DEF TurnStatus, QuestionsInv
  <2> QED BY <1>5, <2>1, <2>2 DEF EndStep, QuestionsInv, InProgress
<1>6. CASE IdleStep
  BY <1>0, <1>6 DEF IdleStep, QuestionsInv, InProgress, Last
<1> QED BY <1>1, <1>2, <1>3, <1>4, <1>5, <1>6

-----------------------------------------------------------------------------
(* The statuses, and the HR transaction.                                   *)

Beginning ==
  /\ session.status = "NONE" /\ interview = "INVITED"
  /\ hr = HrIdle /\ hr' = hr
  /\ session'.status = "IN_PROGRESS" /\ interview' = "IN_PROGRESS"
  /\ application' = application

Closing ==
  /\ InProgress
  /\ hr = HrIdle /\ hr' = hr
  /\ session'.status \in {"COMPLETED", "EXPIRED"} /\ interview' = session'.status
  /\ application' = "UNDER_REVIEW"

SameStatuses ==
  /\ hr' \in {hr, HrIdle}
  /\ session'.status = session.status
  /\ interview' = interview /\ application' = application

\* Only these steps write a status, or the memory of an HR transaction.
LEMMA StatusSteps ==
  ASSUME TypeOK, [Next]_vars
  PROVE  \/ Beginning \/ Closing \/ SameStatuses
         \/ HrCommits
         \/ \E kind \in HrTransactions : HrReads(kind)
<1>0. session \in SessionRow
  BY DEF TypeOK
<1>1. ASSUME NEW t, StartInterview(t) PROVE Beginning
  BY <1>1 DEF StartInterview, Beginning, InterviewUnlocked
<1>2. ASSUME NEW rows, NEW q, NEW s, OpenNextMainQuestion(rows, q, s)
      PROVE  session'.status = session.status
  BY <1>0, <1>2 DEF OpenNextMainQuestion, SessionRow
<1>3. ASSUME NEW t, NEW isSkipped, NEW id, SubmitAnswer(id, isSkipped, t) PROVE SameStatuses
  <2>1. hr' = hr /\ interview' = interview /\ application' = application
    BY <1>3 DEF SubmitAnswer
  <2>2. session'.status = session.status
    <3>1. ASSUME NEW parent, PrepareAdvancingRun(parent, t) PROVE session'.status = session.status
      BY <1>0, <3>1 DEF PrepareAdvancingRun, SessionRow
    <3> QED BY <1>2, <1>3, <3>1 DEF SubmitAnswer
  <2> QED BY <2>1, <2>2 DEF SameStatuses
<1>4. ASSUME NEW endReason, CloseSession(endReason), InProgress, endReason # "HR_CANCELLED"
      PROVE  Closing
  <2>1. ClosedStatus(endReason) \in {"COMPLETED", "EXPIRED"}
    BY <1>4 DEF ClosedStatus
  <2>2. /\ session'.status = ClosedStatus(endReason) /\ interview' = ClosedStatus(endReason)
        /\ application' = "UNDER_REVIEW" /\ hr' = hr /\ hr = HrIdle
    BY <1>0, <1>4 DEF CloseSession, SessionRow, InterviewUnlocked
  <2> QED BY <1>4, <2>1, <2>2 DEF Closing
<1>5. ASSUME NEW t, NEW confirm, FinishSession(confirm, t) PROVE Closing
  BY <1>4, <1>5 DEF FinishSession
<1>6. ASSUME NEW t, CloseAtDeadline(t) PROVE Closing
  BY <1>4, <1>6 DEF CloseAtDeadline
<1>7. ASSUME NEW t, RecoverStaleAdvancing(t) PROVE SameStatuses
  BY <1>2, <1>7 DEF RecoverStaleAdvancing, SameStatuses
<1>8. ASSUME NEW i, ContinueWithNextMain(i, "SUCCEEDED") \/ ContinueWithNextMain(i, "FAILED")
      PROVE  session'.status = session.status
  BY <1>2, <1>8 DEF ContinueWithNextMain
<1>9. ASSUME NEW i, AskFollowUp(i) PROVE session'.status = session.status
  BY <1>0, <1>9 DEF AskFollowUp, SessionRow
<1>10. ASSUME NEW i, ApplyAiResult(i) PROVE SameStatuses
  BY <1>8, <1>9, <1>10 DEF ApplyAiResult, Supersede, SameStatuses
<1>11. ASSUME NEW i, ApplyFallback(i) PROVE SameStatuses
  BY <1>8, <1>11 DEF ApplyFallback, Supersede, SameStatuses
<1>12. ASSUME \/ \E t \in RequestTimes : RefuseExpired(t)
              \/ \E i, outcome : AiReturns(i, outcome)
              \/ \E i : WorkflowDies(i)
              \/ HrAborts \/ Tick \/ UNCHANGED vars
       PROVE  SameStatuses
  BY <1>12 DEF RefuseExpired, AiReturns, WorkflowDies, HrAborts, Tick, vars, SameStatuses
<1>13. ASSUME NEW t \in RequestTimes, CandidateRequest(t) PROVE Beginning \/ Closing \/ SameStatuses
  BY <1>1, <1>3, <1>5, <1>6, <1>7, <1>12, <1>13 DEF CandidateRequest, GetSession
<1>14. ASSUME NEW i \in 1 .. Len(runs), WorkflowStep(i) \/ WorkflowDies(i) PROVE SameStatuses
  BY <1>10, <1>11, <1>12, <1>14 DEF WorkflowStep
<1>15. Next \/ UNCHANGED vars
  OBVIOUS
<1> QED BY <1>12, <1>13, <1>14, <1>15 DEF Next, HrStep

LEMMA StatusesKept ==
  ASSUME Inv, [Next]_vars
  PROVE  HrInv' /\ StatusesAgree'
<1>0. /\ TypeOK /\ HrInv /\ StatusesAgree
      /\ session.status \in SessionStatus /\ session \in SessionRow
      /\ application \in ApplicationStatus
  <2>1. TypeOK /\ HrInv /\ StatusesAgree /\ session \in SessionRow /\ application \in ApplicationStatus
    BY DEF Inv, TypeInv, TypeOK
  <2> QED BY <2>1 DEF SessionRow
<1>1. CASE Beginning
  BY <1>0, <1>1 DEF Beginning, HrInv, StatusesAgree, InProgress
<1>2. CASE Closing
  BY <1>0, <1>2 DEF Closing, HrInv, StatusesAgree, InProgress
<1>3. CASE SameStatuses
  BY <1>0, <1>3 DEF SameStatuses, HrInv, StatusesAgree, InProgress
<1>4. ASSUME NEW kind \in HrTransactions, HrReads(kind) PROVE HrInv' /\ StatusesAgree'
  <2>1. /\ session' = session /\ interview' = interview /\ application' = application
        /\ hr' = [kind |-> kind, seen |-> session]
    BY <1>4 DEF HrReads
  <2>2. kind # "none"
    BY ConstantsAssumption
  <2> QED BY <1>0, <2>1, <2>2 DEF HrInv, StatusesAgree, InProgress
<1>5. CASE HrCommits
  <2>1. hr' = HrIdle /\ hr # HrIdle /\ hr.seen.status = session.status
    BY <1>0, <1>5 DEF HrCommits, HrInv
  <2>2. CASE InterviewOpen /\ session.status = "IN_PROGRESS"
    <3>1. session'.status = "CANCELLED" /\ interview' = "CANCELLED"
      <4>1. session' = [session EXCEPT !.status = "CANCELLED", !.runtimeState = "CLOSED",
                                       !.endReason = "HR_CANCELLED", !.currentTurn = NoTurn,
                                       !.version = hr.seen.version + 1]
        BY <1>5, <2>1, <2>2 DEF HrCommits, CancelSession
      <4>2. interview' = "CANCELLED"
        BY <1>5, <2>2 DEF HrCommits
      <4> QED BY <1>0, <4>1, <4>2 DEF SessionRow
    <3>2. application' \in {"UNDER_REVIEW", "WITHDRAWN"}
      BY <1>0, <1>5, <2>2 DEF HrCommits, ApplicationAfterHr, StatusesAgree, InProgress
    <3> QED BY <2>1, <3>1, <3>2 DEF HrInv, StatusesAgree, InProgress
  <2>3. CASE InterviewOpen /\ session.status # "IN_PROGRESS"
    <3>1. session' = session /\ interview' = "CANCELLED"
      BY <1>5, <2>1, <2>3 DEF HrCommits, CancelSession
    <3>2. session.status = "NONE"
      BY <1>0, <2>3 DEF InterviewOpen, StatusesAgree, SessionStatus
    <3> QED BY <2>1, <3>1, <3>2 DEF HrInv, StatusesAgree, InProgress
  <2>4. CASE ~InterviewOpen
    <3>1. session' = session /\ interview' = interview
      BY <1>5, <2>4 DEF HrCommits, CancelSession
    <3>2. application # "INTERVIEWING" => application' \in {"WITHDRAWN", application}
      BY <1>5 DEF HrCommits, ApplicationAfterHr
    <3> QED BY <1>0, <2>1, <2>4, <3>1, <3>2 DEF InterviewOpen, HrInv, StatusesAgree, InProgress
  <2> QED BY <2>2, <2>3, <2>4
<1> QED BY <1>0, <1>1, <1>2, <1>3, <1>4, <1>5, StatusSteps

-----------------------------------------------------------------------------
(* The theorems.                                                           *)

LEMMA InitInv == Init => Inv
<1> SUFFICES ASSUME Init PROVE Inv
  OBVIOUS
<1>1. /\ turns = <<>> /\ runs = <<>> /\ session = NoSession /\ Len(turns) = 0
      /\ hr = HrIdle /\ interview = "INVITED" /\ application = "INTERVIEWING"
  BY DEF Init
<1>2. FollowUpTurns = {} /\ \A q : FollowUpsOf(q) = 0
  <2>1. FollowUpTurns = {}
    BY <1>1 DEF FollowUpTurns
  <2> QED BY <2>1, FS_EmptySet DEF FollowUpsOf
<1>3. FollowUpBudget
  BY <1>1, <1>2, FS_EmptySet, ConstantsAssumption DEF FollowUpBudget, NoSession
<1>4. OneOpenTurn /\ TurnsInOrder /\ SessionInv /\ RunsInv /\ LastTurnInv /\ QuestionsInv
      /\ ProvenanceInv
  BY <1>1 DEF OneOpenTurn, TurnsInOrder, SessionInv, RunsInv, LastTurnInv, QuestionsInv,
              ProvenanceInv, NoSession, InProgress
<1>5. HrInv /\ StatusesAgree
  BY <1>1 DEF HrInv, StatusesAgree, NoSession, InProgress
<1> QED BY <1>3, <1>4, <1>5, InitType DEF Inv

LEMMA InvInductive == Inv /\ [Next]_vars => Inv'
<1> SUFFICES ASSUME Inv, [Next]_vars PROVE Inv'
  OBVIOUS
<1>1. TypeInv'
  BY NextType DEF Inv
<1>2. BeginStep \/ NextMainStep \/ ConsiderStep \/ FollowUpStep \/ EndStep \/ IdleStep
  BY KindsOfSteps
<1>3. /\ OneOpenTurn' /\ TurnsInOrder' /\ FollowUpBudget' /\ SessionInv' /\ RunsInv'
      /\ LastTurnInv' /\ QuestionsInv' /\ ProvenanceInv'
  BY <1>1, <1>2, OneOpenTurnKept, TurnsInOrderKept, FollowUpBudgetKept, SessionInvKept,
     RunsInvKept, LastTurnInvKept, QuestionsInvKept, ProvenanceInvKept
<1> QED BY <1>1, <1>3, StatusesKept DEF Inv

LEMMA InvHolds == Spec => []Inv
BY InitInv, InvInductive, PTL DEF Spec

\* The current turn of a session in progress is its only open one, in every
\* interleaving of requests, AI results, recoveries and HR transactions.
THEOREM OneOpenTurnAlways == Spec => []OneOpenTurn
<1>1. Inv => OneOpenTurn
  BY DEF Inv
<1> QED BY <1>1, InvHolds, PTL

\* Turns are numbered and ordered as the unique indexes require.
THEOREM TurnsAlwaysInOrder == Spec => []TurnsInOrder
<1>1. Inv => TurnsInOrder
  BY DEF Inv
<1> QED BY <1>1, InvHolds, PTL

\* No interleaving exceeds the follow-up budgets, whatever they are.
THEOREM FollowUpBudgetHolds == Spec => []FollowUpBudget
<1>1. Inv => FollowUpBudget
  BY DEF Inv
<1> QED BY <1>1, InvHolds, PTL

\* A follow-up comes from one succeeded run, for the answer it follows up.
THEOREM FollowUpsComeFromTheirRuns == Spec => []FollowUpFromItsRun
<1>1. ASSUME Inv PROVE FollowUpFromItsRun
  <2>0. /\ TurnsInOrder /\ ProvenanceInv /\ Len(turns) \in Nat
        /\ \A i \in 1 .. Len(turns) : turns[i].kind \in TurnKind
    BY <1>1, RowTypes DEF Inv, Turn
  <2>1. ASSUME NEW i \in 1 .. Len(turns), turns[i].kind = "FOLLOW_UP"
        PROVE  /\ turns[i].parent = i - 1 /\ i # 1
               /\ turns[i].run \in 1 .. Len(runs)
               /\ runs[turns[i].run].status = "SUCCEEDED"
               /\ runs[turns[i].run].parent = i - 1
               /\ turns[i - 1].status = "ANSWERED"
    BY <2>0, <2>1 DEF TurnsInOrder, ProvenanceInv
  <2>2. ASSUME NEW i \in 1 .. Len(turns), turns[i].kind = "FOLLOW_UP",
               NEW j \in 1 .. Len(turns), turns[j].run = turns[i].run
        PROVE  j = i
    <3>1. turns[j].kind = "FOLLOW_UP"
      <4>1. turns[j].kind = "MAIN" => turns[j].run = 0
        BY <2>0 DEF ProvenanceInv, NoRun
      <4>2. turns[j].run # 0
        BY <2>1, <2>2
      <4> QED BY <2>0, <4>1, <4>2 DEF TurnKind
    <3> QED BY <2>1, <2>2, <3>1
  <2> QED BY <2>1, <2>2 DEF FollowUpFromItsRun
<1> QED BY <1>1, InvHolds, PTL

\* An advancing session belongs to its newest run; every other result is late.
THEOREM AdvancingIsOwned == Spec => []AdvancingOwnedByNewestRun
<1>1. ASSUME Inv PROVE AdvancingOwnedByNewestRun
  <2>1. RunsInv /\ Len(runs) \in Nat /\ runs \in Seq(Run)
    BY <1>1, RowTypes DEF Inv
  <2>2. Len(runs) > 0 => runs # <<>>
    OBVIOUS
  <2> QED BY <2>1, <2>2 DEF RunsInv, AdvancingOwnedByNewestRun, LateResult, Advancing, InProgress, Last
<1> QED BY <1>1, InvHolds, PTL

\* No main question is passed over, for any number of questions.
THEOREM NoQuestionIsLost == Spec => []NoQuestionLost
<1>1. ASSUME Inv PROVE NoQuestionLost
  <2>1. /\ QuestionsInv /\ OneOpenTurn /\ SessionInv /\ Len(turns) \in Nat
        /\ session.status # "NONE" => Len(turns) > 0
        /\ \A i \in 1 .. Len(turns) : turns[i].status \in TurnStatus
    BY <1>1, RowTypes DEF Inv, Turn
  <2>2. ASSUME \/ InProgress /\ session.runtimeState = "READY_TO_FINISH"
               \/ session.endReason = "ALL_QUESTIONS_ANSWERED"
        PROVE  Last.root = NumQuestions /\ Len(turns) > 0
    BY <2>1, <2>2 DEF QuestionsInv, InProgress
  <2>3. ASSUME InProgress, session.runtimeState = "READY_TO_FINISH"
        PROVE  \A i \in 1 .. Len(turns) : turns[i].status \in {"ANSWERED", "SKIPPED"}
    BY <2>1, <2>3 DEF OneOpenTurn, QuestionsInv, TurnStatus, NoTurn
  <2> QED BY <2>1, <2>2, <2>3 DEF QuestionsInv, NoQuestionLost, Positions
<1> QED BY <1>1, InvHolds, PTL

\* Session, interview and application agree after every transaction.
THEOREM StatusesAlwaysAgree == Spec => []StatusesAgree
<1>1. Inv => StatusesAgree
  BY DEF Inv
<1> QED BY <1>1, InvHolds, PTL

\* Answers are immutable.
THEOREM HistoryNeverChanges == Spec => HistoryIsImmutable
<1>1. ASSUME Inv, [Next]_vars
      PROVE  /\ Len(turns) <= Len(turns')
             /\ \A i \in 1 .. Len(turns) :
                  \/ turns'[i] = turns[i]
                  \/ /\ turns[i].status = "OPEN"
                     /\ turns'[i] = [turns[i] EXCEPT !.status = turns'[i].status]
  <2> DEFINE Kept(rows) ==
        \A i \in 1 .. Len(turns) :
          \/ rows[i] = turns[i]
          \/ /\ turns[i].status = "OPEN"
             /\ rows[i] = [turns[i] EXCEPT !.status = rows[i].status]
  <2>0. /\ turns \in Seq(Turn) /\ Len(turns) \in Nat
        /\ \A i \in 1 .. Len(turns) : turns[i] \in Turn
    BY <1>1, RowTypes
  <2>a. ASSUME NEW rows, SameButStatus(rows),
               \A i \in 1 .. Len(turns) :
                 turns[i].status # "OPEN" => rows[i].status = turns[i].status
        PROVE  Kept(rows)
    <3> SUFFICES ASSUME NEW i \in 1 .. Len(turns)
                 PROVE  \/ rows[i] = turns[i]
                        \/ /\ turns[i].status = "OPEN"
                           /\ rows[i] = [turns[i] EXCEPT !.status = rows[i].status]
      OBVIOUS
    <3>1. PICK s \in TurnStatus : rows[i] = [turns[i] EXCEPT !.status = s]
      BY <2>a DEF SameButStatus
    <3>2. rows[i].status = s
      BY <2>0, <3>1 DEF Turn
    <3>3. turns[i].status = s => rows[i] = turns[i]
      BY <2>0, <3>1 DEF Turn
    <3> QED BY <2>a, <3>1, <3>2, <3>3
  <2>b. ASSUME NEW rows, SameButStatus(rows), Kept(rows), NEW r \in Turn,
               turns' = Append(rows, r)
        PROVE  Len(turns) <= Len(turns') /\ Kept(turns')
    <3>1. /\ Len(turns') = Len(turns) + 1
          /\ \A i \in 1 .. Len(turns) : turns'[i] = rows[i]
      BY <2>0, <2>b, AppendedTurn
    <3> QED BY <2>0, <2>b, <3>1
  <2>c. Kept(turns)
    OBVIOUS
  <2>1. CASE BeginStep
    BY <1>1, <2>0, <2>1, <2>b, <2>c, BeginEffect, SameTurns
  <2>2. CASE NextMainStep
    <3>1. PICK rows :
            /\ Answered(rows)
            /\ \/ /\ MainTurn(Last.root + 1, Len(turns) + 1) \in Turn
                  /\ turns' = Append(rows, MainTurn(Last.root + 1, Len(turns) + 1))
               \/ turns' = rows
      BY <1>1, <2>2, NextMainEffect
    <3>2. SameButStatus(rows) /\ Len(rows) = Len(turns) /\ Kept(rows)
      BY <2>a, <3>1 DEF Answered, SameButStatus
    <3> QED BY <2>0, <2>b, <3>1, <3>2
  <2>3. CASE ConsiderStep
    <3>1. /\ SameButStatus(turns')
          /\ \A i \in 1 .. Len(turns) :
               turns[i].status # "OPEN" => turns'[i].status = turns[i].status
      BY <2>3 DEF ConsiderStep, Answered
    <3>2. Kept(turns') /\ Len(turns') = Len(turns)
      BY <2>a, <3>1 DEF SameButStatus
    <3> QED BY <2>0, <3>2
  <2>4. CASE FollowUpStep
    BY <1>1, <2>0, <2>4, <2>b, <2>c, FollowUpEffect, SameTurns
  <2>5. CASE EndStep
    <3>1. SameButStatus(turns') /\ Len(turns') = Len(turns) /\ Kept(turns')
      BY <2>5, <2>a DEF EndStep, SameButStatus
    <3> QED BY <2>0, <3>1
  <2>6. CASE IdleStep
    BY <2>0, <2>6 DEF IdleStep
  <2> QED BY <1>1, <2>1, <2>2, <2>3, <2>4, <2>5, <2>6, KindsOfSteps
<1> QED BY <1>1, InvHolds, PTL DEF Spec, HistoryIsImmutable

\* A settled run keeps its status.
THEOREM RunsSettleOnce == Spec => RunSettlesOnce
<1>1. ASSUME Inv, [Next]_vars
      PROVE  \A i \in 1 .. Len(runs) :
               runs[i].status # "PROCESSING" => runs'[i].status = runs[i].status
  <2>1. RunsKept => \A i \in 1 .. Len(runs) :
               runs[i].status # "PROCESSING" => runs'[i].status = runs[i].status
    BY DEF RunsKept
  <2>2. CASE BeginStep
    BY <2>2 DEF BeginStep
  <2>3. CASE ConsiderStep
    BY <1>1, <2>3, ConsiderEffect
  <2>4. CASE NextMainStep \/ FollowUpStep \/ IdleStep
    BY <2>1, <2>4 DEF NextMainStep, FollowUpStep, IdleStep
  <2>5. CASE EndStep
    BY <2>5 DEF EndStep
  <2> QED BY <1>1, <2>2, <2>3, <2>4, <2>5, KindsOfSteps
<1> QED BY <1>1, InvHolds, PTL DEF Spec, RunSettlesOnce

\* What is closed stays closed, and the first reason stands.
THEOREM ClosedStaysClosed == Spec => ClosedForGood
<1>1. ASSUME Inv, [Next]_vars, session.status \in {"COMPLETED", "EXPIRED", "CANCELLED"}
      PROVE  UNCHANGED <<session, turns, interview>>
  <2>1. ~InProgress /\ session.status # "NONE"
    BY <1>1 DEF InProgress
  <2>2. UNCHANGED <<session, turns>>
    BY <1>1, <2>1, KindsOfSteps
    DEF BeginStep, NextMainStep, ConsiderStep, FollowUpStep, Advancing, EndStep, IdleStep
  <2>3. interview' = interview
    <3>1. interview \notin {"INVITED", "IN_PROGRESS"}
      BY <1>1 DEF Inv, StatusesAgree
    <3>2. HrCommits => interview' = interview
      BY <3>1 DEF HrCommits, InterviewOpen
    <3>3. TypeOK
      BY <1>1, RowTypes
    <3> QED BY <1>1, <2>1, <3>2, <3>3, StatusSteps DEF Beginning, Closing, SameStatuses, HrReads
  <2> QED BY <2>2, <2>3
<1> QED BY <1>1, InvHolds, PTL DEF Spec, ClosedForGood

\* A refusal with SESSION_EXPIRED is always justified (RefusedOnlyWhenExpired):
\* only that step sets the reply, and its clock is not ahead of the database's.
THEOREM RefusalsAreJustified == Spec => []RefusedOnlyWhenExpired
<1>1. Init => RefusedOnlyWhenExpired
  BY DEF Init, RefusedOnlyWhenExpired
<1>2. ASSUME Inv, RefusedOnlyWhenExpired, [Next]_vars
      PROVE  RefusedOnlyWhenExpired'
  <2>1. TypeOK
    BY <1>2, RowTypes
  <2>2. CASE \E t \in RequestTimes : RefuseExpired(t)
    <3>1. PICK t \in RequestTimes : RefuseExpired(t)
      BY <2>2
    <3>2. t <= now /\ t \in Nat /\ now \in Nat /\ session.deadline \in Nat
      BY <2>1 DEF RequestTimes, TypeOK, SessionRow
    <3>3. InProgress /\ t >= session.deadline /\ now' = now /\ session' = session
      BY <3>1 DEF RefuseExpired, DeadlinePassed
    <3>4. now >= session.deadline
      BY <3>2, <3>3
    <3> QED BY <3>3, <3>4 DEF RefusedOnlyWhenExpired, InProgress
  <2>3. CASE ~ \E t \in RequestTimes : RefuseExpired(t)
    <3>1. CASE UNCHANGED vars
      BY <1>2, <3>1 DEF vars, RefusedOnlyWhenExpired, InProgress
    <3>2. CASE reply' = "NONE"
      BY <3>2 DEF RefusedOnlyWhenExpired
    <3>3. Next => reply' = "NONE" \/ \E t \in RequestTimes : RefuseExpired(t)
      BY DEF Next, CandidateRequest, WorkflowStep, HrStep, StartInterview, SubmitAnswer,
             FinishSession, GetSession, CloseAtDeadline, RecoverStaleAdvancing, AiReturns,
             ApplyAiResult, ApplyFallback, WorkflowDies, HrReads, HrCommits, HrAborts, Tick
    <3> QED BY <1>2, <2>3, <3>1, <3>2, <3>3
  <2> QED BY <2>2, <2>3
<1> QED BY <1>1, <1>2, InvHolds, PTL DEF Spec

\* The rows are consistent after every transaction (SessionConsistent).
THEOREM SessionAlwaysConsistent == Spec => []SessionConsistent
<1>1. TypeOK /\ OneOpenTurn /\ FollowUpBudget /\ AdvancingOwnedByNewestRun
        /\ StatusesAgree /\ RefusedOnlyWhenExpired
      => SessionConsistent
  BY DEF SessionConsistent
<1> QED
  BY <1>1, TypesAreCorrect, OneOpenTurnAlways, FollowUpBudgetHolds, AdvancingIsOwned,
     StatusesAlwaysAgree, RefusalsAreJustified, PTL

\* Settled turns, settled runs and closed sessions stay what they are.
THEOREM NothingIsEverUndone == Spec => NothingIsUndone
  BY HistoryNeverChanges, RunsSettleOnce, ClosedStaysClosed DEF NothingIsUndone

-----------------------------------------------------------------------------
(* SessionRuntime implements SessionDialogue: each kind of step of the     *)
(* session is a step of the dialogue, or leaves it as it is.               *)


Asked == [i \in 1 .. Len(turns) |-> turns[i].root]
Used == [q \in Positions |-> FollowUpsOf(q)]

\* The last of the questions asked is about the last turn's root.
LEMMA CurrentIsLast ==
  ASSUME Inv, Len(turns) > 0
  PROVE  /\ Asked \in Seq(Positions) /\ Len(Asked) = Len(turns)
         /\ Asked[Len(Asked)] = Last.root
         /\ Last.root \in Positions
<1>1. /\ Len(turns) \in Nat
      /\ \A i \in 1 .. Len(turns) : turns[i].root \in Positions
  BY RowTypes
<1>2. Asked \in Seq(Positions) /\ Len(Asked) = Len(turns)
  BY <1>1 DEF Asked
<1> QED BY <1>1, <1>2 DEF Asked, Last

\* Turns with the same questions are the same dialogue.
LEMMA SameAsked ==
  ASSUME Inv, SameButStatus(turns')
  PROVE  Asked' = Asked /\ Used' = Used
<1>1. /\ Len(turns') = Len(turns)
      /\ \A i \in 1 .. Len(turns) : turns'[i].root = turns[i].root
  <2>1. \A i \in 1 .. Len(turns) : SameQuestion(turns'[i], turns[i])
    BY RowTypes, SameButStatusKeeps
  <2>2. Len(turns') = Len(turns)
    BY DEF SameButStatus
  <2> QED BY <2>1, <2>2 DEF SameQuestion
<1>2. \A q : FollowUpsOf(q)' = FollowUpsOf(q)
  BY RowTypes, CountsUnchanged
<1> QED BY <1>1, <1>2 DEF Asked, Used

\* A turn that is added adds its question.
LEMMA AskedMore ==
  ASSUME Inv, NEW rows, SameButStatus(rows), NEW r \in Turn, turns' = Append(rows, r)
  PROVE  Asked' = Append(Asked, r.root)
<1>1. /\ turns \in Seq(Turn) /\ Len(turns) \in Nat
      /\ \A i \in 1 .. Len(turns) : turns[i].root \in Positions
  BY RowTypes
<1>2. /\ Len(turns') = Len(turns) + 1 /\ turns'[Len(turns) + 1] = r
      /\ \A i \in 1 .. Len(turns) : SameQuestion(turns'[i], turns[i])
  BY <1>1, AppendedTurn
<1>3. Asked \in Seq(Positions) /\ Len(Asked) = Len(turns)
  BY <1>1 DEF Asked
<1>4. r.root \in Positions
  BY DEF Turn
<1>5. /\ Len(Append(Asked, r.root)) = Len(turns) + 1
      /\ Append(Asked, r.root)[Len(turns) + 1] = r.root
      /\ \A i \in 1 .. Len(turns) : Append(Asked, r.root)[i] = turns[i].root
      /\ Append(Asked, r.root) \in Seq(Positions)
  BY <1>1, <1>3, <1>4 DEF Asked
<1>6. Asked' = [i \in 1 .. Len(turns) + 1 |-> turns'[i].root]
  BY <1>2 DEF Asked
<1>7. \A i \in 1 .. Len(turns) + 1 : turns'[i].root = Append(Asked, r.root)[i]
  <2> TAKE i \in 1 .. Len(turns) + 1
  <2>1. CASE i = Len(turns) + 1
    BY <1>2, <1>5, <2>1
  <2>2. CASE i # Len(turns) + 1
    <3>1. i \in 1 .. Len(turns)
      BY <1>1, <2>2
    <3> QED BY <1>2, <1>5, <3>1 DEF SameQuestion
  <2> QED BY <2>1, <2>2
<1>8. Append(Asked, r.root) = [i \in 1 .. Len(turns) + 1 |-> Append(Asked, r.root)[i]]
  BY <1>1, <1>5
<1> QED BY <1>6, <1>7, <1>8

LEMMA DialogueInit == Init => Dialogue!Init
<1> SUFFICES ASSUME Init PROVE Dialogue!Init
  OBVIOUS
<1>1. turns = <<>> /\ session = NoSession /\ Len(turns) = 0
  BY DEF Init
<1>2. Asked = <<>>
  BY <1>1 DEF Asked
<1>3. Used = [q \in 1 .. NumQuestions |-> 0]
  <2>1. FollowUpTurns = {}
    BY <1>1 DEF FollowUpTurns
  <2>2. \A q : FollowUpsOf(q) = 0
    BY <2>1, FS_EmptySet DEF FollowUpsOf
  <2> QED BY <2>2 DEF Used, Positions
<1>4. session.followUpsUsed = 0 /\ DialoguePhase = "idle"
  BY <1>1 DEF NoSession, DialoguePhase
<1> QED BY <1>2, <1>3, <1>4 DEF Dialogue!Init, Asked, Used

LEMMA DialogueNext ==
  ASSUME Inv, [Next]_vars
  PROVE  [Dialogue!Next]_(Dialogue!vars)
<1>0. /\ turns \in Seq(Turn) /\ Len(turns) \in Nat
      /\ session.status # "NONE" => Len(turns) > 0
  BY RowTypes
<1>1. CASE BeginStep
  <2>1. MainTurn(1, 1).root = 1 /\ MainTurn(1, 1).kind = "MAIN"
    BY DEF MainTurn
  <2>2. turns = <<>> /\ turns' = Append(turns, MainTurn(1, 1)) /\ MainTurn(1, 1) \in Turn
    BY <1>1, BeginEffect
  <2>3. Asked = <<>> /\ Asked' = Append(Asked, 1)
    BY <1>0, <2>1, <2>2, AskedMore, SameTurns DEF Asked
  <2>4. Used' = Used
    <3>1. \A q : FollowUpsOf(q)' = FollowUpsOf(q)
      BY <1>0, <2>1, <2>2, CountsAfterMain, SameTurns
    <3> QED BY <3>1 DEF Used
  <2>5. Asked' = <<1>>
    BY <2>3
  <2>6. DialoguePhase = "idle" /\ DialoguePhase' = "asking"
    BY <1>1 DEF BeginStep, DialoguePhase, InProgress
  <2>7. session'.followUpsUsed = session.followUpsUsed
    BY <1>1 DEF BeginStep, Inv, SessionInv
  <2>8. Dialogue!Begin
    BY <2>4, <2>5, <2>6, <2>7 DEF Dialogue!Begin, Asked, Used
  <2> QED BY <2>8 DEF Dialogue!Next
<1>2. CASE NextMainStep
  <2>1. PICK rows :
          /\ Answered(rows)
          /\ \/ /\ Last.root < NumQuestions
                /\ MainTurn(Last.root + 1, Len(turns) + 1) \in Turn
                /\ turns' = Append(rows, MainTurn(Last.root + 1, Len(turns) + 1))
                /\ session'.runtimeState = "AWAITING_ANSWER"
             \/ /\ Last.root = NumQuestions
                /\ turns' = rows
                /\ session'.runtimeState = "READY_TO_FINISH"
    BY <1>2, NextMainEffect
  <2>2. /\ SameButStatus(rows) /\ Len(turns) > 0
        /\ session'.status = "IN_PROGRESS" /\ session.status = "IN_PROGRESS"
        /\ session'.followUpsUsed = session.followUpsUsed
        /\ session.runtimeState \in {"AWAITING_ANSWER", "ADVANCING"}
    BY <1>2, <2>1, NextMainEffect DEF Answered, NextMainStep, InProgress
  <2>3. DialoguePhase \in {"asking", "considering"}
    BY <2>2 DEF DialoguePhase, InProgress
  <2>4. Asked[Len(Asked)] = Last.root
    BY <2>2, CurrentIsLast
  <2>5. CASE /\ Last.root < NumQuestions
             /\ MainTurn(Last.root + 1, Len(turns) + 1) \in Turn
             /\ turns' = Append(rows, MainTurn(Last.root + 1, Len(turns) + 1))
             /\ session'.runtimeState = "AWAITING_ANSWER"
    <3>1. PICK r : r = MainTurn(Last.root + 1, Len(turns) + 1)
      OBVIOUS
    <3>2. r \in Turn /\ r.root = Last.root + 1 /\ r.kind = "MAIN"
      BY <2>5, <3>1 DEF MainTurn
    <3>3. Asked' = Append(Asked, Last.root + 1)
      BY <2>2, <2>5, <3>1, <3>2, AskedMore
    <3>4. \A q : FollowUpsOf(q)' = FollowUpsOf(q)
      BY <1>0, <2>2, <2>5, <3>1, <3>2, CountsAfterMain
    <3>5. Used' = Used
      BY <3>4 DEF Used
    <3>6. DialoguePhase' = "asking"
      BY <2>2, <2>5 DEF DialoguePhase, InProgress
    <3>7. Dialogue!NextMain
      BY <2>2, <2>3, <2>4, <2>5, <3>3, <3>5, <3>6
      DEF Dialogue!NextMain, Dialogue!Current, Asked, Used
    <3> QED BY <3>7 DEF Dialogue!Next
  <2>6. CASE Last.root = NumQuestions /\ turns' = rows
             /\ session'.runtimeState = "READY_TO_FINISH"
    <3>1. Asked' = Asked /\ Used' = Used
      BY <2>2, <2>6, SameAsked
    <3>2. DialoguePhase' = "exhausted"
      BY <2>2, <2>6 DEF DialoguePhase, InProgress
    <3>3. ~(Last.root < NumQuestions)
      BY <2>6, ConstantsAssumption
    <3>4. Dialogue!NextMain
      BY <2>2, <2>3, <2>4, <3>1, <3>2, <3>3
      DEF Dialogue!NextMain, Dialogue!Current, Asked, Used
    <3> QED BY <3>4 DEF Dialogue!Next
  <2> QED BY <2>1, <2>5, <2>6
<1>3. CASE ConsiderStep
  <2>1. /\ SameButStatus(turns') /\ Len(turns) > 0 /\ BudgetsAllow(Last.root)
        /\ session.status = "IN_PROGRESS" /\ session.runtimeState = "AWAITING_ANSWER"
    BY <1>0, <1>3 DEF ConsiderStep, Answered, InProgress
  <2>2. /\ session'.status = "IN_PROGRESS" /\ session'.runtimeState = "ADVANCING"
        /\ session'.followUpsUsed = session.followUpsUsed
    BY <1>3, ConsiderEffect
  <2>3. Asked' = Asked /\ Used' = Used
    BY <2>1, SameAsked
  <2>4. DialoguePhase = "asking" /\ DialoguePhase' = "considering"
    BY <2>1, <2>2 DEF DialoguePhase, InProgress
  <2>5. Asked[Len(Asked)] = Last.root /\ Last.root \in Positions
    BY <2>1, CurrentIsLast
  <2>6. Used[Last.root] = FollowUpsOf(Last.root)
    BY <2>5 DEF Used
  <2>7. Dialogue!Consider
    BY <2>1, <2>2, <2>3, <2>4, <2>5, <2>6
    DEF Dialogue!Consider, Dialogue!BudgetLeft, Dialogue!Current, BudgetsAllow, Asked, Used
  <2> QED BY <2>7 DEF Dialogue!Next
<1>4. CASE FollowUpStep
  <2>1. /\ BudgetsAllow(Last.root) /\ Len(turns) > 0
        /\ session.status = "IN_PROGRESS" /\ session.runtimeState = "ADVANCING"
    BY <1>0, <1>4 DEF FollowUpStep, Advancing, InProgress
  <2>2. /\ session'.status = "IN_PROGRESS" /\ session'.runtimeState = "AWAITING_ANSWER"
        /\ session'.followUpsUsed = session.followUpsUsed + 1
    BY <1>4, FollowUpEffect
  <2>3. PICK r : r = FollowUpTurn(Len(runs))
    OBVIOUS
  <2>4. r \in Turn /\ r.root = Last.root /\ r.kind = "FOLLOW_UP" /\ turns' = Append(turns, r)
    BY <1>4, <2>3, FollowUpEffect
  <2>5. Asked' = Append(Asked, Last.root)
    BY <1>0, <2>4, AskedMore, SameTurns
  <2>6. Asked[Len(Asked)] = Last.root /\ Last.root \in Positions
    BY <2>1, CurrentIsLast
  <2>7. \A q : FollowUpsOf(q)' = IF q = Last.root THEN FollowUpsOf(q) + 1 ELSE FollowUpsOf(q)
    BY <1>0, <2>4, CountsAfterFollowUp
  <2>8. Used' = [Used EXCEPT ![Last.root] = @ + 1] /\ Used[Last.root] = FollowUpsOf(Last.root)
    BY <2>6, <2>7 DEF Used
  <2>9. DialoguePhase = "considering" /\ DialoguePhase' = "asking"
    BY <2>1, <2>2 DEF DialoguePhase, InProgress
  <2>10. Dialogue!FollowUp
    BY <2>1, <2>2, <2>5, <2>6, <2>8, <2>9
    DEF Dialogue!FollowUp, Dialogue!BudgetLeft, Dialogue!Current, BudgetsAllow, Asked, Used
  <2> QED BY <2>10 DEF Dialogue!Next
<1>5. CASE EndStep
  <2>1. Asked' = Asked /\ Used' = Used
    BY <1>5, SameAsked DEF EndStep
  <2>2. DialoguePhase' = "ended" /\ session'.followUpsUsed = session.followUpsUsed
    BY <1>5 DEF EndStep, DialoguePhase, InProgress
  <2>3. session.status = "IN_PROGRESS"
    BY <1>5 DEF EndStep, InProgress
  <2>4. DialoguePhase \in {"asking", "considering", "exhausted"}
    BY <2>3 DEF DialoguePhase, InProgress
  <2>5. Dialogue!End
    BY <2>1, <2>2, <2>4 DEF Dialogue!End, Asked, Used
  <2> QED BY <2>5 DEF Dialogue!Next
<1>6. CASE IdleStep
  <2>1. session' = session /\ turns' = turns
    BY <1>6 DEF IdleStep
  <2>2. SameButStatus(turns')
    BY <1>0, <2>1, SameTurns
  <2>3. Asked' = Asked /\ Used' = Used
    BY <2>2, SameAsked
  <2>4. DialoguePhase' = DialoguePhase /\ session'.followUpsUsed = session.followUpsUsed
    BY <2>1 DEF DialoguePhase, InProgress
  <2> QED BY <2>3, <2>4 DEF Dialogue!vars, Asked, Used
<1> QED BY <1>1, <1>2, <1>3, <1>4, <1>5, <1>6, KindsOfSteps

\* The session implements the dialogue: whatever the interleaving, what the
\* candidate is asked is a run of SessionDialogue.
THEOREM SessionImplementsDialogue == Spec => ImplementsDialogue
BY InvHolds, DialogueInit, DialogueNext, PTL DEF Spec, Dialogue!Spec, ImplementsDialogue
=============================================================================
