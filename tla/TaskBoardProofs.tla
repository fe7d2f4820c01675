--------------------------- MODULE TaskBoardProofs ---------------------------
(***************************************************************************)
(* Proofs about TaskBoard for every set of tasks, agents, requests and     *)
(* PATCH bodies.                                                           *)
(*                                                                         *)
(* All writes of a row but four (create, delete, the review route and the  *)
(* hoarding sweep) go through UpdateTask, so what it keeps is proved once, *)
(* for a sound update; each handler then shows that its update is sound.   *)
(***************************************************************************)
EXTENDS TaskBoard, TLAPS

USE DEF Status, Live, Owner, Closed

-----------------------------------------------------------------------------
(**************************** type correctness ****************************)

\* The missing metadata.transition is a value of the field.
LEMMA NoTransitionType == NoTransition \in Transition
BY DEF NoTransition, Transition

\* The metadata without any key is typed.
LEMMA NewMetaType == NewMeta \in Meta
BY NoTransitionType DEF NewMeta, Meta

\* Merging two metadata objects gives a metadata object.
LEMMA OverlayType ==
    ASSUME NEW old \in Meta, NEW new \in Meta
    PROVE  Overlay(old, new) \in Meta
BY DEF Overlay, Meta

\* What updateTask writes over a row is a row again.
LEMMA WrittenType ==
    ASSUME NEW r \in Row, NEW u \in Update
    PROVE  Written(r, u) \in Row
<1>1. NextStatus(r, u) \in Status
  BY DEF NextStatus, Row, Update
<1>2. NextAssignee(r, u) \in Owner /\ NextReviewer(r, u) \in Owner
  BY DEF NextAssignee, NextReviewer, Row, Update
<1>3. WrittenMeta(r, u) \in Meta
  <2>1. r.meta \in Meta /\ u.meta \in Meta
    BY DEF Row, Update
  <2>2. Overlay(r.meta, u.meta) \in Meta
    BY <2>1, OverlayType
  <2>3. [Overlay(r.meta, u.meta) EXCEPT !.bounces = r.meta.bounces + 1] \in Meta
    BY <2>1, <2>2 DEF Meta
  <2> QED
    BY <2>1, <2>3 DEF WrittenMeta
<1> QED
  BY <1>1, <1>2, <1>3 DEF Written, Row

\* One write through updateTask keeps the table and the history typed.
LEMMA UpdateTaskType ==
    ASSUME TypeOK, NEW u \in Update, UpdateTask(u)
    PROVE  row' \in [Tasks -> Row] /\ history' \in [Tasks -> History]
<1>1. u.task \in Tasks
  BY DEF Update
<1>2. row' \in [Tasks -> Row]
  <2>1. Written(row[u.task], u) \in Row
    BY <1>1, WrittenType DEF TypeOK
  <2> QED
    BY <2>1 DEF TypeOK, UpdateTask
<1>3. history' \in [Tasks -> History]
  <2>1. /\ u.explained \in BOOLEAN /\ u.unreviewed \in BOOLEAN
        /\ history[u.task] \in History
    BY <1>1 DEF TypeOK, Update
  <2>2. [reviewers |-> history[u.task].reviewers
                           \cup ({NextReviewer(row[u.task], u)} \cap Agents),
         verdict |-> IF u.approves THEN "approve" ELSE history[u.task].verdict,
         explained |-> u.explained,
         unreviewed |-> u.unreviewed,
         ungated |-> history[u.task].ungated \/ (u.approves /\ u.unreviewed)]
            \in History
    BY <2>1 DEF History
  <2> QED
    BY <2>2 DEF TypeOK, UpdateTask
<1> QED
  BY <1>2, <1>3

\* The update of a handler that spreads the row it read is typed.
LEMMA FreshType ==
    ASSUME NEW t \in Tasks, NEW st \in Live \cup {"keep"},
           NEW a \in Owner \cup {Keep}, NEW m \in Meta
    PROVE  Fresh(t, st, a, m) \in Update
BY DEF Fresh, Update

\* A request that approves names its actor, so the merged metadata is typed.
LEMMA MergedMetaType ==
    ASSUME NEW r \in Row, NEW b \in Body, ReviewerIdentityGate(r, b)
    PROVE  MergedMeta(r, b) \in Meta
<1>1. r.meta \in Meta
  BY DEF Row
<1>2. b.approve = "yes" => b.actor \in Agents
  BY DEF ReviewerIdentityGate, Body
<1>3. b.transition \in Transition /\ b.close \in {"keep", "duplicate", "duplicate_with_refs"}
  BY DEF Body
<1>4. InOrder(r, b) \in BOOLEAN
  BY DEF InOrder, Body
<1> DEFINE ap == CASE Target(r, b) = "cancelled" -> Nobody
                   [] b.approve = "yes" -> b.actor
                   [] b.approve = "no" -> Rejected
                   [] b.approve = "truthy" -> Truthy
                   [] OTHER -> r.meta.approval
<1>5. ap \in Owner \cup {Rejected} \cup Unchecked
  BY <1>1, <1>2 DEF Meta, Unchecked
<1> HIDE DEF ap
<1>6. MergedMeta(r, b) =
        [r.meta EXCEPT
            !.approval = ap,
            !.transition = IF b.transition = NoTransition THEN @ ELSE b.transition,
            !.close = IF b.close = "keep" THEN @ ELSE b.close,
            !.reopen = @ \/ ~InOrder(r, b)]
  BY <1>1 DEF MergedMeta, Meta, ap
<1> QED
  BY <1>1, <1>3, <1>4, <1>5, <1>6 DEF Meta

\* A PATCH that passes the gates hands a typed update to updateTask.
LEMMA PatchUpdateType ==
    ASSUME TypeOK, NEW t \in Tasks, NEW b \in Bodies, PatchGates(row[t], b)
    PROVE  PatchUpdate(t, b) \in Update
<1>1. b \in Body /\ row[t] \in Row
  BY BodiesAssumption DEF TypeOK
<1>2. MergedMeta(row[t], b) \in Meta
  BY <1>1, MergedMetaType DEF PatchGates
<1> QED
  BY <1>1, <1>2 DEF PatchUpdate, Update, Body

\* What each handler keeps of TypeOK, for the proof of TypeCorrect.
LEMMA TypeStep == TypeOK /\ [Next]_vars => TypeOK'
<1> SUFFICES ASSUME TypeOK, [Next]_vars PROVE TypeOK'
  OBVIOUS
<1>1. ASSUME NEW t \in Tasks, NEW d \in Drafts, Create(t, d)
      PROVE  TypeOK'
  <2>1. d \in Row
    BY DraftsAssumption DEF Draft
  <2>2. [history[t] EXCEPT !.reviewers = @ \cup ({d.reviewer} \cap Agents)] \in History
    BY DEF TypeOK, History
  <2>3. row' \in [Tasks -> Row]
    BY <1>1, <2>1 DEF TypeOK, Create
  <2>4. history' \in [Tasks -> History]
    BY <1>1, <2>2 DEF TypeOK, Create
  <2> QED
    BY <1>1, <2>3, <2>4 DEF TypeOK, Create
<1>2. ASSUME NEW t \in Tasks, NEW b \in Bodies, PatchNow(t, b)
      PROVE  TypeOK'
  <2>1. PatchUpdate(t, b) \in Update
    BY <1>2, PatchUpdateType DEF PatchNow
  <2>2. row' \in [Tasks -> Row] /\ history' \in [Tasks -> History]
    BY <1>2, <2>1, UpdateTaskType DEF PatchNow
  <2> QED
    BY <1>2, <2>2 DEF TypeOK, PatchNow
<1>3. ASSUME NEW q \in Requests, NEW t \in Tasks, NEW b \in Bodies,
             PatchAdmit(q, t, b)
      PROVE  TypeOK'
  <2>1. PatchUpdate(t, b) \in Update
    BY <1>3, PatchUpdateType DEF PatchAdmit
  <2> QED
    BY <1>3, <2>1 DEF TypeOK, PatchAdmit
<1>4. ASSUME NEW q \in Requests, PatchCommit(q)
      PROVE  TypeOK'
  <2>1. row' \in [Tasks -> Row] /\ history' \in [Tasks -> History]
    BY <1>4, UpdateTaskType DEF PatchCommit
  <2> QED
    BY <1>4, <2>1 DEF TypeOK, PatchCommit
<1>5. ASSUME NEW q \in Requests, PatchRefuse(q)
      PROVE  TypeOK'
  BY <1>5 DEF TypeOK, PatchRefuse
<1>6. ASSUME NEW q \in Requests, NextClaim(q)
      PROVE  TypeOK'
  <2> DEFINE t == pending[q].task
             u == Fresh(t, "doing", pending[q].puller, row[t].meta)
  <2>1. t \in Tasks /\ pending[q].puller \in Agents
    BY <1>6 DEF NextClaim, Pull
  <2>2. u \in Update
    <3>1. row[t].meta \in Meta
      BY <2>1 DEF TypeOK, Row
    <3> QED
      BY <2>1, <3>1, FreshType
  <2>3. CASE row[t].status = "todo" /\ row[t].reviewer # Nobody
    <3>1. UpdateTask(u)
      BY <1>6, <2>3 DEF NextClaim
    <3>2. row' \in [Tasks -> Row] /\ history' \in [Tasks -> History]
      BY <2>2, <3>1, UpdateTaskType
    <3> QED
      BY <1>6, <3>2 DEF TypeOK, NextClaim
  <2>4. CASE ~(row[t].status = "todo" /\ row[t].reviewer # Nobody)
    BY <1>6, <2>4 DEF TypeOK, NextClaim
  <2> QED
    BY <2>3, <2>4
<1>7. ASSUME NEW t \in Tasks, Delete(t)
      PROVE  TypeOK'
  <2>1. [row[t] EXCEPT !.status = "deleted"] \in Row
    BY DEF TypeOK, Row
  <2> QED
    BY <1>7, <2>1 DEF TypeOK, Delete
<1>8. ASSUME NEW t \in Tasks, Cancel(t)
      PROVE  TypeOK'
  <2>1. Fresh(t, "cancelled", Keep, row[t].meta) \in Update
    <3>1. row[t].meta \in Meta
      BY DEF TypeOK, Row
    <3> QED
      BY <3>1, FreshType
  <2>2. row' \in [Tasks -> Row] /\ history' \in [Tasks -> History]
    BY <1>8, <2>1, UpdateTaskType DEF Cancel
  <2> QED
    BY <1>8, <2>2 DEF TypeOK, Cancel
<1>9. ASSUME NEW t \in Tasks, SweepUnassign(t)
      PROVE  TypeOK'
  <2>1. [row[t] EXCEPT !.assignee = Nobody] \in Row
    BY DEF TypeOK, Row
  <2>2. row' \in [Tasks -> Row]
    BY <1>9, <2>1 DEF TypeOK, SweepUnassign
  <2> QED
    BY <1>9, <2>2 DEF TypeOK, SweepUnassign
<1>10. ASSUME NEW a \in Agents, NEW t \in Tasks, Claim(a, t)
       PROVE  TypeOK'
  <2>1. Fresh(t, "doing", a, row[t].meta) \in Update
    <3>1. row[t].meta \in Meta
      BY DEF TypeOK, Row
    <3> QED
      BY <3>1, FreshType
  <2>2. row' \in [Tasks -> Row] /\ history' \in [Tasks -> History]
    BY <1>10, <2>1, UpdateTaskType DEF Claim
  <2> QED
    BY <1>10, <2>2 DEF TypeOK, Claim
<1>11. ASSUME NEW q \in Requests, NEW a \in Agents, NEW t \in Tasks, NextPull(q, a, t)
       PROVE  TypeOK'
  <2>1. [task |-> t, puller |-> a] \in Pull
    BY DEF Pull
  <2> QED
    BY <1>11, <2>1 DEF TypeOK, NextPull
<1>12. ASSUME NEW a \in Agents, NEW t \in Tasks, NEW approve \in BOOLEAN,
              Review(a, t, approve)
       PROVE  TypeOK'
  <2> DEFINE st == IF approve THEN "done" ELSE "keep"
             m  == [row[t].meta EXCEPT !.approval = IF approve THEN a ELSE Rejected]
  <2>1. m \in Meta
    BY DEF TypeOK, Row, Meta
  <2>2. Fresh(t, st, Keep, m) \in Update
    BY <2>1, FreshType
  <2>3. Written(row[t], Fresh(t, st, Keep, m)) \in Row
    BY <2>2, WrittenType DEF TypeOK
  <2>4. row' \in [Tasks -> Row]
    BY <1>12, <2>3 DEF TypeOK, Review
  <2>5. [history[t] EXCEPT !.verdict = IF approve THEN "approve" ELSE "reject",
                            !.unreviewed = FALSE] \in History
    BY DEF TypeOK, History
  <2>6. history' \in [Tasks -> History]
    BY <1>12, <2>5 DEF TypeOK, Review
  <2> QED
    BY <1>12, <2>4, <2>6 DEF TypeOK, Review
<1>13. ASSUME NEW t \in Tasks, NEW duplicate \in BOOLEAN, BulkClose(t, duplicate)
       PROVE  TypeOK'
  <2> DEFINE m == [row[t].meta EXCEPT !.close =
                     IF duplicate /\ @ = "normal" THEN "duplicate" ELSE @]
  <2>1. m \in Meta
    <3>1. row[t].meta \in Meta
      BY DEF TypeOK, Row
    <3>2. \A x \in Meta, c \in {"normal", "duplicate", "duplicate_with_refs"} :
            [x EXCEPT !.close = c] \in Meta
      BY DEF Meta
    <3>3. row[t].meta.close \in {"normal", "duplicate", "duplicate_with_refs"}
      BY <3>1 DEF Meta
    <3> QED
      BY <3>1, <3>2, <3>3
  <2>2. Fresh(t, "done", Keep, m) \in Update
    BY <2>1, FreshType
  <2>3. row' \in [Tasks -> Row] /\ history' \in [Tasks -> History]
    BY <1>13, <2>2, UpdateTaskType DEF BulkClose
  <2> QED
    BY <1>13, <2>3 DEF TypeOK, BulkClose
<1>14. ASSUME NEW idle \in SUBSET Agents, NEW overflow \in SUBSET Tasks,
              SweepScan(idle, overflow)
       PROVE  TypeOK'
  BY <1>14 DEF TypeOK, SweepScan
<1>15. CASE UNCHANGED vars
  BY <1>15 DEF TypeOK, vars
<1> QED
  BY <1>1, <1>2, <1>3, <1>4, <1>5, <1>6, <1>7, <1>8, <1>9, <1>10, <1>11, <1>12,
     <1>13, <1>14, <1>15 DEF Next

\* The empty board is typed.
LEMMA TypeInit == Init => TypeOK
<1> SUFFICES ASSUME Init PROVE TypeOK
  OBVIOUS
<1>1. NoRow \in Row
  BY NewMetaType DEF NoRow, Row
<1>2. NoHistory \in History
  BY DEF NoHistory, History
<1> QED
  BY <1>1, <1>2 DEF Init, TypeOK

\* Every row, every suspended request and the sweep hold what the code's types
\* say, in every reachable state.
THEOREM TypeCorrect == Spec => []TypeOK
BY TypeInit, TypeStep, PTL DEF Spec

-----------------------------------------------------------------------------
(********************** sign-off, ownership, rework ***********************)

\* The reviewer of every task on the board is one the task's history knows.
ReviewerRecorded ==
    \A t \in Tasks :
        Exists(t) /\ row[t].reviewer # Nobody => row[t].reviewer \in history[t].reviewers

\* An update may be written at any later time: its approval comes from a
\* reviewer, or was given without one; and if it closes the task it is signed off
\* by itself or was admitted without a reviewer.
SoundUpdate(u, h) ==
    /\ u.meta.approval \in Agents =>
            \/ u.meta.approval \in h[u.task].reviewers
            \/ h[u.task].ungated
            \/ u.approves /\ u.unreviewed
    /\ u.status = "done" =>
            u.meta.approval \in SignedOff \/ u.meta.close # "normal" \/ u.unreviewed

PendingSound == \A q \in Requests : pending[q] \in Update => SoundUpdate(pending[q], history)

\* What the history says of reviewers is only added to.
HistoryGrows ==
    \A t \in Tasks :
        /\ history[t].reviewers \subseteq history'[t].reviewers
        /\ history[t].ungated => history'[t].ungated

RowsSound == ReviewerRecorded /\ ApprovalFromReviewer
IInv == TypeOK /\ RowsSound /\ PendingSound

StepSound(t) == TakeoverIsNamed(t) /\ CloseIsSignedOff(t) /\ BounceRaisesCount(t)
AllStepsSound == \A t \in Tasks : StepSound(t)

\* The one lemma about TaskManager.updateTask.
LEMMA SoundWrite ==
    ASSUME TypeOK, RowsSound, NEW u \in Update, SoundUpdate(u, history), UpdateTask(u)
    PROVE  /\ RowsSound'
           /\ AllStepsSound
           /\ HistoryGrows
<1> DEFINE r == row[u.task]
<1>1. u.task \in Tasks /\ r \in Row /\ r.meta \in Meta /\ u.meta \in Meta
  BY DEF TypeOK, Update, Row
<1>2. /\ row' = [row EXCEPT ![u.task] = Written(r, u)]
      /\ Exists(u.task)
      /\ LaneLock(r, NextStatus(r, u), NextAssignee(r, u), u.meta.transition)
  BY DEF UpdateTask
<1>3. \A t \in Tasks : t # u.task => row'[t] = row[t]
  BY <1>2 DEF TypeOK
<1>4. row'[u.task] = Written(r, u)
  BY <1>1, <1>2 DEF TypeOK
<1>5. /\ history'[u.task].reviewers =
            history[u.task].reviewers \cup ({NextReviewer(r, u)} \cap Agents)
      /\ history'[u.task].unreviewed = u.unreviewed
      /\ history'[u.task].ungated =
            (history[u.task].ungated \/ (u.approves /\ u.unreviewed))
      /\ \A t \in Tasks : t # u.task => history'[t] = history[t]
  BY <1>1 DEF UpdateTask, TypeOK
<1>6. HistoryGrows
  BY <1>5 DEF HistoryGrows
<1>7. ReviewerRecorded'
  <2>1. NextReviewer(r, u) \in Owner
    BY <1>1 DEF NextReviewer, Update, Row
  <2>2. row'[u.task].reviewer = NextReviewer(r, u)
    BY <1>4 DEF Written
  <2>3. row'[u.task].reviewer # Nobody => row'[u.task].reviewer \in history'[u.task].reviewers
    BY <1>5, <2>1, <2>2
  <2>4. ASSUME NEW t \in Tasks, t # u.task, row'[t].status \in Live,
               row'[t].reviewer # Nobody
        PROVE  row'[t].reviewer \in history'[t].reviewers
    BY <1>3, <1>6, <2>4 DEF RowsSound, ReviewerRecorded, Exists, HistoryGrows
  <2> QED
    BY <2>3, <2>4 DEF ReviewerRecorded, Exists
<1>8. ApprovalFromReviewer'
  <2>1. row'[u.task].meta.approval \in {u.meta.approval, r.meta.approval}
    BY <1>1, <1>4 DEF Written, WrittenMeta, Overlay, Meta
  <2>2. row'[u.task].meta.approval \in Agents =>
            \/ row'[u.task].meta.approval \in history'[u.task].reviewers
            \/ history'[u.task].ungated
    BY <1>1, <1>5, <2>1 DEF SoundUpdate, RowsSound, ApprovalFromReviewer
  <2> QED
    BY <1>3, <1>6, <2>2 DEF RowsSound, ApprovalFromReviewer, HistoryGrows
<1>9. StepSound(u.task)
  <2>1. TakeoverIsNamed(u.task)
    <3>1. CASE IsHandoff(r, NextStatus(r, u), NextAssignee(r, u))
      <4>1. u.meta.transition.type = "handoff" /\ u.meta.transition.to = NextAssignee(r, u)
        BY <1>2, <3>1 DEF LaneLock
      <4>2. u.meta.transition = [type |-> "handoff", to |-> NextAssignee(r, u)]
        BY <1>1, <4>1 DEF Meta, Transition
      <4>3. row'[u.task].meta = u.meta
        BY <1>4, <3>1 DEF Written, WrittenMeta, IsBounce, IsHandoff
      <4> QED
        BY <1>4, <4>2, <4>3 DEF TakeoverIsNamed, Written
    <3>2. CASE ~IsHandoff(r, NextStatus(r, u), NextAssignee(r, u))
      BY <1>4, <3>2 DEF TakeoverIsNamed, Written
    <3> QED
      BY <3>1, <3>2
  <2>2. CloseIsSignedOff(u.task)
    BY <1>4, <1>5 DEF CloseIsSignedOff, Written, WrittenMeta, IsBounce, NextStatus,
                      SoundUpdate
  <2>3. BounceRaisesCount(u.task)
    <3>1. ASSUME IsBounce(r, NextStatus(r, u))
          PROVE  WrittenMeta(r, u).bounces = r.meta.bounces + 1
      BY <1>1, <3>1 DEF WrittenMeta, Overlay, Meta
    <3> QED
      BY <1>4, <3>1 DEF BounceRaisesCount, Written
  <2> QED
    BY <2>1, <2>2, <2>3 DEF StepSound
<1>10. ASSUME NEW t \in Tasks, t # u.task PROVE StepSound(t)
  BY <1>3, <1>5, <1>10 DEF StepSound, TakeoverIsNamed, CloseIsSignedOff,
                     BounceRaisesCount, IsHandoff, IsBounce
<1> QED
  BY <1>6, <1>7, <1>8, <1>9, <1>10 DEF RowsSound, AllStepsSound

\* Updates that wait in a handler stay sound while the history only grows.
LEMMA PendingStaysSound ==
    ASSUME PendingSound, TypeOK, HistoryGrows,
           \A q \in Requests : pending'[q] \in Update => pending'[q] = pending[q]
    PROVE  PendingSound'
<1> SUFFICES ASSUME NEW q \in Requests, pending'[q] \in Update
             PROVE  SoundUpdate(pending'[q], history')
  BY DEF PendingSound
<1>1. pending'[q] = pending[q] /\ SoundUpdate(pending[q], history) /\ pending[q].task \in Tasks
  BY DEF PendingSound, Update
<1> QED
  BY <1>1 DEF SoundUpdate, HistoryGrows

\* Handlers that leave the history alone do so.
LEMMA SameHistory == ASSUME UNCHANGED history PROVE HistoryGrows
BY DEF HistoryGrows

\* A free request slot is no update.
LEMMA IdleIsNoUpdate == Idle \notin Update
<1> SUFFICES ASSUME Idle \in Update PROVE FALSE
  OBVIOUS
<1>1. Idle.task \in Tasks
  BY DEF Update
<1> QED
  BY <1>1, MarkersAssumption DEF Idle

\* A PATCH that passes the identity and close gates builds a sound update.
LEMMA PatchUpdateSound ==
    ASSUME TypeOK, RowsSound, NEW t \in Tasks, NEW b \in Bodies,
           Exists(t), PatchGates(row[t], b)
    PROVE  SoundUpdate(PatchUpdate(t, b), history)
<1> DEFINE m == MergedMeta(row[t], b)
<1>1. row[t] \in Row /\ row[t].meta \in Meta /\ b \in Body
  BY BodiesAssumption DEF TypeOK, Row
<1>2. \/ row[t].reviewer \in history[t].reviewers /\ row[t].reviewer \in Agents
      \/ row[t].reviewer = Nobody
  BY DEF RowsSound, ReviewerRecorded, TypeOK, History
<1>3. b.approve = "yes" => b.actor \in history[t].reviewers \/ row[t].reviewer = Nobody
  BY <1>2, MarkersAssumption DEF PatchGates, ReviewerIdentityGate
<1>4. m.approval = CASE Target(row[t], b) = "cancelled" -> Nobody
                     [] b.approve = "yes" -> b.actor
                     [] b.approve = "no" -> Rejected
                     [] b.approve = "truthy" -> Truthy
                     [] OTHER -> row[t].meta.approval
  BY <1>1 DEF MergedMeta, Meta
<1>5. \/ m.approval \in {Nobody, Rejected, Truthy, row[t].meta.approval}
      \/ b.approve = "yes" /\ m.approval = b.actor
  BY <1>4
<1>6. m.approval \in Agents =>
        \/ m.approval \in history[t].reviewers
        \/ history[t].ungated
        \/ b.approve = "yes" /\ row[t].reviewer = Nobody
  BY <1>3, <1>5, MarkersAssumption DEF RowsSound, ApprovalFromReviewer
<1>7. b.status = "done" =>
        m.approval \in SignedOff \/ m.close # "normal" \/ row[t].reviewer = Nobody
  BY DEF PatchGates, SignOffGate
<1> QED
  BY <1>6, <1>7 DEF SoundUpdate, PatchUpdate

\* An update that spreads the row and does not close it by itself is sound.
LEMMA FreshSound ==
    ASSUME TypeOK, RowsSound, NEW t \in Tasks, NEW st \in {"doing", "cancelled"},
           NEW a \in Owner \cup {Keep}
    PROVE  /\ Fresh(t, st, a, row[t].meta) \in Update
           /\ SoundUpdate(Fresh(t, st, a, row[t].meta), history)
<1>1. row[t].meta \in Meta
  BY DEF TypeOK, Row
<1>2. Fresh(t, st, a, row[t].meta) \in Update
  BY <1>1, FreshType
<1> QED
  BY <1>2 DEF SoundUpdate, Fresh, RowsSound, ApprovalFromReviewer

\* Handlers that leave the board alone take no unsound step.
LEMMA SameRows ==
    ASSUME TypeOK, RowsSound, UNCHANGED <<row, history>>
    PROVE  RowsSound' /\ AllStepsSound
BY DEF RowsSound, ReviewerRecorded, Exists, ApprovalFromReviewer, AllStepsSound,
       StepSound, TakeoverIsNamed, CloseIsSignedOff, BounceRaisesCount, IsHandoff,
       IsBounce

\* Every handler keeps the invariant and takes only sound steps.
LEMMA SoundStep ==
    ASSUME IInv, [Next]_vars
    PROVE  RowsSound' /\ PendingSound' /\ AllStepsSound
<1> USE DEF IInv
<1>0. ASSUME NEW u \in Update, SoundUpdate(u, history), UpdateTask(u),
             \A q \in Requests : pending'[q] \in Update => pending'[q] = pending[q]
      PROVE  RowsSound' /\ PendingSound' /\ AllStepsSound
  BY <1>0, SoundWrite, PendingStaysSound
<1>1. ASSUME NEW t \in Tasks, NEW d \in Drafts, Create(t, d)
      PROVE  RowsSound' /\ PendingSound' /\ AllStepsSound
  <2>1. /\ row[t].status = "absent" /\ row'[t] = d
        /\ \A s \in Tasks : s # t => row'[s] = row[s]
    BY <1>1 DEF Create, TypeOK
  <2>2. d \in Row /\ d.meta.approval \notin Agents
    BY DraftsAssumption DEF Draft
  <2>3. /\ history'[t].reviewers = history[t].reviewers \cup ({d.reviewer} \cap Agents)
        /\ history'[t].ungated = history[t].ungated
        /\ \A s \in Tasks : s # t => history'[s] = history[s]
    BY <1>1 DEF Create, TypeOK, History
  <2>4. RowsSound'
    BY <2>1, <2>2, <2>3, MarkersAssumption
    DEF RowsSound, ReviewerRecorded, ApprovalFromReviewer, Exists, Row
  <2>5. AllStepsSound
    BY <2>1, <2>3 DEF AllStepsSound, StepSound, TakeoverIsNamed, CloseIsSignedOff,
                      BounceRaisesCount, IsHandoff, IsBounce
  <2>6. PendingSound'
    BY <1>1, <2>1, <2>3, PendingStaysSound DEF Create, HistoryGrows
  <2> QED
    BY <2>4, <2>5, <2>6
<1>2. ASSUME NEW t \in Tasks, NEW b \in Bodies, PatchNow(t, b)
      PROVE  RowsSound' /\ PendingSound' /\ AllStepsSound
  BY <1>0, <1>2, PatchUpdateType, PatchUpdateSound DEF PatchNow
<1>3. ASSUME NEW q \in Requests, NEW t \in Tasks, NEW b \in Bodies,
             PatchAdmit(q, t, b)
      PROVE  RowsSound' /\ PendingSound' /\ AllStepsSound
  <2>1. SoundUpdate(PatchUpdate(t, b), history')
    BY <1>3, PatchUpdateSound DEF PatchAdmit
  <2>2. \A p \in Requests : p # q => pending'[p] = pending[p]
    BY <1>3 DEF PatchAdmit, TypeOK
  <2>3. pending'[q] = PatchUpdate(t, b)
    BY <1>3 DEF PatchAdmit, TypeOK
  <2>4. PendingSound'
    BY <1>3, <2>1, <2>2, <2>3 DEF PendingSound, SoundUpdate, PatchAdmit
  <2> QED
    BY <1>3, <2>4, SameRows DEF PatchAdmit
<1>4. ASSUME NEW q \in Requests, PatchCommit(q)
      PROVE  RowsSound' /\ PendingSound' /\ AllStepsSound
  BY <1>0, <1>4, IdleIsNoUpdate DEF PatchCommit, PendingSound, TypeOK
<1>5. ASSUME NEW q \in Requests, PatchRefuse(q)
      PROVE  RowsSound' /\ PendingSound' /\ AllStepsSound
  BY <1>5, IdleIsNoUpdate, SameRows, SameHistory, PendingStaysSound DEF PatchRefuse, TypeOK
<1>6. ASSUME NEW q \in Requests, NextClaim(q)
      PROVE  RowsSound' /\ PendingSound' /\ AllStepsSound
  <2> DEFINE t == pending[q].task
             u == Fresh(t, "doing", pending[q].puller, row[t].meta)
  <2>1. t \in Tasks /\ pending[q].puller \in Agents
    BY <1>6 DEF NextClaim, Pull
  <2>2. \A p \in Requests : pending'[p] \in Update => pending'[p] = pending[p]
    BY <1>6, IdleIsNoUpdate DEF NextClaim, TypeOK
  <2>3. CASE row[t].status = "todo" /\ row[t].reviewer # Nobody
    <3>1. UpdateTask(u)
      BY <1>6, <2>3 DEF NextClaim
    <3>2. u \in Update /\ SoundUpdate(u, history)
      BY <2>1, FreshSound
    <3> QED
      BY <1>0, <2>2, <3>1, <3>2
  <2>4. CASE ~(row[t].status = "todo" /\ row[t].reviewer # Nobody)
    <3>1. UNCHANGED <<row, history>>
      BY <1>6, <2>4 DEF NextClaim
    <3> QED
      BY <2>2, <3>1, SameRows, SameHistory, PendingStaysSound
  <2> QED
    BY <2>3, <2>4
<1>7. ASSUME NEW t \in Tasks, Delete(t)
      PROVE  RowsSound' /\ PendingSound' /\ AllStepsSound
  <2>1. row'[t] = [row[t] EXCEPT !.status = "deleted"]
        /\ \A s \in Tasks : s # t => row'[s] = row[s]
    BY <1>7 DEF Delete, TypeOK
  <2>2. row'[t].status = "deleted" /\ row'[t].meta = row[t].meta
    BY <2>1 DEF TypeOK, Row
  <2>3. RowsSound'
    BY <1>7, <2>1, <2>2
    DEF RowsSound, ReviewerRecorded, ApprovalFromReviewer, Exists, Delete
  <2>4. AllStepsSound
    BY <2>1, <2>2 DEF AllStepsSound, StepSound, TakeoverIsNamed,
                      CloseIsSignedOff, BounceRaisesCount, IsHandoff, IsBounce
  <2> QED
    BY <1>7, <2>3, <2>4, SameHistory, PendingStaysSound DEF Delete
<1>8. ASSUME NEW t \in Tasks, Cancel(t)
      PROVE  RowsSound' /\ PendingSound' /\ AllStepsSound
  BY <1>0, <1>8, FreshSound DEF Cancel
<1>9. ASSUME NEW t \in Tasks, SweepUnassign(t)
      PROVE  RowsSound' /\ PendingSound' /\ AllStepsSound
  <2>1. \/ UNCHANGED row
        \/ /\ ~IsHandoff(row[t], row[t].status, Nobody)
           /\ row'[t] = [row[t] EXCEPT !.assignee = Nobody]
           /\ \A s \in Tasks : s # t => row'[s] = row[s]
    BY <1>9 DEF SweepUnassign, TypeOK
  <2>2. RowsSound'
    BY <1>9, <2>1 DEF RowsSound, ReviewerRecorded, ApprovalFromReviewer, Exists,
                      SweepUnassign, TypeOK, Row
  <2>3. AllStepsSound
    BY <2>1 DEF AllStepsSound, StepSound, TakeoverIsNamed, CloseIsSignedOff,
                BounceRaisesCount, IsHandoff, IsBounce, TypeOK, Row
  <2> QED
    BY <1>9, <2>2, <2>3, SameHistory, PendingStaysSound DEF SweepUnassign
<1>10. ASSUME NEW a \in Agents, NEW t \in Tasks, Claim(a, t)
       PROVE  RowsSound' /\ PendingSound' /\ AllStepsSound
  BY <1>0, <1>10, FreshSound DEF Claim
<1>11. ASSUME NEW q \in Requests, NEW a \in Agents, NEW t \in Tasks, NextPull(q, a, t)
       PROVE  RowsSound' /\ PendingSound' /\ AllStepsSound
  <2>1. [task |-> t, puller |-> a] \notin Update
    <3> SUFFICES ASSUME [task |-> t, puller |-> a] \in Update PROVE FALSE
      OBVIOUS
    <3>1. DOMAIN [task |-> t, puller |-> a] = {"task", "puller"}
      OBVIOUS
    <3>2. "meta" \in DOMAIN [task |-> t, puller |-> a]
      BY DEF Update
    <3> QED
      BY <3>1, <3>2
  <2>2. \A p \in Requests : pending'[p] \in Update => pending'[p] = pending[p]
    BY <1>11, <2>1 DEF NextPull, TypeOK
  <2> QED
    BY <1>11, <2>2, SameRows, SameHistory, PendingStaysSound DEF NextPull
<1>12. ASSUME NEW a \in Agents, NEW t \in Tasks, NEW approve \in BOOLEAN,
              Review(a, t, approve)
       PROVE  RowsSound' /\ PendingSound' /\ AllStepsSound
  <2> DEFINE m == [row[t].meta EXCEPT !.approval = IF approve THEN a ELSE Rejected]
  <2>1. row[t] \in Row /\ row[t].meta \in Meta
        /\ row[t].status = "validating" /\ row[t].reviewer = a
    BY <1>12 DEF Review, TypeOK, Row
  <2>2. row'[t] = Written(row[t], Fresh(t, IF approve THEN "done" ELSE "keep", Keep, m))
        /\ \A s \in Tasks : s # t => row'[s] = row[s]
    BY <1>12 DEF Review, TypeOK
  <2>3. \A s \in Tasks : /\ history'[s].reviewers = history[s].reviewers
                         /\ history'[s].ungated = history[s].ungated
    BY <1>12 DEF Review, TypeOK, History
  <2>4. /\ row'[t].status = IF approve THEN "done" ELSE "validating"
        /\ row'[t].reviewer = a
        /\ row'[t].meta.approval = IF approve THEN a ELSE Rejected
    <3>1. m.approval = IF approve THEN a ELSE Rejected
      BY <2>1 DEF Meta
    <3> DEFINE u == Fresh(t, IF approve THEN "done" ELSE "keep", Keep, m)
    <3>2. u.status = (IF approve THEN "done" ELSE "keep") /\ u.reviewer = Keep
          /\ u.meta = m
      BY DEF Fresh
    <3> HIDE DEF u, m
    <3>3. NextStatus(row[t], u) = IF approve THEN "done" ELSE "validating"
      BY <2>1, <3>2 DEF NextStatus
    <3>4. NextReviewer(row[t], u) = a
      BY <2>1, <3>2 DEF NextReviewer
    <3>5. WrittenMeta(row[t], u) = m
      BY <3>2, <3>3 DEF WrittenMeta, IsBounce
    <3> QED
      BY <2>2, <3>1, <3>3, <3>4, <3>5 DEF Written, u
  <2>5. a \in history[t].reviewers
    BY <2>1, MarkersAssumption DEF RowsSound, ReviewerRecorded, Exists
  <2>6. RowsSound'
    <3>1. \A s \in Tasks : s # t => row'[s] = row[s]
      BY <2>2
    <3>2. ReviewerRecorded'
      BY <2>3, <2>4, <2>5, <3>1 DEF RowsSound, ReviewerRecorded, Exists
    <3>3. ApprovalFromReviewer'
      BY <2>3, <2>4, <2>5, <3>1, MarkersAssumption DEF RowsSound, ApprovalFromReviewer
    <3> QED
      BY <3>2, <3>3 DEF RowsSound
  <2>7. AllStepsSound
    <3> HIDE DEF m
    <3> QED
      BY <2>1, <2>2, <2>4 DEF AllStepsSound, StepSound, TakeoverIsNamed, SignedOff,
                  CloseIsSignedOff, BounceRaisesCount, IsHandoff, IsBounce
  <2> QED
    BY <1>12, <2>3, <2>6, <2>7, PendingStaysSound DEF Review, HistoryGrows
<1>13. ASSUME NEW t \in Tasks, NEW duplicate \in BOOLEAN, BulkClose(t, duplicate)
       PROVE  RowsSound' /\ PendingSound' /\ AllStepsSound
  <2> DEFINE m == [row[t].meta EXCEPT !.close =
                     IF duplicate /\ @ = "normal" THEN "duplicate" ELSE @]
             u == Fresh(t, "done", Keep, m)
  <2>1. row[t].meta \in Meta
    BY DEF TypeOK, Row
  <2>2. m \in Meta /\ m.approval = row[t].meta.approval
        /\ (duplicate \/ row[t].meta.close # "normal" => m.close # "normal")
    BY <2>1 DEF Meta
  <2>3. u \in Update
    BY <2>2, FreshType
  <2>4. SoundUpdate(u, history)
    BY <1>13, <2>2 DEF BulkClose, SignedOff, Unchecked, SoundUpdate, Fresh, RowsSound, ApprovalFromReviewer
  <2>5. UpdateTask(u) /\ UNCHANGED pending
    BY <1>13 DEF BulkClose
  <2> QED
    BY <1>0, <2>3, <2>4, <2>5
<1>14. ASSUME NEW idle \in SUBSET Agents, NEW overflow \in SUBSET Tasks,
              SweepScan(idle, overflow)
       PROVE  RowsSound' /\ PendingSound' /\ AllStepsSound
  BY <1>14, SameRows, SameHistory, PendingStaysSound DEF SweepScan
<1>15. CASE UNCHANGED vars
  BY <1>15, SameRows, SameHistory, PendingStaysSound DEF vars
<1> QED
  BY <1>1, <1>2, <1>3, <1>4, <1>5, <1>6, <1>7, <1>8, <1>9, <1>10, <1>11, <1>12,
     <1>13, <1>14, <1>15 DEF Next

\* The empty board satisfies the inductive invariant.
LEMMA SoundInit == Init => IInv
<1> SUFFICES ASSUME Init PROVE RowsSound /\ PendingSound
  BY TypeInit DEF IInv
<1>1. RowsSound
  BY MarkersAssumption DEF Init, RowsSound, ReviewerRecorded, ApprovalFromReviewer,
                           Exists, NoRow, NewMeta
<1>2. PendingSound
  BY IdleIsNoUpdate DEF Init, PendingSound
<1> QED
  BY <1>1, <1>2

\* The inductive invariant holds in every reachable state.
THEOREM Inductive == Spec => []IInv
<1>1. IInv /\ [Next]_vars => IInv'
  BY TypeStep, SoundStep DEF IInv
<1> QED
  BY SoundInit, <1>1, PTL DEF Spec

\* An approval in the metadata was always given by one who was the task's
\* reviewer, whatever requests were in flight (reviewer identity gate of PATCH,
\* reviewer check of POST review).
THEOREM ApprovalCorrect == Spec => []ApprovalFromReviewer
<1>1. IInv => ApprovalFromReviewer
  BY DEF IInv, RowsSound
<1> QED
  BY Inductive, <1>1, PTL

\* Each write by itself keeps the promises of TaskManager.updateTask.
LEMMA EveryStepSound == Spec => [][AllStepsSound]_vars
<1>1. IInv /\ [Next]_vars => AllStepsSound
  BY SoundStep
<1> QED
  BY Inductive, <1>1, PTL DEF Spec

\* A task in progress changes hands only with a handoff that names its new
\* owner (applyLaneStateLock).
THEOREM TakeoverCorrect == Spec => NoSilentTakeover
<1>1. AllStepsSound => \A t \in Tasks : TakeoverIsNamed(t)
  BY DEF AllStepsSound, StepSound
<1> QED
  BY EveryStepSound, <1>1, PTL DEF NoSilentTakeover

\* A task is closed only with an approval or as a duplicate (the close gate of
\* PATCH, POST review, bulk-close).
THEOREM CloseCorrect == Spec => ClosedOnlyWithSignOff
<1>1. AllStepsSound => \A t \in Tasks : CloseIsSignedOff(t)
  BY DEF AllStepsSound, StepSound
<1> QED
  BY EveryStepSound, <1>1, PTL DEF ClosedOnlyWithSignOff

\* Every bounce is counted once, on the stored count (applyLaneStateLock).
THEOREM BounceCorrect == Spec => BounceCounted
<1>1. AllStepsSound => \A t \in Tasks : BounceRaisesCount(t)
  BY DEF AllStepsSound, StepSound
<1> QED
  BY EveryStepSound, <1>1, PTL DEF BounceCounted
=============================================================================
