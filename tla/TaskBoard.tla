------------------------------ MODULE TaskBoard ------------------------------
(***************************************************************************)
(* The task board of reflectt-node: the rows of the SQLite table "tasks"   *)
(* and the HTTP handlers and the sweep that gate or move a task.           *)
(*                                                                         *)
(* Node runs one handler at a time and yields only at an "await", so an    *)
(* action below is the code between two awaits.  A PATCH that the handler  *)
(* suspends (network call to GitHub, file-system probe, dynamic import) is *)
(* two actions: PatchAdmit reads the row and runs the gates, PatchCommit   *)
(* writes metadata computed from that earlier read.                        *)
(***************************************************************************)
EXTENDS Naturals, FiniteSets

CONSTANTS
    Tasks,      \* task ids
    Agents,     \* agent names (assignees, reviewers, actors)
    Nobody,     \* "unassigned" as an assignee, "not set" as an approval
    Rejected,   \* metadata.reviewer_approved = false
    Claimed,    \* reviewer_approved = true that came with POST /tasks
    Truthy,     \* reviewer_approved = "yes", 1, ...: true for an if, not for ===
    Keep,       \* a field the request body leaves out
    Requests,   \* slots for requests suspended at an await
    Bodies,     \* the PATCH bodies clients send
    Drafts,     \* the rows POST /tasks makes of its requests
    WipCap,     \* wipCap of TEAM-ROLES.yaml: doing tasks per agent
    TodoCap,    \* TODO_CAP of the hoarding guard
    MaxBounce   \* bound of the model: bounces TLC explores

Status  == {"absent", "todo", "doing", "blocked", "validating", "done",
            "cancelled", "deleted"}
Live    == Status \ {"absent", "deleted"}
Closed  == {"done", "cancelled"}
Owner   == Agents \cup {Nobody}

\* metadata.transition; "none" when the key is missing.
Transition   == [type : {"none", "pause", "resume", "handoff", "bounce_back"},
                 to : Owner]
NoTransition == [type |-> "none", to |-> Nobody]

\* The metadata keys the gates read.  approval: the agent whose approval
\* an identity check let set reviewer_approved = true, Rejected for false, Nobody
\* when unset; Claimed and Truthy are values that no identity check has seen.
\* close: metadata.close_reason, a duplicate with or without canonical refs.
Unchecked == {Claimed, Truthy}
Meta == [approval : Owner \cup {Rejected} \cup Unchecked, bounces : Nat,
         transition : Transition,
         close : {"normal", "duplicate", "duplicate_with_refs"},
         reopen : BOOLEAN]
NewMeta == [approval |-> Nobody, bounces |-> 0, transition |-> NoTransition,
            close |-> "normal", reopen |-> FALSE]

Row == [status : Status, assignee : Owner, reviewer : Owner, meta : Meta]
NoRow == [status |-> "absent", assignee |-> Nobody, reviewer |-> Nobody,
          meta |-> NewMeta]

\* A new row: status, assignee and metadata are the client's, but nobody has
\* checked an approval yet.
Draft == {d \in Row : d.status \in Live /\ d.meta.approval \notin Agents}

\* A PATCH body: the fields of UpdateTaskSchema the handler acts on.  "" and
\* "unassigned" clear the assignee, "" clears the reviewer.
Body == [status : Live \cup {"keep"}, assignee : Owner \cup {Keep},
         reviewer : Owner \cup {Keep}, actor : Agents \cup {Keep},
         approve : {"keep", "yes", "no", "truthy"}, transition : Transition,
         close : {"keep", "duplicate", "duplicate_with_refs"},
         reopen : BOOLEAN, override : BOOLEAN, verified : BOOLEAN]

\* What a handler hands to TaskManager.updateTask; explained and approves
\* record whether the request itself carried a transition or an approval,
\* unreviewed whether the row had no reviewer when the gates looked at it.
Update == [task : Tasks, status : Live \cup {"keep"},
           assignee : Owner \cup {Keep}, reviewer : Owner \cup {Keep},
           meta : Meta, explained : BOOLEAN, approves : BOOLEAN,
           unreviewed : BOOLEAN]
Pull == [task : Tasks, puller : Agents]
Idle == [task |-> Nobody]

ASSUME MarkersAssumption ==
    /\ Agents \cap {Nobody, Rejected, Keep, Claimed, Truthy} = {}
    /\ Nobody \notin {Rejected, Keep, Claimed, Truthy}
    /\ Rejected \notin {Keep, Claimed, Truthy}
    /\ Keep \notin {Claimed, Truthy} /\ Claimed # Truthy
    /\ Nobody \notin Tasks
ASSUME BodiesAssumption == Bodies \subseteq Body
ASSUME DraftsAssumption == Drafts \subseteq Draft
ASSUME BoundsAssumption ==
    WipCap \in Nat /\ TodoCap \in Nat /\ MaxBounce \in Nat

VARIABLES
    row,      \* the tasks table
    pending,  \* suspended requests: the update a PATCH will write, or the
              \* task GET /tasks/next?claim=1 has selected for an agent
    sweep,    \* tasks the running hoarding sweep still has to unassign
    history   \* what happened to a task (read by the properties only)
vars == <<row, pending, sweep, history>>

\* reviewers: who has been the reviewer; verdict: the latest decision; explained
\* and unreviewed: of the last write; ungated: an approval was once accepted
\* while the task had no reviewer to compare the actor with.
History == [reviewers : SUBSET Agents, verdict : {"none", "approve", "reject"},
            explained : BOOLEAN, unreviewed : BOOLEAN, ungated : BOOLEAN]
NoHistory == [reviewers |-> {}, verdict |-> "none", explained |-> FALSE,
              unreviewed |-> FALSE, ungated |-> FALSE]

TypeOK ==
    /\ row \in [Tasks -> Row]
    /\ pending \in [Requests -> Update \cup Pull \cup {Idle}]
    /\ sweep \in SUBSET Tasks
    /\ history \in [Tasks -> History]

Exists(t) == row[t].status \in Live
Holding(a, st) == {t \in Tasks : row[t].status = st /\ row[t].assignee = a}

Init ==
    /\ row = [t \in Tasks |-> NoRow]
    /\ pending = [q \in Requests |-> Idle]
    /\ sweep = {}
    /\ history = [t \in Tasks |-> NoHistory]

-----------------------------------------------------------------------------
(***************************** TaskManager ********************************)

\* Mutants (the runs must refute them): undefined overwrites the old owner.
AssigneeOverwritten(r, u) == u.assignee

NextStatus(r, u)   == IF u.status = "keep" THEN r.status ELSE u.status
NextAssignee(r, u) == IF u.assignee = Keep THEN r.assignee ELSE u.assignee
NextReviewer(r, u) == IF u.reviewer = Keep THEN r.reviewer ELSE u.reviewer

IsBounce(r, st)   == r.status = "validating" /\ st = "doing"
IsHandoff(r, st, a) == r.status = "doing" /\ st = "doing" /\ a # r.assignee

\* Mutant: any handoff will do, whoever it names.
LaneLockWithoutTarget(r, st, a, tr) ==
    /\ IsBounce(r, st) /\ r.meta.bounces >= 2 => tr.type # "none"
    /\ r.status = "doing" /\ st = "blocked" => tr.type = "pause"
    /\ r.status = "blocked" /\ st = "doing" => tr.type = "resume"
    /\ IsHandoff(r, st, a) => tr.type = "handoff"

\* applyLaneStateLock: the transition metadata a change of state must carry.
\* r is the row at the moment of the write, not the row the handler read.
LaneLock(r, st, a, tr) ==
    /\ IsBounce(r, st) /\ r.meta.bounces >= 2 => tr.type # "none"
    /\ r.status = "doing" /\ st = "blocked" => tr.type = "pause"
    /\ r.status = "blocked" /\ st = "doing" => tr.type = "resume"
    /\ IsHandoff(r, st, a) => tr.type = "handoff" /\ tr.to = a

\* { ...task.metadata, ...updates.metadata }: a key the update lacks survives.
Overlay(old, new) ==
    [new EXCEPT
        !.approval = IF @ = Nobody THEN old.approval ELSE @,
        !.transition = IF @ = NoTransition THEN old.transition ELSE @,
        !.close = IF @ = "normal" THEN old.close ELSE @,
        !.reopen = @ \/ old.reopen]

\* Mutant: the bounce is counted on the caller's snapshot.
MetaCountedOnSnapshot(r, u) ==
    IF IsBounce(r, NextStatus(r, u))
    THEN [Overlay(r.meta, u.meta) EXCEPT !.bounces = u.meta.bounces + 1]
    ELSE u.meta

\* The metadata updateTask writes: the caller's object as it stands, except
\* that a bounce is counted on top of the row's own count.
WrittenMeta(r, u) ==
    IF IsBounce(r, NextStatus(r, u))
    THEN [Overlay(r.meta, u.meta) EXCEPT !.bounces = r.meta.bounces + 1]
    ELSE u.meta

Written(r, u) ==
    [status |-> NextStatus(r, u), assignee |-> NextAssignee(r, u),
     reviewer |-> NextReviewer(r, u), meta |-> WrittenMeta(r, u)]

\* validateLifecycleGates: nothing but a todo does without a reviewer.
LifecycleGate(r) == r.status = "todo" \/ r.reviewer \in Agents

\* updateTask up to its first await: lane lock and lifecycle gate, then the
\* write of the row.
UpdateTask(u) ==
    LET r == row[u.task] IN
    /\ Exists(u.task)
    /\ LaneLock(r, NextStatus(r, u), NextAssignee(r, u), u.meta.transition)
    /\ IsBounce(r, NextStatus(r, u)) => r.meta.bounces < MaxBounce
    /\ LifecycleGate(Written(r, u))
    /\ row' = [row EXCEPT ![u.task] = Written(r, u)]
    /\ history' = [history EXCEPT ![u.task] =
            [reviewers |-> @.reviewers \cup ({NextReviewer(r, u)} \cap Agents),
             verdict |-> IF u.approves THEN "approve" ELSE @.verdict,
             explained |-> u.explained,
             unreviewed |-> u.unreviewed,
             ungated |-> @.ungated \/ (u.approves /\ u.unreviewed)]]

\* The update of a handler that spreads the row it has just read.
Fresh(t, st, a, m) ==
    [task |-> t, status |-> st, assignee |-> a, reviewer |-> Keep, meta |-> m,
     explained |-> FALSE, approves |-> FALSE, unreviewed |-> FALSE]

-----------------------------------------------------------------------------
(****************************** PATCH /tasks/:id **************************)

Target(r, b) == IF b.status = "keep" THEN r.status ELSE b.status

ALLOWED_TRANSITIONS ==
    {<<"todo", "doing">>, <<"todo", "cancelled">>,
     <<"doing", "blocked">>, <<"doing", "validating">>, <<"doing", "cancelled">>,
     <<"blocked", "doing">>, <<"blocked", "todo">>, <<"blocked", "cancelled">>,
     <<"validating", "done">>, <<"validating", "doing">>}

InOrder(r, b) ==
    \/ Target(r, b) = r.status
    \/ <<r.status, b.status>> \in ALLOWED_TRANSITIONS
    \/ r.status = "todo" /\ b.status = "validating" /\ b.verified

\* { ...existing.metadata, ...incoming }, then applyReviewStateMetadata and
\* the stamps of the reopen and reviewer-identity gates.
MergedMeta(r, b) ==
    [r.meta EXCEPT
        !.approval = CASE Target(r, b) = "cancelled" -> Nobody
                       [] b.approve = "yes" -> b.actor
                       [] b.approve = "no" -> Rejected
                       [] b.approve = "truthy" -> Truthy
                       [] OTHER -> @,
        !.transition = IF b.transition = NoTransition THEN @ ELSE b.transition,
        !.close = IF b.close = "keep" THEN @ ELSE b.close,
        !.reopen = @ \/ ~InOrder(r, b)]

StateMachineGate(r, b) == InOrder(r, b) \/ b.reopen
\* Mutant: any named actor may approve.
AnyActorApproves(r, b) == b.approve = "yes" => b.actor # Keep
\* Asked only of reviewer_approved === true, and answered by anybody when the
\* row has no reviewer.
ReviewerIdentityGate(r, b) ==
    b.approve = "yes" => b.actor # Keep /\ r.reviewer \in {b.actor, Nobody}
QaBundleGate(r, b) ==
    b.status = "validating" => MergedMeta(r, b).close # "duplicate"
\* Mutant: only an explicit rejection stops the close.
CloseUnlessRejected(r, b) ==
    b.status = "done" =>
        \/ MergedMeta(r, b).close # "normal"
        \/ MergedMeta(r, b).approval # Rejected
\* Any truthy value signs off, and without a reviewer nothing has to.
SignedOff == Agents \cup Unchecked
SignOffGate(r, b) ==
    b.status = "done" =>
        \/ r.reviewer = Nobody
        \/ MergedMeta(r, b).close # "normal"
        \/ MergedMeta(r, b).approval \in SignedOff
WipGate(r, b) ==
    LET a == IF b.assignee = Keep THEN r.assignee ELSE b.assignee IN
    b.status = "doing" /\ r.status # "doing" /\ a \in Agents =>
        Cardinality(Holding(a, "doing")) < WipCap \/ b.override

PatchGates(r, b) ==
    /\ StateMachineGate(r, b)
    /\ ReviewerIdentityGate(r, b)
    /\ QaBundleGate(r, b)
    /\ SignOffGate(r, b)
    /\ WipGate(r, b)

\* The updates object the handler builds from the row it read.
PatchUpdate(t, b) ==
    [task |-> t, status |-> b.status, assignee |-> b.assignee,
     reviewer |-> b.reviewer, meta |-> MergedMeta(row[t], b),
     explained |-> b.transition # NoTransition, approves |-> b.approve = "yes",
     unreviewed |-> row[t].reviewer = Nobody]

\* The handler awaits I/O: PR state for done, artifact probe for validating,
\* dynamic imports of the claim gates for a start.
Suspends(r, b) ==
    \/ b.status = "done"
    \/ Target(r, b) = "validating"
    \/ b.status = "doing" /\ r.status # "doing"

\* No other handler runs between the read and the write.
PatchNow(t, b) ==
    /\ Exists(t) /\ PatchGates(row[t], b)
    /\ UpdateTask(PatchUpdate(t, b))
    /\ UNCHANGED <<pending, sweep>>

PatchAdmit(q, t, b) ==
    /\ pending[q] = Idle
    /\ Exists(t) /\ PatchGates(row[t], b) /\ Suspends(row[t], b)
    /\ pending' = [pending EXCEPT ![q] = PatchUpdate(t, b)]
    /\ UNCHANGED <<row, sweep, history>>

PatchCommit(q) ==
    /\ pending[q] \in Update
    /\ UpdateTask(pending[q])
    /\ pending' = [pending EXCEPT ![q] = Idle]
    /\ UNCHANGED sweep

\* A gate behind the await refuses (open PR, artifact not retrievable, lane
\* mismatch, overdue reflection), the lane lock throws or the row is gone.
PatchRefuse(q) ==
    /\ pending[q] \in Update
    /\ pending' = [pending EXCEPT ![q] = Idle]
    /\ UNCHANGED <<row, sweep, history>>

-----------------------------------------------------------------------------
(**************************** the other handlers **************************)

\* POST /tasks: status and metadata are stored as the client sends them; the
\* lifecycle gate is the only one.  'auto' finds a reviewer if there is an agent.
Create(t, d) ==
    /\ row[t].status = "absent" /\ LifecycleGate(d)
    /\ row' = [row EXCEPT ![t] = d]
    /\ history' = [history EXCEPT ![t].reviewers = @ \cup ({d.reviewer} \cap Agents)]
    /\ UNCHANGED <<pending, sweep>>

\* DELETE /tasks/:id
Delete(t) ==
    /\ Exists(t)
    /\ row' = [row EXCEPT ![t].status = "deleted"]
    /\ UNCHANGED <<pending, sweep, history>>

\* POST /tasks/:id/claim: first claim wins; the status is not looked at.
Claim(a, t) ==
    /\ Exists(t) /\ row[t].assignee = Nobody
    /\ UpdateTask(Fresh(t, "doing", a, row[t].meta))
    /\ UNCHANGED <<pending, sweep>>

\* GET /tasks/next?claim=1 up to the import of the claim helper.  The lane,
\* priority and blocked_by filters only narrow the choice and are left out.
NextPull(q, a, t) ==
    /\ pending[q] = Idle
    /\ row[t].status = "todo" /\ row[t].assignee \in {a, Nobody}
    /\ Holding(a, "doing") = {}
    /\ pending' = [pending EXCEPT ![q] = [task |-> t, puller |-> a]]
    /\ UNCHANGED <<row, sweep, history>>

\* claimTask: re-reads the status, not the assignee; updateTask throws for a
\* task without a reviewer.
NextClaim(q) ==
    LET t == pending[q].task IN
    /\ pending[q] \in Pull
    /\ pending' = [pending EXCEPT ![q] = Idle]
    /\ IF row[t].status = "todo" /\ row[t].reviewer # Nobody
       THEN UpdateTask(Fresh(t, "doing", pending[q].puller, row[t].meta))
       ELSE UNCHANGED <<row, history>>
    /\ UNCHANGED sweep

\* POST /tasks/:id/review: an approval closes the task in the same write.
Review(a, t, approve) ==
    LET st == IF approve THEN "done" ELSE "keep"
        m  == [row[t].meta EXCEPT !.approval = IF approve THEN a ELSE Rejected]
    IN  /\ row[t].status = "validating" /\ row[t].reviewer = a
        /\ row' = [row EXCEPT ![t] = Written(@, Fresh(t, st, Keep, m))]
        /\ history' = [history EXCEPT
                            ![t].verdict = IF approve THEN "approve" ELSE "reject",
                            ![t].unreviewed = FALSE]
        /\ UNCHANGED <<pending, sweep>>

\* POST /tasks/:id/cancel
Cancel(t) ==
    /\ Exists(t) /\ row[t].status \notin Closed
    /\ UpdateTask(Fresh(t, "cancelled", Keep, row[t].meta))
    /\ UNCHANGED <<pending, sweep>>

\* POST /tasks/bulk-close, one id; reason = duplicate/superseded or none.
BulkClose(t, duplicate) ==
    /\ row[t].status = "validating"
    /\ \/ row[t].meta.approval \in Agents \cup {Claimed}
       \/ duplicate
       \/ row[t].meta.close # "normal"
    /\ UpdateTask(Fresh(t, "done", Keep,
            [row[t].meta EXCEPT !.close =
                IF duplicate /\ @ = "normal" THEN "duplicate" ELSE @]))
    /\ UNCHANGED <<pending, sweep>>

\* sweepTodoHoarding: the snapshot picks, for every idle agent with no doing
\* task, all but TodoCap of its todos.
SweepScan(idle, overflow) ==
    /\ sweep = {} /\ overflow # {}
    /\ \A t \in overflow : row[t].status = "todo" /\ row[t].assignee \in idle
    /\ \A a \in idle :
         /\ Holding(a, "doing") = {}
         /\ Cardinality(Holding(a, "todo") \ overflow) = TodoCap
    /\ sweep' = overflow
    /\ UNCHANGED <<row, pending, history>>

\* One updateTask of the sweep's loop, with no metadata.  The lane lock
\* throws for a task that is being worked on, which ends the whole sweep.
SweepUnassign(t) ==
    /\ t \in sweep
    /\ IF Exists(t) /\ IsHandoff(row[t], row[t].status, Nobody)
       THEN sweep' = {} /\ UNCHANGED row
       ELSE /\ sweep' = sweep \ {t}
            /\ row' = IF Exists(t) THEN [row EXCEPT ![t].assignee = Nobody]
                                   ELSE row
    /\ UNCHANGED <<pending, history>>

Next ==
    \/ \E t \in Tasks, d \in Drafts : Create(t, d)
    \/ \E t \in Tasks, b \in Bodies : PatchNow(t, b)
    \/ \E q \in Requests, t \in Tasks, b \in Bodies : PatchAdmit(q, t, b)
    \/ \E q \in Requests : PatchCommit(q) \/ PatchRefuse(q) \/ NextClaim(q)
    \/ \E t \in Tasks : Delete(t) \/ Cancel(t) \/ SweepUnassign(t)
    \/ \E a \in Agents, t \in Tasks : Claim(a, t)
    \/ \E q \in Requests, a \in Agents, t \in Tasks : NextPull(q, a, t)
    \/ \E a \in Agents, t \in Tasks, approve \in BOOLEAN : Review(a, t, approve)
    \/ \E t \in Tasks, duplicate \in BOOLEAN : BulkClose(t, duplicate)
    \/ \E idle \in SUBSET Agents, overflow \in SUBSET Tasks :
            SweepScan(idle, overflow)

Spec == Init /\ [][Next]_vars

-----------------------------------------------------------------------------
(******************************* properties *******************************)

TakeoverIsNamed(t) ==
    IsHandoff(row[t], row'[t].status, row'[t].assignee) =>
        row'[t].meta.transition = [type |-> "handoff", to |-> row'[t].assignee]

\* Nobody takes over a task that is being worked on without a handoff that
\* names the new owner: neither a racing claim, nor a PATCH computed from an
\* older row, nor the hoarding sweep (applyLaneStateLock checks the row it
\* is about to overwrite).
NoSilentTakeover == [][\A t \in Tasks : TakeoverIsNamed(t)]_vars

CloseIsSignedOff(t) ==
    row[t].status \in Live \ {"done"} /\ row'[t].status = "done" =>
        \/ row'[t].meta.approval \in SignedOff
        \/ row'[t].meta.close # "normal"
        \/ history'[t].unreviewed

\* A task of the board is closed only with a sign-off in the metadata that is
\* written with it, as a duplicate, or by a request whose gates found no reviewer
\* on the row: also when the close was computed before an await and lands on a
\* row that has changed since.  (POST /tasks may put a task on the board that is
\* already done; what the sign-off is worth is ApprovalFromReviewer.)
ClosedOnlyWithSignOff == [][\A t \in Tasks : CloseIsSignedOff(t)]_vars

\* Whoever's approval a task carries was its reviewer at some time, unless an
\* approval was accepted while it had none: the identity gates of PATCH and POST
\* review hold across reviewer changes and across requests in flight while the
\* reviewer is replaced or cleared.  (Claimed and Truthy name nobody; see
\* SignedOffByReviewer.)
ApprovalFromReviewer ==
    \A t \in Tasks :
        row[t].meta.approval \in Agents =>
            \/ row[t].meta.approval \in history[t].reviewers
            \/ history[t].ungated

BounceRaisesCount(t) ==
    IsBounce(row[t], row'[t].status) =>
        row'[t].meta.bounces = row[t].meta.bounces + 1

\* Rework is counted on the row itself: a bounce raises the stored count by
\* one even when the PATCH carries metadata from an older snapshot.
BounceCounted == [][\A t \in Tasks : BounceRaisesCount(t)]_vars

-----------------------------------------------------------------------------
(* What comments, docs and tests of the repository say and the code does not
   do; TLC refutes each of these. *)

\* "Task-close gate: enforce proof + reviewer sign-off before done": a task that
\* leaves review as done, and not as a duplicate, has an approval that an identity
\* check has seen (reviewer_approved from POST /tasks, or a truthy value that is
\* not true, closes it as well).
SignedOffByReviewer ==
    [][\A t \in Tasks :
        /\ row[t].status = "validating" /\ row'[t].status = "done"
        /\ row'[t].meta.close = "normal"
        => row'[t].meta.approval \in Agents
      ]_vars

\* "all exits require reopen": a done or cancelled task moves again only with
\* metadata.reopen (the claim route and a stale PATCH do not ask for it).
TerminalNeedsReopen ==
    [][\A t \in Tasks :
        /\ row[t].status \in Closed
        /\ row'[t].status \in Live \ {row[t].status}
        => row'[t].meta.reopen
      ]_vars

\* "assigned reviewer must approve": a task is not closed while the reviewer's
\* latest decision on it is a rejection (a PATCH admitted before the rejection
\* writes the old approval back and closes).
NoCloseAgainstRejection ==
    [][\A t \in Tasks :
        /\ row[t].status # "done" /\ row'[t].status = "done"
        /\ row'[t].meta.close = "normal"
        => history'[t].verdict # "reject"
      ]_vars

\* "On the 3rd bounce, a documented reason is required": the request that
\* bounces the task again carries the reason (an old metadata.transition that
\* stays in the row is accepted instead).
LateBounceExplained ==
    [][\A t \in Tasks :
        IsBounce(row[t], row'[t].status) /\ row[t].meta.bounces >= 2 =>
            history'[t].explained
      ]_vars

\* The hoarding sweep unassigns todos (its snapshot may be of a task that has
\* since been worked on and is now in review or closed).
SweepOnlyTodos ==
    [][\A t \in Tasks :
        row[t].assignee # Nobody /\ row'[t].assignee = Nobody =>
            row[t].status = "todo"
      ]_vars
=============================================================================
