----------------------------- MODULE MCTaskBoard -----------------------------
(* Instances of TaskBoard for TLC: the requests clients send. *)
EXTENDS TaskBoard, TLC

Blank == [status |-> "keep", assignee |-> Keep, reviewer |-> Keep, actor |-> Keep,
          approve |-> "keep", transition |-> NoTransition, close |-> "keep",
          reopen |-> FALSE, override |-> FALSE, verified |-> FALSE]
With(type, to) == [type |-> type, to |-> to]

StartBodies   == {[Blank EXCEPT !.status = "doing", !.assignee = a] : a \in Agents}
SubmitBody    == [Blank EXCEPT !.status = "validating"]
CloseBody     == [Blank EXCEPT !.status = "done"]
ReworkBody    == [Blank EXCEPT !.status = "doing"]
ExplainedReworkBody == [ReworkBody EXCEPT !.transition = With("bounce_back", Nobody)]
PauseBody     == [Blank EXCEPT !.status = "blocked",
                               !.transition = With("pause", Nobody)]
ResumeBody    == [Blank EXCEPT !.status = "doing",
                               !.transition = With("resume", Nobody)]
HandoffBodies == {[Blank EXCEPT !.assignee = a, !.transition = With("handoff", a)] :
                    a \in Agents}
AssignBodies  == {[Blank EXCEPT !.assignee = a] : a \in Agents}
ReviewerBodies == {[Blank EXCEPT !.reviewer = a] : a \in Agents}
ApproveBodies == {[Blank EXCEPT !.approve = "yes", !.actor = a] : a \in Agents}
TruthyBody    == [Blank EXCEPT !.approve = "truthy"]
OrphanBody    == [Blank EXCEPT !.reviewer = Nobody]
DisapproveBody == [Blank EXCEPT !.approve = "no"]
CancelBody    == [Blank EXCEPT !.status = "cancelled"]
ReopenBody    == [Blank EXCEPT !.status = "todo", !.reopen = TRUE]
\* Todo to done at once, with the reviewer that done needs.
ForcedCloseBodies == {[CloseBody EXCEPT !.reopen = TRUE, !.reviewer = a] : a \in Agents}
DuplicateBody == [CloseBody EXCEPT !.close = "duplicate"]

\* Who owns a task, besides claims, pulls and the sweep: handoff, submit, rework.
OwnershipBodies == {SubmitBody, ReworkBody} \cup HandoffBodies

\* Who signs a task off: approval, unchecked approval, change and loss of the
\* reviewer, close, close around the reviewer, rework, reopen.
SignOffBodies == {SubmitBody, CloseBody, ReworkBody, ReopenBody, OrphanBody, TruthyBody}
                 \cup ApproveBodies \cup ReviewerBodies \cup ForcedCloseBodies

\* Both, so that ownership and sign-off disturb each other; reopening and closing
\* around the reviewer are left to the instance with SignOffBodies.
BoardBodies == OwnershipBodies \cup ApproveBodies \cup ReviewerBodies
               \cup {CloseBody, OrphanBody, TruthyBody}

\* What POST /tasks makes: plain todos, a todo without a reviewer, and rows that
\* bring a status and an approval along.
Todos == [status : {"todo"}, assignee : Owner, reviewer : Agents, meta : {NewMeta}]
Brought == [status : {"todo", "validating", "done"}, assignee : {Nobody}, reviewer : Owner,
            meta : {NewMeta, [NewMeta EXCEPT !.approval = Claimed]}]

AllDrafts == Todos \cup Brought

\* One of each kind: todos with and without a reviewer, reviews and closed tasks
\* whose approval came with them.
BoardDrafts ==
    {d \in AllDrafts :
        /\ d.assignee = Nobody
        /\ (d.status = "todo") = (d.meta.approval = Nobody)
        /\ d.status = "todo" \/ d.reviewer # Nobody}

\* Most kinds of body, for the refutations.
AllBodies == BoardBodies \cup StartBodies \cup AssignBodies
             \cup {ReopenBody, ExplainedReworkBody, PauseBody, ResumeBody, DisapproveBody,
                   CancelBody, DuplicateBody}

\* Starting, submitting, pausing and reworking, for the refutations that need
\* many steps or two tasks.
StartSubmitBodies == StartBodies \cup {SubmitBody}
BounceBodies == {SubmitBody, ReworkBody, ExplainedReworkBody, PauseBody, ResumeBody}

Symmetry == Permutations(Agents) \cup Permutations(Requests)
=============================================================================
