--------------------------- MODULE ExecutionSweeper ---------------------------
(***************************************************************************)
(* The execution sweeper (src/executionSweeper.ts) and the part of         *)
(* src/prAutoMerge.ts it calls: every few minutes, and on each request of  *)
(* GET /execution-health, it walks over the tasks in review, closes those  *)
(* that are approved or merged, hands back those without artifacts, and    *)
(* pages the reviewer of those nobody looks at, once per level.            *)
(*                                                                         *)
(* A sweep reads all rows first and handles them one by one; at the awaits *)
(* in between (updateTask waits for the cloud's table if one is set up,    *)
(* the constant Yields) other handlers run, and another sweep may.  It     *)
(* writes metadata back as it read it.                                     *)
(*                                                                         *)
(* "author" stands for every status of a task that is not in review and    *)
(* not closed.  What the other handlers do to a task is TaskBoard's; here  *)
(* each of them is one step.                                               *)
(*                                                                         *)
(* BoardSweepProofs extends this module and WorkingContract: what both     *)
(* would call Init, Next or Restart begins with Sweeper here.              *)
(***************************************************************************)
EXTENDS Integers, Sequences, FiniteSets

CONSTANTS
    SweptTasks,  \* all tasks of the board
    Sweeps,      \* bound: sweeps that may run at the same time
    Yields,      \* tasks are mirrored in the cloud: an updateTask really waits
    Sla,         \* VALIDATING_SLA_MS, VALIDATING_REASSIGN_MS, POST_MERGE_NUDGE_MS (2 h)
    Cooldown,    \* ESCALATION_COOLDOWN_MS (4 h)
    Critical,    \* VALIDATING_CRITICAL_MS (8 h)
    Day,         \* ARTIFACT_GRACE_MS, POST_MERGE_AUTOCLOSE_MS (24 h)
    MaxCount,    \* MAX_ESCALATION_COUNT (3)
    MaxMoves, MaxTime,   \* bounds: what people and GitHub do, and the clock
    MaxSweeperRestarts   \* bound: restarts

ASSUME ConstantsAssumption ==
    /\ Yields \in BOOLEAN
    /\ {Sla, Cooldown, Critical, Day} \subseteq Nat \ {0}
    /\ Sla <= Cooldown /\ Cooldown <= Critical /\ Critical <= Day
    /\ {MaxCount, MaxMoves, MaxTime, MaxSweeperRestarts} \subseteq Nat

VARIABLES
    rows,        \* the tasks table: status, and what the sweep reads of metadata
    merged,      \* the tasks whose pull request is merged at GitHub
    escalated,   \* escalated: by task, level and time of the last page; in memory
    sweeps,      \* by slot, the sweep that runs
    digests,     \* recentDigestFingerprints; in memory
    round,       \* how often the task has been submitted for review
    pages,       \* ghost: the levels recorded for the review that runs
    sent,        \* ghost: the pages of that review that were sent
    swallowed,   \* ghost: those recorded by a sweep that ended without sending them
    moves, sweeperRestarts, now

sweeperVars ==
    <<rows, merged, escalated, sweeps, digests, round, pages, sent, swallowed, moves,
      sweeperRestarts, now>>

Closed == {"done", "cancelled"}
Level == {"none", "warning", "critical"}
Time == 0 .. MaxTime
Meta == [entered : Time, since : Time, artifact : {"none", "qa", "pr"},
         duplicate : BOOLEAN, approved : BOOLEAN, decided : BOOLEAN,
         reassigned : BOOLEAN, nudged : BOOLEAN,
         level : Level, at : Time, count : 0 .. MaxCount]
NewMeta == [entered |-> 0, since |-> 0, artifact |-> "none", duplicate |-> FALSE,
            approved |-> FALSE, decided |-> FALSE, reassigned |-> FALSE,
            nudged |-> FALSE, level |-> "none", at |-> 0, count |-> 0]
SweptRow == [status : {"author", "validating"} \cup Closed,
             closer : {"nobody", "people", "sweep"}, meta : Meta]
Mark == [level : Level, at : Time]
Unmarked == [level |-> "none", at |-> 0]

\* left: the tasks a sweep has still to handle, as it read them; paging: the one whose
\* reviewer it has just replaced, with the mark it goes by; found: its violations.
Nothing == [t \in {} |-> Unmarked]
NoSweep == [runs |-> FALSE, start |-> 0, reports |-> FALSE, withPr |-> {},
            left |-> Nothing, paging |-> Nothing, found |-> {}]

SweeperInit ==
    /\ rows = [t \in SweptTasks |->
                  [status |-> "author", closer |-> "nobody", meta |-> NewMeta]]
    /\ merged = {} /\ escalated = [t \in SweptTasks |-> Unmarked]
    /\ sweeps = [s \in Sweeps |-> NoSweep] /\ digests = [d \in {} |-> 0]
    /\ round = [t \in SweptTasks |-> 0]
    /\ pages = [t \in SweptTasks |-> <<>>] /\ sent = {} /\ swallowed = {}
    /\ moves = 0 /\ sweeperRestarts = 0 /\ now = 0

-----------------------------------------------------------------------------
(* What people and GitHub do, in one step each (TaskBoard; POST /pr-event). *)

\* Nothing else runs between two awaits that do not wait.
Free == Yields \/ \A s \in Sweeps : ~sweeps[s].runs

Changed(t, status, closer, meta) ==
    rows' = [rows EXCEPT ![t] = [status |-> status, closer |-> closer, meta |-> meta]]

PeopleMove == Free /\ moves < MaxMoves /\ moves' = moves + 1

\* A PATCH to validating: the clock of the review starts, all else stays as it was.
Submit(t, artifact, duplicate) ==
    LET m == rows[t].meta IN
    /\ PeopleMove /\ rows[t].status = "author"
    /\ round' = [round EXCEPT ![t] = @ + 1]
    /\ Changed(t, "validating", "nobody",
               [m EXCEPT !.entered = now, !.since = now,
                         !.artifact = artifact, !.duplicate = duplicate])
    /\ pages' = [pages EXCEPT ![t] = <<>>] /\ sent' = {p \in sent : p[1] # t}
    /\ swallowed' = {p \in swallowed : p[1] # t}
    /\ UNCHANGED <<merged, escalated, sweeps, digests, sweeperRestarts, now>>

\* The reviewer says something, approves in metadata, or rejects in a review.
Review(t, verdict) ==
    LET m == [rows[t].meta EXCEPT !.since = now] IN
    /\ PeopleMove /\ rows[t].status = "validating"
    /\ Changed(t, "validating", "nobody",
               CASE verdict = "in_progress" -> m
                 [] verdict = "approve" -> [m EXCEPT !.approved = TRUE]
                 [] verdict = "reject" -> [m EXCEPT !.approved = FALSE, !.decided = TRUE])
    /\ UNCHANGED <<merged, escalated, sweeps, digests, round, pages, sent,
                   swallowed, sweeperRestarts, now>>

\* The task goes back to doing, is done or is cancelled.
Leave(t, status) ==
    LET m == rows[t].meta IN
    /\ PeopleMove /\ rows[t].status = "validating"
    /\ Changed(t, status, IF status = "author" THEN "nobody" ELSE "people",
               CASE status = "author" -> [m EXCEPT !.since = now]
                 [] status = "done" -> [m EXCEPT !.approved = TRUE]
                 [] status = "cancelled" -> [m EXCEPT !.approved = FALSE, !.decided = FALSE])
    /\ UNCHANGED <<merged, escalated, sweeps, digests, round, pages, sent,
                   swallowed, sweeperRestarts, now>>

\* tryAutoCloseTask: what the gates make of the row as it is.
Gated(row) ==
    IF row.status # "validating" \/ ~row.meta.approved \/ row.meta.decided THEN row
    ELSE IF row.meta.duplicate
    THEN [row EXCEPT !.status = "author", !.meta.approved = FALSE]
    ELSE [row EXCEPT !.status = "done", !.closer = "sweep"]

\* The pull request is merged; GitHub tells the node, or nobody does.
Merge(t, told) ==
    /\ PeopleMove /\ rows[t].meta.artifact = "pr" /\ t \notin merged
    /\ merged' = merged \cup {t}
    /\ rows' = IF told THEN [rows EXCEPT ![t] = Gated(@)] ELSE rows
    /\ UNCHANGED <<escalated, sweeps, digests, round, pages, sent,
                   swallowed, sweeperRestarts, now>>

-----------------------------------------------------------------------------
(* sweepValidatingQueue: it reads the tasks in review, *)

BeginSweep(s, reports) ==
    LET validating == {t \in SweptTasks : rows[t].status = "validating"} IN
    /\ Free /\ ~sweeps[s].runs
    /\ validating # {} \/ \E t \in SweptTasks : escalated[t] # Unmarked
    /\ sweeps' = [sweeps EXCEPT ![s] =
           [runs |-> TRUE, start |-> now, reports |-> reports,
            withPr |-> {t \in validating : rows[t].meta.artifact = "pr"},
            left |-> [t \in validating |-> rows[t].meta], paging |-> Nothing, found |-> {}]]
    /\ UNCHANGED <<rows, merged, escalated, digests, round, pages, sent, swallowed,
                   moves, sweeperRestarts, now>>

(* and handles them one by one: m is what it read of t. *)

Handled(s, t) ==
    [sweeps EXCEPT ![s].left = [u \in DOMAIN @ \ {t} |-> @[u]], ![s].paging = Nothing]
Unescalated(t) == [escalated EXCEPT ![t] = Unmarked]

TooOld(s, m) == sweeps[s].start - m.entered >= Day /\ m.artifact = "none"
Age(s, m) == sweeps[s].start - m.since

\* The auto-reject writes todo over whatever the task is by now.
RejectArtifacts(s, t, m) ==
    /\ TooOld(s, m)
    /\ Changed(t, "author", "nobody", [m EXCEPT !.approved = FALSE])
    /\ escalated' = Unescalated(t)
    /\ sweeps' = Handled(s, t) /\ UNCHANGED pages

\* Mutant: the row is not read again before the close.
CloseUnseen(t, m) == Changed(t, "done", "sweep", m)
\* Close what nobody has closed meanwhile; the metadata is written as it was read.
CloseUnlessClosed(t, m) ==
    IF rows[t].status \in Closed THEN UNCHANGED rows ELSE Changed(t, "done", "sweep", m)

\* Mutant: a reviewer's decision is looked at first.
ApprovedUndecided(m) == m.approved /\ ~m.decided
Approved(m) == m.approved
WaitsForAuthor(m) == m.decided

\* Approved, but still in review: closed, or handed back for want of references.
RepairApproved(s, t, m) ==
    /\ ~TooOld(s, m) /\ Approved(m)
    /\ IF m.duplicate
       THEN /\ Changed(t, "author", "nobody", [m EXCEPT !.approved = FALSE, !.decided = FALSE])
            /\ UNCHANGED escalated
       ELSE CloseUnlessClosed(t, m) /\ escalated' = Unescalated(t)
    /\ sweeps' = Handled(s, t) /\ UNCHANGED pages

SkipDecided(s, t, m) ==
    /\ ~TooOld(s, m) /\ ~Approved(m) /\ WaitsForAuthor(m)
    /\ sweeps' = Handled(s, t) /\ UNCHANGED <<rows, escalated, pages>>

\* Mutant: what the process forgot is forgotten.
MarkInMemory(t, m) == escalated[t]
\* The last page: as the process remembers it, or else as the row does.
MarkOf(t, m) ==
    IF escalated[t] = Unmarked THEN [level |-> m.level, at |-> m.at] ELSE escalated[t]

\* Another reviewer, once; the sweep then waits for the write, and goes on to page.
Reassign(s, t, m) ==
    /\ ~TooOld(s, m) /\ ~Approved(m) /\ ~WaitsForAuthor(m)
    /\ sweeps[s].paging = Nothing /\ Age(s, m) >= Sla /\ ~m.reassigned
    /\ rows' = [rows EXCEPT ![t].meta = [m EXCEPT !.reassigned = TRUE,
                                                  !.since = sweeps[s].start]]
    /\ escalated' = [escalated EXCEPT ![t] = MarkOf(t, m)]
    /\ sweeps' = [sweeps EXCEPT ![s].paging = [u \in {t} |-> MarkOf(t, m)]]
    /\ UNCHANGED pages

Silenced(s, m, mark) ==
    m.count >= MaxCount \/ (mark.level # "none" /\ sweeps[s].start - mark.at < Cooldown)
\* Mutant: a page of any level rules out the next.
CriticalFirst(s, m, mark) == Age(s, m) >= Critical /\ mark.level = "none"
CriticalDue(s, m, mark) == Age(s, m) >= Critical /\ mark.level # "critical"
WarningDue(s, m, mark) ==
    ~CriticalDue(s, m, mark) /\ Age(s, m) >= Sla /\ mark.level = "none"

Paged(s, t, m, level) ==
    /\ escalated' = [escalated EXCEPT ![t] = [level |-> level, at |-> sweeps[s].start]]
    /\ rows' = [rows EXCEPT ![t].meta.level = level, ![t].meta.at = sweeps[s].start,
                            ![t].meta.count = m.count + 1]
    /\ sweeps' = [Handled(s, t) EXCEPT ![s].found = @ \cup {<<t, level>>}]
    /\ pages' = [pages EXCEPT ![t] = Append(@, level)]

\* The pull request is merged: a close instead of the critical page, a comment instead
\* of the warning.  (The close after a day stands behind the warning, where the
\* critical page has always come first.)  A duplicate without references may not be
\* closed: updateTask throws, and the task stays in review.
SettleMerged(s, t, m, mark) ==
    /\ IF CriticalDue(s, m, mark)
       THEN IF m.duplicate THEN UNCHANGED rows ELSE
            CloseUnlessClosed(t, [m EXCEPT !.level = "none", !.at = 0, !.count = 0])
       ELSE rows' = IF m.nudged THEN rows ELSE [rows EXCEPT ![t].meta.nudged = TRUE]
    /\ escalated' = [escalated EXCEPT ![t] = mark]
    /\ sweeps' = Handled(s, t) /\ UNCHANGED pages

\* gh may fail to tell that a pull request is merged.
PageReviewer(s, t, m, asMerged) ==
    LET mark == IF t \in DOMAIN sweeps[s].paging THEN sweeps[s].paging[t] ELSE MarkOf(t, m)
        due  == ~Silenced(s, m, mark) /\ (CriticalDue(s, m, mark) \/ WarningDue(s, m, mark))
    IN
    /\ ~TooOld(s, m) /\ ~Approved(m) /\ ~WaitsForAuthor(m)
    /\ asMerged => due /\ m.artifact = "pr" /\ t \in merged
    /\ \/ ~due /\ escalated' = [escalated EXCEPT ![t] = mark]
          /\ sweeps' = Handled(s, t) /\ UNCHANGED <<rows, pages>>
       \/ due /\ asMerged /\ SettleMerged(s, t, m, mark)
       \/ due /\ ~asMerged
          /\ Paged(s, t, m, IF CriticalDue(s, m, mark) THEN "critical" ELSE "warning")

Handle(s, t) ==
    /\ t \in DOMAIN sweeps[s].left
    /\ DOMAIN sweeps[s].paging \subseteq {t}
    /\ LET m == sweeps[s].left[t] IN
       \/ RejectArtifacts(s, t, m) \/ RepairApproved(s, t, m) \/ SkipDecided(s, t, m)
       \/ Reassign(s, t, m) \/ \E asMerged \in BOOLEAN : PageReviewer(s, t, m, asMerged)
    /\ UNCHANGED <<merged, digests, round, sent, swallowed, moves, sweeperRestarts, now>>

-----------------------------------------------------------------------------
(* The end of a sweep: marks of tasks no longer in review are cleared, here and in  *)
(* the row; processAutoMerge puts merged tasks through their gates; what was found  *)
(* is sent, if the interval started the sweep.                                      *)

Gone == {t \in SweptTasks : escalated[t] # Unmarked /\ rows[t].status # "validating"}
Cleared(t) ==
    IF t \in Gone
    THEN [rows[t] EXCEPT !.meta.level = "none", !.meta.at = 0, !.meta.count = 0]
    ELSE rows[t]

\* escalateViolations, on the rows as they are then.
Live(found, table) ==
    {p \in found : table[p[1]].status \notin Closed /\ ~table[p[1]].meta.approved}
Recent == {d \in DOMAIN digests : now - digests[d] < Sla}
Dispatch(found) ==
    IF found = {} THEN UNCHANGED <<digests, sent>>
    ELSE /\ sent' = IF found \in Recent THEN sent ELSE sent \cup found
         /\ digests' = [d \in Recent \cup {found} |-> IF d \in Recent THEN digests[d] ELSE now]

Finish(s) ==
    /\ sweeps[s].runs /\ sweeps[s].left = Nothing
    /\ escalated' = [t \in SweptTasks |-> IF t \in Gone THEN Unmarked ELSE escalated[t]]
    /\ \E asMerged \in SUBSET (sweeps[s].withPr \cap merged) :
          rows' = [t \in SweptTasks |-> IF t \in asMerged THEN Gated(Cleared(t)) ELSE Cleared(t)]
    /\ IF sweeps[s].reports
       THEN Dispatch(Live(sweeps[s].found, rows')) /\ UNCHANGED swallowed
       ELSE swallowed' = swallowed \cup sweeps[s].found /\ UNCHANGED <<digests, sent>>
    /\ sweeps' = [sweeps EXCEPT ![s] = NoSweep]
    /\ UNCHANGED <<merged, round, pages, moves, sweeperRestarts, now>>

-----------------------------------------------------------------------------
\* The process dies, between any two writes; the table stays.
SweeperRestart ==
    /\ sweeperRestarts < MaxSweeperRestarts /\ sweeperRestarts' = sweeperRestarts + 1
    /\ escalated' = [t \in SweptTasks |-> Unmarked] /\ digests' = [d \in {} |-> 0]
    /\ sweeps' = [s \in Sweeps |-> NoSweep]
    /\ swallowed' = swallowed \cup UNION {sweeps[s].found : s \in Sweeps}
    /\ UNCHANGED <<rows, merged, round, pages, sent, moves, now>>

Tick ==
    /\ now < MaxTime /\ now' = now + 1
    /\ UNCHANGED <<rows, merged, escalated, sweeps, digests, round, pages, sent,
                   swallowed, moves, sweeperRestarts>>

SweeperNext ==
    \/ \E t \in SweptTasks, artifact \in {"none", "qa", "pr"}, duplicate \in BOOLEAN :
          Submit(t, artifact, duplicate)
    \/ \E t \in SweptTasks, verdict \in {"in_progress", "approve", "reject"} :
          Review(t, verdict)
    \/ \E t \in SweptTasks, status \in {"author", "done", "cancelled"} : Leave(t, status)
    \/ \E t \in SweptTasks, told \in BOOLEAN : Merge(t, told)
    \/ \E s \in Sweeps, reports \in BOOLEAN : BeginSweep(s, reports)
    \/ \E s \in Sweeps, t \in SweptTasks : Handle(s, t)
    \/ \E s \in Sweeps : Finish(s)
    \/ SweeperRestart \/ Tick

SweeperSpec == SweeperInit /\ [][SweeperNext]_sweeperVars

\* The interval never stops, a sweep goes on, and time passes.
FairSweeperSpec ==
    /\ SweeperSpec /\ WF_sweeperVars(Tick)
    /\ \A s \in Sweeps : /\ WF_sweeperVars(\E reports \in BOOLEAN : BeginSweep(s, reports))
                         /\ WF_sweeperVars(\E t \in SweptTasks : Handle(s, t))
                         /\ WF_sweeperVars(Finish(s))

-----------------------------------------------------------------------------
(******************************* properties *******************************)
SweeperTypeOK ==
    /\ rows \in [SweptTasks -> SweptRow] /\ merged \subseteq SweptTasks
    /\ escalated \in [SweptTasks -> Mark]
    /\ \A s \in Sweeps :
          /\ sweeps[s].start \in Time /\ DOMAIN sweeps[s].left \subseteq SweptTasks
          /\ DOMAIN sweeps[s].paging \subseteq DOMAIN sweeps[s].left
          /\ \A t \in DOMAIN sweeps[s].left : sweeps[s].left[t] \in Meta
          /\ sweeps[s].found \subseteq SweptTasks \X Level
    /\ round \in [SweptTasks -> 0 .. MaxMoves] /\ moves \in 0 .. MaxMoves
    /\ sweeperRestarts \in 0 .. MaxSweeperRestarts /\ now \in Time
    /\ \A t \in SweptTasks : \A i \in DOMAIN pages[t] : pages[t][i] \in Level

\* "Persistent escalation state (survives restarts)": in one review of a task its
\* reviewer is paged once per level at most, the critical page last, through
\* restarts between any two steps, replaced reviewers and sweeps that were
\* started by a query.
OncePerLevel ==
    \A t \in SweptTasks :
        pages[t] \in {<<>>, <<"warning">>, <<"critical">>, <<"warning", "critical">>}

\* "Already-closed tasks are skipped entirely": a task that people closed while a
\* sweep was waiting is not closed by the sweep again.
CloseStands ==
    [][\A t \in SweptTasks : rows[t].closer = "people" /\ rows'[t].status \in Closed
          => rows'[t].closer = "people"]_sweeperVars

\* A task that is approved but was left in review is closed, or handed back.
ApprovedIsSettled ==
    \A t \in SweptTasks : LET open == rows[t].status = "validating" /\ rows[t].meta.approved
                     IN  open ~> ~open

Unseen(t, since) ==
    /\ rows[t].status = "validating" /\ rows[t].meta.since = since
    /\ ~rows[t].meta.approved /\ ~rows[t].meta.decided /\ t \notin merged
\* The last moment for a warning is the one before the critical page is due, and
\* the cooldown runs from there.
EnoughTime(since) == since + (Critical - 1) + Cooldown <= MaxTime

\* A reviewer who does nothing gets a critical message in the end, in the first review
\* of a task: neither the cooldown, nor the count, nor the new reviewer, nor the
\* suppression of a repeated digest keeps it away; only a sweep that a query started,
\* or that a restart cut off, takes the level without sending it.
FirstReviewIsPaged ==
    \A t \in SweptTasks, since \in Time : EnoughTime(since) =>
        (Unseen(t, since) /\ round[t] = 1
            ~> ~Unseen(t, since) \/ <<t, "critical">> \in sent \cup swallowed)

\* The same of every review.
EveryReviewIsPaged ==
    \A t \in SweptTasks, since \in Time : EnoughTime(since) =>
        (Unseen(t, since) ~> ~Unseen(t, since) \/ <<t, "critical">> \in sent \cup swallowed)

\* "Escalates via chat messages when thresholds are breached": what the sweeper has
\* put down as escalated was sent, or the task has moved on.
EscalatedIsSent ==
    \A t \in SweptTasks :
        pages[t] = <<"warning">> ~>
            <<t, "warning">> \in sent \/ rows[t].status # "validating" \/ rows[t].meta.approved
                \/ pages[t] # <<"warning">>
=============================================================================
