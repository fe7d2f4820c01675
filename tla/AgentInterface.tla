---------------------------- MODULE AgentInterface ----------------------------
(***************************************************************************)
(* Runs of the agent interface: software actions on behalf of a human (a   *)
(* GitHub issue, a UI action on macOS) behind an approval gate with a      *)
(* timeout, a kill switch and an out-of-band abort.                        *)
(*                                                                         *)
(* The executor of a run is an async function.  cont says at which await   *)
(* it stands; "yes" and "no" mean that the promise of the gate is settled  *)
(* and the continuation waits in the microtask queue, which Node empties   *)
(* before it runs another handler or timer.                                *)
(***************************************************************************)
CONSTANT Runs

VARIABLES
    run,      \* the run store
    pending,  \* pendingApprovals: runs with an entry in the map
    timer,    \* runs whose approval timeout has not fired yet
    cont,     \* where each executor stands
    kill,     \* KILL_SWITCH_ENGAGED
    history   \* runs a human approved, runs whose action left the process
vars == <<run, pending, timer, cont, kill, history>>

RunKind   == {"github_issue_create", "macos_ui_action"}
RunStatus == {"none", "running", "awaiting_approval", "completed", "failed",
              "rejected", "aborted"}
Ended     == {"completed", "failed", "rejected", "aborted"}

\* What a client submits.  complete: repo, title and body are there; allowed:
\* the guardrail accepts the target; text: what the body, or the text the intent
\* types, is, for JSON may hold a list (it has slice, not replace) or anything
\* else (it has neither).  The route validates macOS intents first.
Input == {i \in [kind : RunKind, complete : BOOLEAN, allowed : BOOLEAN,
                 irreversible : BOOLEAN, dryRun : BOOLEAN,
                 text : {"string", "list", "other"}] :
            /\ i.kind = "github_issue_create" => i.irreversible
            /\ i.kind = "macos_ui_action" => i.complete /\ i.allowed}

NoRun == [status |-> "none", outcome |-> "none", input |-> CHOOSE i \in Input : TRUE]
Cont  == {"none", "gate", "yes", "no", "submit", "execute", "end"}

TypeOK ==
    /\ run \in [Runs -> [status : RunStatus, outcome : Ended \cup {"none"},
                         input : Input]]
    /\ pending \subseteq Runs /\ timer \subseteq Runs
    /\ cont \in [Runs -> Cont]
    /\ kill \in BOOLEAN
    /\ history \in [approved : SUBSET Runs, performed : SUBSET Runs]

Init ==
    /\ run = [r \in Runs |-> NoRun]
    /\ pending = {} /\ timer = {}
    /\ cont = [r \in Runs |-> "none"]
    /\ kill = FALSE
    /\ history = [approved |-> {}, performed |-> {}]

\* No continuation is queued, so the event loop may take the next macrotask.
Quiet == \A r \in Runs : cont[r] \notin {"yes", "no"}

Close(r, outcome) == [run EXCEPT ![r].status = outcome, ![r].outcome = outcome]

-----------------------------------------------------------------------------
(******************************* executors ********************************)

\* The intent's text is no string: building the AppleScript throws.
Throws(i) == i.kind = "macos_ui_action" /\ i.text # "string"

\* The action, unless something keeps it from leaving the process.  Answers
\* that need no I/O end the run in the same turn of the event loop; a throw
\* ends the executor and leaves the run as it is (the route only logs it).
Attempt(r, i, works) ==
    LET end == IF works THEN "completed" ELSE "failed" IN
    IF i.dryRun \/ ~works
    THEN /\ run' = [run EXCEPT ![r] = [status |-> end, outcome |-> end, input |-> i]]
         /\ cont' = [cont EXCEPT ![r] = "end"]
         /\ UNCHANGED history
    ELSE /\ run' = [run EXCEPT ![r] = [status |-> "running", outcome |-> @.outcome,
                                       input |-> i]]
         /\ cont' = [cont EXCEPT ![r] =
                        IF Throws(i) THEN "end"
                        ELSE IF i.kind = "macos_ui_action" THEN "execute" ELSE "submit"]
         /\ history' = [history EXCEPT !.performed =
                           IF Throws(i) THEN @ ELSE @ \cup {r}]

\* Mutant: the kill switch is only looked at when a run is created.
PerformWithoutKillCheck(r, i, works) == Attempt(r, i, i.dryRun \/ works)

CanPerform(i, works) == (i.dryRun \/ works) /\ ~(kill /\ i.kind = "macos_ui_action")

\* The executor behind the gate.  works is false when there is no GITHUB_TOKEN
\* or the intent is not implemented.
Perform(r, i, works) == Attempt(r, i, CanPerform(i, works))

\* A run the guardrail has failed is asked about like any other.
Announce(r, i) ==
    /\ run' = [run EXCEPT ![r] = [status |-> "awaiting_approval",
                    outcome |-> IF i.allowed THEN "none" ELSE "failed", input |-> i]]
    /\ UNCHANGED history
EnterGate(r) ==
    /\ cont' = [cont EXCEPT ![r] = "gate"]
    /\ pending' = pending \cup {r}

\* Mutant: no timeout is armed for the gate.
AskWithoutTimeout(r, i) == Announce(r, i) /\ EnterGate(r) /\ UNCHANGED timer
\* The state changes first; the preview of a text that cannot be sliced then
\* throws, and the run is neither in the map nor has it a timer.
Ask(r, i) ==
    /\ Announce(r, i)
    /\ \/ i.text # "other" /\ EnterGate(r) /\ timer' = timer \cup {r}
       \/ /\ i.text = "other"
          /\ cont' = [cont EXCEPT ![r] = "end"]
          /\ UNCHANGED <<pending, timer>>

\* POST /agent-interface/runs: createRun, then the executor to its first await.
Create(r, i, works) ==
    /\ Quiet /\ cont[r] = "none"
    /\ i.kind = "macos_ui_action" => ~kill
    /\ CASE ~i.complete ->
              /\ run' = [run EXCEPT ![r] = [status |-> "failed", outcome |-> "failed",
                                            input |-> i]]
              /\ cont' = [cont EXCEPT ![r] = "end"]
              /\ UNCHANGED <<pending, timer, history>>
         [] i.complete /\ i.irreversible -> Ask(r, i)
         [] OTHER -> Perform(r, i, works) /\ UNCHANGED <<pending, timer>>
    /\ UNCHANGED kill

\* The continuation of the gate.
Resume(r, works) ==
    /\ \/ /\ cont[r] = "no"
          /\ run' = Close(r, "rejected")
          /\ cont' = [cont EXCEPT ![r] = "end"]
          /\ UNCHANGED history
       \/ cont[r] = "yes" /\ Perform(r, run[r].input, works)
    /\ UNCHANGED <<pending, timer, kill>>

\* The answer of GitHub or of osascript, or their timeout.  Only the macOS
\* executor looks whether the run was aborted in the meantime.
Finish(r, ok) ==
    /\ Quiet /\ cont[r] \in {"submit", "execute"}
    /\ cont' = [cont EXCEPT ![r] = "end"]
    /\ run' = IF cont[r] = "execute" /\ run[r].status = "aborted" THEN run
              ELSE Close(r, IF ok THEN "completed" ELSE "failed")
    /\ UNCHANGED <<pending, timer, kill, history>>

-----------------------------------------------------------------------------
(************************* decisions from outside *************************)

\* Mutant: the word of the request body settles the promise.
SettledAsText(r, decision) ==
    /\ pending' = pending \ {r}
    /\ cont' = [cont EXCEPT ![r] = IF decision = "yes" THEN "approve" ELSE "reject"]
\* The entry's resolve(): the map forgets the run, the gate's promise is settled.
Settle(r, decision) ==
    /\ pending' = pending \ {r}
    /\ cont' = [cont EXCEPT ![r] = decision]

\* POST .../approve, .../reject and POST /run-approvals/:id/decide
Decide(r, decision) ==
    /\ Quiet /\ run[r].status = "awaiting_approval" /\ r \in pending
    /\ Settle(r, decision)
    /\ history' = [history EXCEPT !.approved = IF decision = "yes" THEN @ \cup {r} ELSE @]
    /\ UNCHANGED <<run, timer, kill>>

\* Mutant: silence is consent.
ApprovedOnTimeout(r) ==
    /\ Quiet /\ r \in timer
    /\ timer' = timer \ {r}
    /\ IF r \in pending THEN Settle(r, "yes") ELSE UNCHANGED <<pending, cont>>
    /\ UNCHANGED <<run, kill, history>>
\* Mutant: the entry is dropped and the promise never settled.
ForgottenOnTimeout(r) ==
    /\ Quiet /\ r \in timer
    /\ timer' = timer \ {r} /\ pending' = pending \ {r}
    /\ UNCHANGED <<run, cont, kill, history>>

\* Mutant: the timer does not look whether a decision came first.
TimedOutAnyway(r) ==
    /\ Quiet /\ r \in timer
    /\ timer' = timer \ {r} /\ Settle(r, "no")
    /\ UNCHANGED <<run, kill, history>>

\* The timer is never cleared; it finds the map entry gone after a decision.
Timeout(r) ==
    /\ Quiet /\ r \in timer
    /\ timer' = timer \ {r}
    /\ IF r \in pending THEN Settle(r, "no") ELSE UNCHANGED <<pending, cont>>
    /\ UNCHANGED <<run, kill, history>>

\* abortRun
Abort(r) ==
    /\ Quiet /\ run[r].status \notin Ended \cup {"none"}
    /\ run' = Close(r, "aborted")
    /\ IF r \in pending THEN Settle(r, "no") ELSE UNCHANGED <<pending, cont>>
    /\ UNCHANGED <<timer, kill, history>>

\* POST /agent-interface/kill-switch
KillSwitch(engage) ==
    /\ Quiet /\ kill # engage /\ kill' = engage
    /\ UNCHANGED <<run, pending, timer, cont, history>>

Next ==
    \/ \E r \in Runs, i \in Input, works \in BOOLEAN : Create(r, i, works)
    \/ \E r \in Runs, works \in BOOLEAN : Resume(r, works)
    \/ \E r \in Runs, ok \in BOOLEAN : Finish(r, ok)
    \/ \E r \in Runs, decision \in {"yes", "no"} : Decide(r, decision)
    \/ \E r \in Runs : Timeout(r) \/ Abort(r)
    \/ \E engage \in BOOLEAN : KillSwitch(engage)

Spec == Init /\ [][Next]_vars

\* The event loop runs queued continuations and timers that are due; fetch and
\* osascript have timeouts of their own.  Clients owe nothing.
FairSpec ==
    /\ Spec
    /\ \A r \in Runs : /\ WF_vars(\E works \in BOOLEAN : Resume(r, works))
                       /\ WF_vars(\E ok \in BOOLEAN : Finish(r, ok))
                       /\ WF_vars(Timeout(r))

-----------------------------------------------------------------------------
(******************************* properties *******************************)

\* An irreversible action leaves the process only after a human said yes to
\* this run: not after a timeout, a rejection or an abort.
NoUnapprovedAction ==
    \A r \in history.performed : run[r].input.irreversible => r \in history.approved

\* While the kill switch is engaged no macOS action starts, also when the run
\* was created and approved before.
KillSwitchStops ==
    [][\A r \in history'.performed \ history.performed :
        run'[r].input.kind = "macos_ui_action" => ~kill]_vars

\* A run that shows as awaiting approval can be decided and has a timeout
\* running, whatever aborts, decisions and other runs came between; the one
\* exception is a run whose preview threw (NoRunHangs).
AwaitingIsDecidable ==
    \A r \in Runs : Quiet /\ run[r].status = "awaiting_approval" /\ run[r].input.text # "other" =>
        r \in pending /\ r \in timer

\* Every executor returns, whether or not anybody answers.
EveryRunEnds == \A r \in Runs : cont[r] # "none" ~> cont[r] = "end"

PhaseOf(c) == CASE c = "none" -> "new"
                [] c = "gate" -> "asked"
                [] c = "yes"  -> "granted"
                [] c = "no"   -> "refused"
                [] c = "end"  -> "ended"
                [] OTHER      -> "acting"
GatedOf(r) == cont[r] = "none" \/ run[r].input.irreversible
Gate == INSTANCE ApprovalGate WITH phase <- [r \in Runs |-> PhaseOf(cont[r])],
                                   gated <- [r \in Runs |-> GatedOf(r)]

\* The executors implement the approval gate they promise: whatever the order of
\* decisions, timeouts, aborts and answers, each run is one run of the gate.
GateSpec == Gate!Spec

-----------------------------------------------------------------------------
(* What the code says of itself and does not do. *)

\* "Works on any active state": an aborted run stays aborted (the continuation
\* that the abort wakes, or GitHub's answer, overwrites it).
AbortIsFinal ==
    [][\A r \in Runs : run[r].status = "aborted" => run'[r].status = "aborted"]_vars

\* "Wait for approval decision (max 10 minutes)": no run stays in the approval
\* queue for ever (one whose preview threw does, until somebody aborts it).
NoRunHangs ==
    \A r \in Runs : run[r].status = "awaiting_approval" ~> run[r].status # "awaiting_approval"

\* "deny ... out-of-scope domains immediately": a run the guardrail denies is
\* failed (the route hands it to the executor all the same).
DeniedRunFails ==
    \A r \in Runs : cont[r] # "none" /\ ~run[r].input.allowed =>
                        run[r].status = "failed"
=============================================================================
