--------------------------- MODULE WorkingContract ---------------------------
(***************************************************************************)
(* Working-contract enforcement (tickWorkingContract): tasks in doing that *)
(* nobody touches are warned about and then put back to todo.              *)
(*                                                                         *)
(* The tick lists the doing tasks once and awaits a message after every    *)
(* task it acts on, so agents, a second tick (the board health worker and  *)
(* POST /health/working-contract/tick share no guard) and restarts come in *)
(* between.  Times are ages that stop growing at the threshold they are    *)
(* compared with; a tick and a request are short against those thresholds, *)
(* so time passes only between them.                                       *)
(***************************************************************************)
EXTENDS Integers

CONSTANTS
    Tasks, Agents,
    Ticks,      \* who runs a tick: the worker, and the route that calls it by hand
    Stale, Grace, Startup,  \* staleAutoRequeueMin, graceAfterWarningMin, STARTUP_GRACE_MS
    Cloud,      \* is a cloud adapter configured, that updateTask awaits?
    MaxRestarts \* bound: restarts that TLC explores

ASSUME ContractAssumption ==
    /\ Stale \in Nat \ {0} /\ Grace \in Nat \ {0} /\ Startup \in Nat
    /\ Cloud \in BOOLEAN /\ MaxRestarts \in Nat

VARIABLES
    row,      \* tasks: status and assignee
    quiet,    \* age of the last history event or comment of the task
    unlogged, \* tasks whose row is written and whose history event is not
    warned,   \* warningTimestamps (and its table): age of the warning of agent and task
    answered, \* the warnings after which that agent has commented on that task
    scan,     \* what a tick that awaits has still to look at
    uptime,   \* age of the process
    nagged,   \* history: warned since something last happened to the task
    restarts
vars == <<row, quiet, unlogged, warned, answered, scan, uptime, nagged, restarts>>

Keys == Agents \X Tasks
Row  == [status : {"todo", "doing", "left"}, owner : Agents]
None == -1

TypeOK ==
    /\ row \in [Tasks -> Row] /\ quiet \in [Tasks -> 0..Stale]
    /\ unlogged \subseteq Tasks
    /\ warned \in [Keys -> {None} \cup 0..Grace]
    /\ answered \subseteq {k \in Keys : warned[k] # None}
    /\ scan \in [Ticks -> SUBSET Keys] /\ uptime \in 0..Startup
    /\ nagged \subseteq Keys /\ restarts \in Nat

Init ==
    /\ row \in [Tasks -> [status : {"todo"}, owner : Agents]]
    /\ quiet = [t \in Tasks |-> 0] /\ unlogged = {}
    /\ warned = [k \in Keys |-> None] /\ answered = {}
    /\ scan = [p \in Ticks |-> {}] /\ uptime = 0
    /\ nagged = {} /\ restarts = 0

\* A history event, or a comment of the assignee, at t.
Touched(t) == /\ quiet' = [quiet EXCEPT ![t] = 0]
              /\ nagged' = {k \in nagged : k[2] # t}

-----------------------------------------------------------------------------
(********************** what agents do with a task ************************)

\* "left" stands for validating, blocked and done.
Moves == {<<"todo", "doing">>, <<"doing", "left">>, <<"left", "doing">>}

\* updateTask: the row is written, then the cloud is awaited, then history.
Update(t, r) ==
    /\ t \notin unlogged
    /\ row' = [row EXCEPT ![t] = r]
    /\ IF Cloud THEN unlogged' = unlogged \cup {t} /\ UNCHANGED <<quiet, nagged>>
                ELSE Touched(t) /\ UNCHANGED unlogged
    /\ UNCHANGED <<warned, answered, scan, uptime, restarts>>

Move(t, s)    == /\ <<row[t].status, s>> \in Moves
                 /\ Update(t, [status |-> s, owner |-> row[t].owner])
Handoff(t, a) == /\ a # row[t].owner /\ row[t].status \in {"todo", "doing"}
                 /\ Update(t, [status |-> row[t].status, owner |-> a])

LogUpdate(t) ==
    /\ t \in unlogged /\ unlogged' = unlogged \ {t}
    /\ Touched(t)
    /\ UNCHANGED <<row, warned, answered, scan, uptime, restarts>>

\* addTaskComment.  One that the task's comms policy suppresses writes history, and
\* answers no warning.
Comment(t, a, suppressed) ==
    /\ Touched(t)
    /\ answered' = IF warned[<<a, t>>] = None \/ suppressed THEN answered
                   ELSE answered \cup {<<a, t>>}
    /\ UNCHANGED <<row, unlogged, warned, scan, uptime, restarts>>

-----------------------------------------------------------------------------
(******************************** the tick *********************************)

Silent(k) == quiet[k[2]] >= Stale
Warns(k)  == Silent(k) /\ warned[k] = None
\* Mutant: the activity is read when the warning is issued, not before the requeue.
LapsedOnce(k) == warned[k] >= Grace
\* Mutant: the grace period is compared the wrong way round at its end.
NeverLapsed(k) == Silent(k) /\ warned[k] > Grace
Lapsed(k) == Silent(k) /\ warned[k] >= Grace
Heeds(k)    == Lapsed(k) /\ k \in answered
Requeues(k) == Lapsed(k) /\ k \notin answered

Doing == {<<row[t].owner, t>> : t \in {u \in Tasks : row[u].status = "doing"}}

\* Mutant: what was answered stays answered for the next warning.
ClearStamp(keys) ==
    /\ warned' = [k \in Keys |-> IF k \in keys THEN None ELSE warned[k]]
    /\ UNCHANGED answered
Clear(keys) ==
    /\ warned' = [k \in Keys |-> IF k \in keys THEN None ELSE warned[k]]
    /\ answered' = answered \ keys

Warn(k, heeded) ==
    /\ warned' = [j \in Keys |-> IF j = k THEN 0
                                 ELSE IF j \in heeded THEN None ELSE warned[j]]
    /\ answered' = answered \ heeded

\* What a tick does between two awaits: pass over the entries that need nothing (and
\* forget the warnings that were answered) up to one it acts on, or to the end.
Turn(p, left) ==
    \/ /\ \A k \in left : ~Warns(k) /\ ~Requeues(k)
       /\ scan' = [scan EXCEPT ![p] = {}]
       /\ Clear({k \in left : Heeds(k)})
       /\ UNCHANGED <<row, quiet, nagged>>
    \/ \E k \in left, over \in SUBSET left :
       /\ k \notin over /\ \A j \in over : ~Warns(j) /\ ~Requeues(j)
       /\ scan' = [scan EXCEPT ![p] = left \ (over \cup {k})]
       /\ \/ /\ Warns(k) /\ Warn(k, {j \in over : Heeds(j)})
             /\ nagged' = nagged \cup {k}
             /\ UNCHANGED <<row, quiet>>
          \/ /\ Requeues(k) /\ Clear({k} \cup {j \in over : Heeds(j)})
             /\ row' = [row EXCEPT ![k[2]].status = "todo"]
             /\ Touched(k[2])   \* by the comment that says so

Begin(p) ==
    /\ scan[p] = {} /\ uptime >= Startup
    /\ Turn(p, Doing)
    /\ UNCHANGED <<unlogged, uptime, restarts>>

Resume(p) ==
    /\ scan[p] # {}
    /\ Turn(p, scan[p])
    /\ UNCHANGED <<unlogged, uptime, restarts>>

Older(n, bound) == IF n = None \/ n >= bound THEN n ELSE n + 1

Pass ==
    /\ \A p \in Ticks : scan[p] = {}
    /\ unlogged = {}
    /\ quiet' = [t \in Tasks |-> Older(quiet[t], Stale)]
    /\ warned' = [k \in Keys |-> Older(warned[k], Grace)]
    /\ uptime' = Older(uptime, Startup)
    /\ UNCHANGED <<row, unlogged, answered, scan, nagged, restarts>>

\* Mutant: warnings live in the process only.
ForgottenAtRestart == warned' = [k \in Keys |-> None] /\ answered' = {}
KeptAtRestart == UNCHANGED <<warned, answered>>

\* The process dies and starts again; warnings are read back from their table.
Restart ==
    /\ restarts < MaxRestarts /\ restarts' = restarts + 1
    /\ scan' = [p \in Ticks |-> {}] /\ uptime' = 0 /\ unlogged' = {}
    /\ KeptAtRestart
    /\ UNCHANGED <<row, quiet, nagged>>

Next ==
    \/ \E t \in Tasks, s \in {"doing", "left"} : Move(t, s)
    \/ \E t \in Tasks, a \in Agents : Handoff(t, a)
    \/ \E t \in Tasks, a \in Agents, suppressed \in BOOLEAN : Comment(t, a, suppressed)
    \/ \E t \in Tasks : LogUpdate(t)
    \/ \E p \in Ticks : Begin(p) \/ Resume(p)
    \/ Pass \/ Restart

Spec == Init /\ [][Next]_vars

\* The timers of the process go on, and so does the clock, however often requests
\* and ticks (which take no time here) follow each other; agents owe nothing.
FairSpec ==
    /\ Spec /\ SF_vars(Pass)
    /\ \A p \in Ticks : WF_vars(Begin(p)) /\ WF_vars(Resume(p))
    /\ \A t \in Tasks : WF_vars(LogUpdate(t))

-----------------------------------------------------------------------------
(******************************* properties *******************************)

\* What the tick puts back to todo is in doing at that moment, although the tick
\* listed it before it awaited: a task that was submitted or closed since stays where
\* its agent put it.  (The exception: its row is written and the cloud is awaited.)
OnlyDoingRequeued ==
    [][\A t \in Tasks : row'[t].status = "todo" /\ row[t].status # "todo"
                            => row[t].status = "doing" \/ t \in unlogged]_vars

\* Between two things that happen to a task its assignee is warned once, whatever
\* restarts and ticks overlap.
OneWarningPerSpell ==
    [][\A k \in Keys : warned[k] = None /\ warned'[k] = 0 => k \notin nagged]_vars

\* A task in doing that nobody touches goes back to todo in the end.
SilentIsRequeued ==
    \A t \in Tasks : row[t].status = "doing" ~> row[t].status # "doing" \/ quiet[t] = 0

\* "one warning, then grace period, then enforce": a task is put back only if its
\* assignee was warned since something last happened to it.
WarnedBeforeRequeue ==
    [][\A t \in Tasks : row'[t].status = "todo" /\ row[t].status = "doing"
                            => \E a \in Agents : <<a, t>> \in nagged]_vars

\* "tasks in 'doing' with no status comment past threshold -> auto back to 'todo'":
\* without the exception above.
NeverRequeuesSubmitted ==
    [][\A t \in Tasks : row'[t].status = "todo" /\ row[t].status # "todo"
                            => row[t].status = "doing"]_vars
=============================================================================
