---------------------------- MODULE RecurringTasks ----------------------------
(***************************************************************************)
(* Recurring task definitions and the passes that materialise their due    *)
(* slots as tasks (TaskManager.materializeDueRecurringTasks).              *)
(*                                                                         *)
(* A pass is started by the minute ticker, by listTasks, getNextTask, a    *)
(* new definition or POST /tasks/recurring/materialize, so several run at  *)
(* once.  A pass keeps the event loop (running) until createTask awaits.   *)
(* It works on the definition OBJECT it found in the Map; an edit puts a   *)
(* copy into the Map and leaves the pass with the old object.              *)
(***************************************************************************)
EXTENDS Integers, Sequences, FiniteSets

CONSTANTS
    Defs,        \* definitions, numbered in order of creation (Map order)
    Passes,      \* passes that may be in flight at once
    NoPass,      \* the event loop is free
    Periods,     \* schedules: the interval between slots
    Forces,      \* values of ?force= in use
    CatchUp,     \* safetyCounter: slots of a definition per pass (16)
    MaxTime, MaxEdits, MaxGone, MaxRestarts   \* bounds: clock, edits of a
                 \* definition, deleted tasks, restarts that TLC explores

ASSUME NumbersAssumption ==
    /\ Defs \subseteq Nat \ {0} /\ Periods \subseteq Nat \ {0}
    /\ {CatchUp, MaxTime, MaxEdits, MaxGone, MaxRestarts} \subseteq Nat
ASSUME PassesAssumption == NoPass \notin Passes /\ Forces \subseteq BOOLEAN

VARIABLES
    heap,      \* the definition objects ever in memory, by definition
    map,       \* this.recurringTasks: index of the object in use, 0 for none
    disk,      \* the rows of the table recurring_tasks: set of <<def, object>>
    tasks,     \* the rows of the table tasks that carry metadata.recurring
    pass,      \* the passes
    running,   \* the pass that holds the event loop
    broken,    \* definitions createTask rejects (their blocked_by is gone)
    now,       \* the clock
    restarts,  \* restarts so far
    deleted    \* definitions a client deleted (read by the properties only)
vars == <<heap, map, disk, tasks, pass, running, broken, now, restarts, deleted>>

\* forced, late: history (created by a forced pass, after the definition went).
Definition == [enabled : BOOLEAN, every : Periods, created : Nat, nextRunAt : Nat]
Task == [def : Defs, slot : Nat, status : {"open", "done", "cancelled", "gone"},
         forced : BOOLEAN, late : BOOLEAN]
Pass == [state : {"idle", "scan", "work", "creating"}, def : Defs \cup {0},
         obj : Nat, slot : Nat, now : Nat, force : BOOLEAN, count : Nat,
         changed : BOOLEAN]
IdlePass == [state |-> "idle", def |-> 0, obj |-> 0, slot |-> 0, now |-> 0,
             force |-> FALSE, count |-> 0, changed |-> FALSE]

TypeOK ==
    /\ heap \in [Defs -> Seq(Definition)]
    /\ map \in [Defs -> Nat]
    /\ \A d \in Defs : map[d] \in 0 .. Len(heap[d])
    /\ disk \subseteq Defs \X Definition
    /\ \A a, b \in disk : a[1] = b[1] => a = b   \* id is the primary key
    /\ tasks \in Seq(Task)
    /\ pass \in [Passes -> Pass]
    /\ \A p \in Passes : pass[p].state \in {"work", "creating"} =>
            pass[p].def \in Defs /\ pass[p].obj \in 1 .. Len(heap[pass[p].def])
    /\ running \in Passes \cup {NoPass}
    /\ broken \subseteq Defs /\ deleted \subseteq Defs
    /\ now \in Nat /\ restarts \in Nat

Init ==
    /\ heap = [d \in Defs |-> <<>>] /\ map = [d \in Defs |-> 0] /\ disk = {}
    /\ tasks = <<>>
    /\ pass = [p \in Passes |-> IdlePass] /\ running = NoPass
    /\ broken = {} /\ deleted = {} /\ now = 0 /\ restarts = 0

\* computeNextRunAt for an interval: the first slot after a point in time.
NextRunAt(r, from) == r.created + ((from - r.created) \div r.every + 1) * r.every

Live == {d \in Defs : map[d] # 0}
InMemory(d) == heap[d][map[d]]

\* Mutant: INSERT without ON CONFLICT, a row of its own for every write.
InsertedAgain(h, m) ==
    disk \cup {<<d, h[d][m[d]]>> : d \in {x \in Defs : m[x] # 0}}
\* persistRecurringTasks: upserts the Map, deletes no row.
Upserted(h, m) ==
    {row \in disk : m[row[1]] = 0} \cup {<<d, h[d][m[d]]>> : d \in {x \in Defs : m[x] # 0}}

-----------------------------------------------------------------------------
(****************************** the passes ********************************)

Present(k) == tasks[k].status # "gone"
Instances(d) == {k \in DOMAIN tasks : tasks[k].def = d /\ Present(k)}

\* Mutant: only the latest instance is compared.
MaterializedLatest(d, slot) ==
    \E k \in Instances(d) : /\ \A j \in Instances(d) : j <= k
                            /\ tasks[k].slot > slot
hasMaterializedRun(d, slot) == \E k \in Instances(d) : tasks[k].slot = slot

\* Mutant: a task made by force is an extra one and holds nothing up.
OpenUnlessForced(d) ==
    \E k \in Instances(d) : /\ \A j \in Instances(d) : j <= k
                            /\ tasks[k].status # "done" /\ ~tasks[k].forced
\* getLatestRecurringInstance(d).status !== 'done'
OpenPredecessor(d) ==
    \E k \in Instances(d) : /\ \A j \in Instances(d) : j <= k
                            /\ tasks[k].status # "done"

\* Any caller of materializeDueRecurringTasks.
Begin(p, force) ==
    /\ running = NoPass /\ pass[p].state = "idle"
    /\ pass' = [pass EXCEPT ![p] = [IdlePass EXCEPT !.state = "scan", !.now = now,
                                                    !.force = force]]
    /\ running' = p
    /\ UNCHANGED <<heap, map, disk, tasks, broken, now, restarts, deleted>>

\* The next entry of the Map, or the end of the loop and the write to disk.
Scan(p) ==
    LET rest == {d \in Live : d > pass[p].def} IN
    /\ running = p /\ pass[p].state = "scan"
    /\ IF rest # {}
       THEN \E d \in rest :
              /\ \A e \in rest : d <= e
              /\ pass' = [pass EXCEPT ![p].def = d, ![p].obj = map[d], ![p].count = 0,
                             ![p].state = IF InMemory(d).enabled THEN "work" ELSE "scan"]
              /\ UNCHANGED <<disk, running>>
       ELSE /\ disk' = IF pass[p].changed THEN Upserted(heap, map) ELSE disk
            /\ pass' = [pass EXCEPT ![p] = IdlePass]
            /\ running' = NoPass
    /\ UNCHANGED <<heap, map, tasks, broken, now, restarts, deleted>>

\* Mutant: the first slot at or after this one is the next.
SettledInPlace(p, slot) ==
    LET d == pass[p].def o == pass[p].obj IN
    /\ heap' = [heap EXCEPT ![d][o].nextRunAt = NextRunAt(heap[d][o], slot - 1)]
    /\ pass' = [pass EXCEPT ![p].state = "work", ![p].changed = TRUE,
                            ![p].count = @ + 1]
\* The slot is settled: write it to the object the pass holds and go on.
Settled(p, slot) ==
    LET d == pass[p].def o == pass[p].obj IN
    /\ heap' = [heap EXCEPT ![d][o].nextRunAt = NextRunAt(heap[d][o], slot)]
    /\ pass' = [pass EXCEPT ![p].state = "work", ![p].changed = TRUE,
                            ![p].count = @ + 1]

\* One round of the while loop, up to createTask's first await.
Work(p) ==
    LET d == pass[p].def
        r == heap[d][pass[p].obj]
        slot == r.nextRunAt
        due  == slot <= pass[p].now /\ pass[p].count < CatchUp
        skip == ~pass[p].force /\ OpenPredecessor(d)
    IN
    /\ running = p /\ pass[p].state = "work"
    /\ \/ \* nothing due: next definition
          /\ ~due
          /\ pass' = [pass EXCEPT ![p].state = "scan"]
          /\ UNCHANGED <<heap, tasks, running>>
       \/ \* predecessor open, or run already there: advance
          /\ due /\ (skip \/ hasMaterializedRun(d, slot))
          /\ Settled(p, slot)
          /\ UNCHANGED <<tasks, running>>
       \/ \* createTask throws and takes the whole pass with it
          /\ due /\ ~skip /\ ~hasMaterializedRun(d, slot) /\ d \in broken
          /\ pass' = [pass EXCEPT ![p] = IdlePass]
          /\ running' = NoPass
          /\ UNCHANGED <<heap, tasks>>
       \/ \* createTask has written the row and awaits
          /\ due /\ ~skip /\ ~hasMaterializedRun(d, slot) /\ d \notin broken
          /\ tasks' = Append(tasks, [def |-> d, slot |-> slot, status |-> "open",
                                     forced |-> pass[p].force, late |-> d \in deleted])
          /\ pass' = [pass EXCEPT ![p].state = "creating", ![p].slot = slot]
          /\ running' = NoPass
          /\ UNCHANGED heap
    /\ UNCHANGED <<map, disk, broken, now, restarts, deleted>>

\* createTask has returned.
Created(p) ==
    /\ running = NoPass /\ pass[p].state = "creating"
    /\ Settled(p, pass[p].slot)
    /\ running' = p
    /\ UNCHANGED <<map, disk, tasks, broken, now, restarts, deleted>>

-----------------------------------------------------------------------------
(************************ clients, clock, restart *************************)

\* A new object takes the definition's place in the Map and the Map is saved.
Put(d, r) ==
    /\ heap' = [heap EXCEPT ![d] = Append(@, r)]
    /\ map' = [map EXCEPT ![d] = Len(heap[d]) + 1]
    /\ disk' = Upserted(heap', map')
    /\ UNCHANGED <<tasks, pass, running, broken, now, restarts, deleted>>

\* POST /tasks/recurring
Create(d, every, enabled) ==
    LET r == [enabled |-> enabled, every |-> every, created |-> now, nextRunAt |-> now]
    IN  /\ running = NoPass /\ heap[d] = <<>> /\ d \notin deleted
        /\ \A e \in Defs : e < d => heap[e] # <<>>
        /\ Put(d, [r EXCEPT !.nextRunAt = NextRunAt(r, now)])

\* PATCH /tasks/recurring/:id
Enable(d, enabled) ==
    /\ running = NoPass /\ d \in Live /\ Len(heap[d]) <= MaxEdits
    /\ Put(d, [InMemory(d) EXCEPT !.enabled = enabled])
Reschedule(d, every) ==
    LET r == [InMemory(d) EXCEPT !.every = every] IN
    /\ running = NoPass /\ d \in Live /\ Len(heap[d]) <= MaxEdits
    /\ Put(d, [r EXCEPT !.nextRunAt = NextRunAt(r, now)])

\* DELETE /tasks/recurring/:id
Remove(d) ==
    /\ running = NoPass /\ d \in Live
    /\ map' = [map EXCEPT ![d] = 0]
    /\ disk' = Upserted(heap, map')
    /\ deleted' = deleted \cup {d}
    /\ UNCHANGED <<heap, tasks, pass, running, broken, now, restarts>>

\* The board moves a materialised task on, or deletes it.
MoveTask(k, status) ==
    /\ running = NoPass /\ k \in DOMAIN tasks
    /\ <<tasks[k].status, status>> \in
         {<<"open", "done">>, <<"open", "cancelled">>, <<"open", "gone">>,
          <<"done", "gone">>, <<"cancelled", "gone">>}
    /\ status = "gone" => Cardinality({j \in DOMAIN tasks : ~Present(j)}) < MaxGone
    /\ tasks' = [tasks EXCEPT ![k].status = status]
    /\ UNCHANGED <<heap, map, disk, pass, running, broken, now, restarts, deleted>>

\* DELETE /tasks/:id of a task the definition names in blocked_by.
LoseBlocker(d) ==
    /\ running = NoPass /\ d \in Live \ broken /\ broken' = broken \cup {d}
    /\ UNCHANGED <<heap, map, disk, tasks, pass, running, now, restarts, deleted>>

\* Time passes.  Code that holds the event loop does not look at the clock again.
Tick ==
    /\ running = NoPass /\ now < MaxTime /\ now' = now + 1
    /\ UNCHANGED <<heap, map, disk, tasks, pass, running, broken, restarts, deleted>>

\* The process dies at any point and loadRecurringTasks reads the table.
Restart ==
    /\ restarts < MaxRestarts /\ restarts' = restarts + 1
    /\ heap' = [d \in Defs |->
                  IF \E row \in disk : row[1] = d
                  THEN <<(CHOOSE row \in disk : row[1] = d)[2]>> ELSE <<>>]
    /\ map' = [d \in Defs |-> IF \E row \in disk : row[1] = d THEN 1 ELSE 0]
    /\ pass' = [p \in Passes |-> IdlePass] /\ running' = NoPass
    /\ UNCHANGED <<disk, tasks, broken, now, deleted>>

Next ==
    \/ \E p \in Passes, force \in Forces : Begin(p, force)
    \/ \E p \in Passes : Scan(p) \/ Work(p) \/ Created(p)
    \/ \E d \in Defs, every \in Periods, enabled \in BOOLEAN : Create(d, every, enabled)
    \/ \E d \in Defs, enabled \in BOOLEAN : Enable(d, enabled)
    \/ \E d \in Defs, every \in Periods : Reschedule(d, every)
    \/ \E d \in Defs : Remove(d) \/ LoseBlocker(d)
    \/ \E k \in DOMAIN tasks, status \in {"done", "cancelled", "gone"} :
            MoveTask(k, status)
    \/ Tick \/ Restart

Spec == Init /\ [][Next]_vars

\* The ticker starts passes for ever and the event loop runs what is runnable.
\* Neither clients nor whoever works on the tasks owe anything.
FairSpec ==
    /\ Spec
    /\ WF_vars(\E p \in Passes : Begin(p, FALSE))
    /\ \A p \in Passes : WF_vars(Scan(p) \/ Work(p)) /\ WF_vars(Created(p))

-----------------------------------------------------------------------------
(******************************* properties *******************************)

\* A slot is materialised at most once, whatever passes run at the same time,
\* wherever the process dies and however the definition is edited meanwhile
\* (a nextRunAt that went back or was lost does not create a second task).
OneInstancePerSlot ==
    \A j, k \in DOMAIN tasks :
        /\ Present(j) /\ Present(k)
        /\ tasks[j].def = tasks[k].def /\ tasks[j].slot = tasks[k].slot
        => j = k

\* Only a forced pass puts a task behind one of the same definition that is still
\* open: passes that run at the same time, each with its own view of the latest
\* instance, do not pile tasks up.
OnlyForcePilesUp ==
    \A j, k \in DOMAIN tasks :
        /\ j < k /\ tasks[j].def = tasks[k].def /\ tasks[j].status = "open"
        => \E i \in j + 1 .. k : tasks[i].def = tasks[k].def /\ tasks[i].forced

Behind(d) == /\ d \in Live /\ InMemory(d).enabled
             /\ InMemory(d).nextRunAt <= now

\* A definition that is due catches up with the clock: passes that overwrite
\* each other's nextRunAt and edits under a running pass do not keep it behind.
CatchesUp == \A d \in Defs : Behind(d) ~> ~Behind(d) \/ broken # {}

-----------------------------------------------------------------------------
(* What docs and tests of the repository say and the code does not do. *)

\* "DELETE: Delete recurring task definition": a deleted definition creates no
\* task any more (a running pass goes on with it, and its row stays on disk).
DeletedStaysDeleted == \A k \in DOMAIN tasks : ~tasks[k].late

\* "skips creation when previous instance is still open": a slot that is not
\* materialised has an open task before it (a cancelled one counts as open).
SkipsOnlyBehindOpen ==
    [][\A d \in Live : LET t == InMemory(d).nextRunAt IN
        /\ map' = map /\ heap'[d][map[d]].nextRunAt > t
        /\ \A k \in DOMAIN tasks : ~(tasks[k].def = d /\ tasks[k].slot = t)
        => \E k \in Instances(d) : tasks[k].status = "open"]_vars

\* "Materialize due recurring tasks": a definition in good order catches up
\* (one whose createTask throws ends every pass before it gets there).
CatchesUpDespiteOthers ==
    \A d \in Defs : Behind(d) ~> ~Behind(d) \/ d \in broken
=============================================================================
