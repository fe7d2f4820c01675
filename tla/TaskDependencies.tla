--------------------------- MODULE TaskDependencies ---------------------------
(***************************************************************************)
(* blocked_by in the tasks table (src/tasks.ts) and the copy of the table  *)
(* that a node keeps in Supabase (src/taskStateSync.ts): every update is    *)
(* pushed without a retry, and a timer pulls the copy back.                *)
(*                                                                         *)
(* A row is what the dependencies need of a task: blocked_by, the time of   *)
(* the last change, and (no column of the table) who made it: the node, or *)
(* another client of Supabase, whose clock may differ.  Requests of the    *)
(* node to Supabase overtake each other and get lost; a crash of the node  *)
(* loses all of them, so that a restart needs no action.                   *)
(***************************************************************************)
EXTENDS Integers, FiniteSets

CONSTANTS
    Tasks,       \* ids of tasks
    None,        \* no row
    MaxTime,     \* bound of the clock
    MaxWire,     \* bound: pushes on the way
    MaxPulls,    \* bound: pulls on the way
    MaxOthers    \* bound: changes by other clients of Supabase

ASSUME BoundsAssumption == {MaxTime, MaxWire, MaxPulls, MaxOthers} \subseteq Nat

VARIABLES
    rows,        \* the tasks table of the node
    cloud,       \* the tasks table in Supabase
    wire,        \* upserts and deletes on their way
    pulls,       \* answers of pullTasks() on their way
    ids,         \* ids given out so far: createTask never repeats one
    pulled,      \* ghost: tasks whose row was ever written by a pull
    edited,      \* ghost: tasks whose row is the node's own last change of them
    others,      \* changes by other clients so far
    now

vars == <<rows, cloud, wire, pulls, ids, pulled, edited, others, now>>

Time == 0 .. MaxTime
Row == [blocked_by : SUBSET Tasks, updatedAt : Time, by : {"node", "other"}]
ASSUME NoneAssumption == None \notin Row

Table == [Tasks -> Row \cup {None}]
Push == [task : Tasks, row : Row \cup {None}]   \* None: a delete

Live == {t \in Tasks : rows[t] # None}
Blockers(t) == IF rows[t] = None THEN {} ELSE rows[t].blocked_by

Init ==
    /\ rows = [t \in Tasks |-> None] /\ cloud = rows
    /\ wire = {} /\ pulls = {} /\ ids = {} /\ pulled = {} /\ edited = {} /\ others = 0 /\ now = 0

\* writeTaskToDb, and syncTaskToCloud or syncTaskDeleteToCloud.
Write(t, row) ==
    /\ rows' = [rows EXCEPT ![t] = row]
    /\ edited' = IF row = None THEN edited \ {t} ELSE edited \cup {t}
Pushed(t, row) ==
    /\ Cardinality(wire) < MaxWire
    /\ wire' = wire \cup {[task |-> t, row |-> row]}

\* checkCircular: t is among the blockers, their blockers, and so on; that is,
\* in every set that holds the blockers and is closed under blocked_by.
ClosedSets == {C \in SUBSET Tasks : \A u \in C : Blockers(u) \subseteq C}
Circular(t, blockers) == \A C \in ClosedSets : blockers \subseteq C => t \in C

\* Mutant: an id may come again.
Reusable(t) == t \notin Live
Fresh(t) == t \notin ids

OwnRow(blockers) == [blocked_by |-> blockers, updatedAt |-> now, by |-> "node"]
CreateTask(t, blockers) ==
    /\ Fresh(t) /\ blockers \subseteq Live
    /\ LET row == OwnRow(blockers)
       IN  Write(t, row) /\ Pushed(t, row)
    /\ ids' = ids \cup {t}
    /\ UNCHANGED <<cloud, pulls, pulled, others, now>>

\* Mutant: only the blockers' existence is checked.
AcceptsExisting(t, blockers) == blockers \subseteq Live \ {t}
\* updateTask with a list of blockers.
Accepts(t, blockers) ==
    \/ blockers = {}
    \/ blockers \subseteq Live \ {t} /\ ~Circular(t, blockers)

\* Mutant: without the look whether the task is there, it is inserted.
SetOrInsert(t, blockers) ==
    /\ Accepts(t, blockers)
    /\ LET row == OwnRow(blockers)
       IN  Write(t, row) /\ Pushed(t, row)
    /\ UNCHANGED <<cloud, pulls, ids, pulled, others, now>>
SetBlockers(t, blockers) ==
    /\ t \in Live /\ Accepts(t, blockers)
    /\ LET row == OwnRow(blockers)
       IN  Write(t, row) /\ Pushed(t, row)
    /\ UNCHANGED <<cloud, pulls, ids, pulled, others, now>>

\* updateTask of anything else: nothing is checked again.
Update(t) ==
    /\ t \in Live
    /\ LET row == OwnRow(rows[t].blocked_by)
       IN  Write(t, row) /\ Pushed(t, row)
    /\ UNCHANGED <<cloud, pulls, ids, pulled, others, now>>

\* A comment or patchTaskMetadata: the row gets a new time and is not pushed.
Touch(t) ==
    /\ t \in Live /\ Write(t, OwnRow(rows[t].blocked_by))
    /\ UNCHANGED <<cloud, wire, pulls, ids, pulled, others, now>>

\* deleteTask: those who wait for t keep it in blocked_by.
DeleteTask(t) ==
    /\ t \in Live /\ Write(t, None) /\ Pushed(t, None)
    /\ UNCHANGED <<cloud, pulls, ids, pulled, others, now>>

-----------------------------------------------------------------------------
Arrive(push) ==
    /\ push \in wire /\ wire' = wire \ {push}
    /\ cloud' = [cloud EXCEPT ![push.task] = push.row]
    /\ UNCHANGED <<rows, pulls, ids, pulled, edited, others, now>>

\* A push fails for good: the error is logged.
Lose(push) ==
    /\ push \in wire /\ wire' = wire \ {push}
    /\ UNCHANGED <<rows, cloud, pulls, ids, pulled, edited, others, now>>

\* Somebody else creates a task in Supabase, changes one, or deletes it.
ByOther == others < MaxOthers /\ others' = others + 1
ChangeInCloud(t, blockers, at) ==
    /\ ByOther
    /\ t \notin ids \/ cloud[t] # None
    /\ blockers \subseteq ids /\ ids' = ids \cup {t}
    /\ cloud' = [cloud EXCEPT ![t] =
                    [blocked_by |-> blockers, updatedAt |-> at, by |-> "other"]]
    /\ UNCHANGED <<rows, wire, pulls, pulled, edited, now>>
DeleteInCloud(t) ==
    /\ ByOther
    /\ cloud[t] # None /\ cloud' = [cloud EXCEPT ![t] = None]
    /\ UNCHANGED <<rows, wire, pulls, ids, pulled, edited, now>>

\* pullTasks reads the copy ...
Pull ==
    /\ Cardinality(pulls) < MaxPulls /\ pulls' = pulls \cup {cloud}
    /\ UNCHANGED <<rows, cloud, wire, ids, pulled, edited, others, now>>

\* ... and syncFromCloud writes what is missing here or newer there (so does
\* the hydration of an empty table when the node starts).
\* Mutant: a row of the same time is taken too.
NotOlder(t, copy) ==
    /\ copy[t] # None
    /\ rows[t] = None \/ copy[t].updatedAt >= rows[t].updatedAt
Newer(t, copy) ==
    /\ copy[t] # None
    /\ rows[t] = None \/ copy[t].updatedAt > rows[t].updatedAt

Merge(copy) ==
    /\ copy \in pulls /\ pulls' = pulls \ {copy}
    /\ rows' = [t \in Tasks |-> IF Newer(t, copy) THEN copy[t] ELSE rows[t]]
    /\ pulled' = pulled \cup {t \in Tasks : Newer(t, copy)}
    /\ edited' = edited \ {t \in Tasks : Newer(t, copy)}
    /\ UNCHANGED <<cloud, wire, ids, others, now>>

LosePull(copy) ==
    /\ copy \in pulls /\ pulls' = pulls \ {copy}
    /\ UNCHANGED <<rows, cloud, wire, ids, pulled, edited, others, now>>

Tick ==
    /\ now < MaxTime /\ now' = now + 1
    /\ UNCHANGED <<rows, cloud, wire, pulls, ids, pulled, edited, others>>

Next ==
    \/ \E t \in Tasks, blockers \in SUBSET Tasks :
          \/ CreateTask(t, blockers) \/ SetBlockers(t, blockers)
          \/ \E at \in Time : ChangeInCloud(t, blockers, at)
    \/ \E t \in Tasks : Update(t) \/ Touch(t) \/ DeleteTask(t) \/ DeleteInCloud(t)
    \/ \E push \in wire : Arrive(push) \/ Lose(push)
    \/ \E copy \in pulls : Merge(copy) \/ LosePull(copy)
    \/ Pull \/ Tick

Spec == Init /\ [][Next]_vars

-----------------------------------------------------------------------------
(******************************* properties *******************************)
TypeOK ==
    /\ rows \in Table /\ cloud \in Table
    /\ wire \subseteq Push /\ pulls \subseteq Table
    /\ ids \subseteq Tasks /\ pulled \subseteq ids /\ edited \subseteq Live /\ Live \subseteq ids
    /\ others \in 0 .. MaxOthers /\ now \in Time

\* Everybody in waiting has to wait for somebody else in it: none can start.
Deadlocked(waiting) ==
    /\ waiting # {}
    /\ \A t \in waiting : Blockers(t) \cap waiting # {}

\* Updates of the node alone, in any order and with any deletions in between,
\* never make tasks that wait for each other in a circle: there is one only if
\* a pull ever wrote the row of one of them, past the check of updateTask.
CirclesComeFromPulls ==
    \A waiting \in SUBSET Tasks : Deadlocked(waiting) => waiting \cap pulled # {}

\* However pushes and pulls overtake each other or get lost, and whatever the
\* clocks of others, the node's last change of a task is written over by a pull
\* only with a version that somebody else made: none of the node's own earlier
\* states comes back over a later one, also not of a task a pull brought back.
PullsTakeOnlyNews ==
    [][\A t \in edited : t \notin edited' /\ rows'[t] # None => rows'[t].by = "other"]_vars

-----------------------------------------------------------------------------
(* What the documentation says and the code does not do.                    *)

\* "Circular dependency detection: Prevents cycles (A blocks B, B blocks A)":
\* a pull brings back a deleted task, or an older list of blockers, unchecked.
NoCircles == \A waiting \in SUBSET Tasks : ~Deadlocked(waiting)
=============================================================================
