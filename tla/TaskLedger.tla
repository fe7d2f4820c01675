------------------------------ MODULE TaskLedger ------------------------------
(***************************************************************************)
(* The ledger by which a node tells the cloud of its tasks (the            *)
(* sync_ledger table with its triggers in src/db.ts; syncTasks and what it *)
(* calls in src/cloud.ts).  Every write of a task makes its ledger row     *)
(* pending; an interval reads the tasks, brings the ledger in line with    *)
(* them, sends the oldest dirty rows and marks them when the answer comes. *)
(* The interval does not wait for the POST before it.                      *)
(*                                                                         *)
(* What a task says is the number of the change that wrote it. Of the      *)
(* cloud only what it has received is kept: how it orders versions is its  *)
(* own affair.                                                             *)
(*                                                                         *)
(* CloudSyncProofs extends this module and ChatSync: what both would call  *)
(* Init, Next, Restart or now begins with Ledger here.                     *)
(***************************************************************************)
EXTENDS Integers, FiniteSets, Functions

CONSTANTS
    Tasks,
    Hidden,      \* those listTasks leaves out (isTestHarnessTask)
    RowLimit,    \* rows per POST (200)
    Posts,       \* bound: POSTs in flight
    MaxChanges, LedgerTime,
    MaxFaults,   \* bound: POSTs that fail, and deaths of the process
    SameMillisecond   \* a task may change twice in a millisecond

ASSUME ConstantsAssumption ==
    /\ Hidden \subseteq Tasks /\ RowLimit \in Nat \ {0}
    /\ {MaxChanges, LedgerTime, MaxFaults} \subseteq Nat
    /\ SameMillisecond \in BOOLEAN

VARIABLES
    rows,        \* the tasks table, by id: what is written, and updated_at
    ledger,      \* sync_ledger, by id
    posts,       \* by POST in flight, the versions it carries; {} if there is none
    arrived,     \* the POSTs in flight that the cloud has got
    mirrored,    \* every version the cloud has got
    written,     \* every version of a task there was
    changes, faults, ledgerNow

ledgerVars ==
    <<rows, ledger, posts, arrived, mirrored, written, changes, faults, ledgerNow>>

Never == -1
Row == [what : 1 .. MaxChanges, at : 0 .. LedgerTime]
Version == [task : Tasks, what : 1 .. MaxChanges, at : 0 .. LedgerTime]
Entry == [at : 0 .. LedgerTime, synced : {Never} \cup 0 .. LedgerTime,
          status : {"pending", "synced", "error"}]

With(f, t, value) == [u \in DOMAIN f \cup {t} |-> IF u = t THEN value ELSE f[u]]
Without(f, t) == Restrict(f, DOMAIN f \ {t})

LedgerInit ==
    /\ rows = [t \in {} |-> {}] /\ ledger = [t \in {} |-> {}]
    /\ posts = [p \in Posts |-> {}] /\ arrived = {}
    /\ mirrored = {} /\ written = {}
    /\ changes = 0 /\ faults = 0 /\ ledgerNow = 0

-----------------------------------------------------------------------------
(* The tasks table and its triggers. *)

Touched(t, at) ==
    With(ledger, t, [at |-> at, status |-> "pending",
                     synced |-> IF t \in DOMAIN ledger THEN ledger[t].synced ELSE Never])
Put(t, row) == rows' = With(rows, t, row) /\ ledger' = Touched(t, row.at)

\* Mutant: there is no delete trigger.
Kept(t) == ledger
Forgotten(t) == Without(ledger, t)

Used(t) == \E v \in written : v.task = t

\* A task is created, or changed; ids are not used twice.
Write(t) ==
    /\ changes < MaxChanges /\ changes' = changes + 1
    /\ t \in DOMAIN rows \/ ~Used(t)
    /\ SameMillisecond \/ \A v \in written : v.task = t => v.at # ledgerNow
    /\ Put(t, [what |-> changes + 1, at |-> ledgerNow])
    /\ written' = written \cup {[task |-> t, what |-> changes + 1, at |-> ledgerNow]}
    /\ UNCHANGED <<posts, arrived, mirrored, faults, ledgerNow>>

Delete(t) ==
    /\ changes < MaxChanges /\ changes' = changes + 1
    /\ t \in DOMAIN rows /\ rows' = Without(rows, t) /\ ledger' = Forgotten(t)
    /\ UNCHANGED <<posts, arrived, mirrored, written, faults, ledgerNow>>

\* The pull writes back what was deleted here: the other mirror of the tasks still
\* had it (TaskDependencies).
PullBack(v) ==
    /\ v.task \notin DOMAIN rows /\ Put(v.task, [what |-> v.what, at |-> v.at])
    /\ UNCHANGED <<posts, arrived, mirrored, written, changes, faults, ledgerNow>>

-----------------------------------------------------------------------------
(* syncTasks. *)

Snapshot == DOMAIN rows \ Hidden

\* Mutant: rows of tasks that are not in the snapshot stay.
RefreshedRowsKept ==
    [t \in DOMAIN ledger \cup Snapshot |->
        IF t \notin Snapshot \/ (t \in DOMAIN ledger /\ ledger[t].at = rows[t].at)
        THEN ledger[t] ELSE Touched(t, rows[t].at)[t]]
Refreshed ==
    [t \in Snapshot |->
        IF t \in DOMAIN ledger /\ ledger[t].at = rows[t].at
        THEN ledger[t] ELSE Touched(t, rows[t].at)[t]]

Dirty(l) == {t \in DOMAIN l : \/ l[t].synced = Never \/ l[t].synced < l[t].at
                              \/ l[t].status # "synced"}

\* The oldest of the dirty rows; rows of one millisecond in any order.
OldestDirty(l, page) ==
    /\ page \subseteq Dirty(l)
    /\ Cardinality(page) = RowLimit \/ page = Dirty(l)
    /\ Cardinality(page) <= RowLimit
    /\ \A t \in page, u \in Dirty(l) \ page : l[t].at <= l[u].at

Sent(page) == {[task |-> t, what |-> rows[t].what, at |-> ledger'[t].at] : t \in page \cap Snapshot}

Sync(p) ==
    /\ posts[p] = {} /\ ledger' = Refreshed
    /\ \E page \in SUBSET DOMAIN ledger' :
          OldestDirty(ledger', page) /\ posts' = [posts EXCEPT ![p] = Sent(page)]
    /\ UNCHANGED <<rows, arrived, mirrored, written, changes, faults, ledgerNow>>

Arrive(p) ==
    /\ posts[p] # {} /\ p \notin arrived
    /\ arrived' = arrived \cup {p} /\ mirrored' = mirrored \cup posts[p]
    /\ UNCHANGED <<rows, ledger, posts, written, changes, faults, ledgerNow>>

\* Mutant: the answer marks the row whatever was written since.
Overtaken(v) == v.task \in DOMAIN ledger
StillAsSent(v) == v.task \in DOMAIN ledger /\ ledger[v.task].at = v.at

Marked(vs, success) ==
    LET marked == {v.task : v \in {w \in vs : StillAsSent(w)}}
    IN  [t \in DOMAIN ledger |->
            IF t \notin marked THEN ledger[t]
            ELSE IF success THEN [ledger[t] EXCEPT !.synced = ledgerNow, !.status = "synced"]
            ELSE [ledger[t] EXCEPT !.status = "error"]]

Answered(p, success) ==
    /\ ledger' = Marked(posts[p], success)
    /\ posts' = [posts EXCEPT ![p] = {}] /\ arrived' = arrived \ {p}
    /\ UNCHANGED <<rows, mirrored, written, changes, ledgerNow>>

SyncSucceeds(p) == p \in arrived /\ Answered(p, TRUE) /\ UNCHANGED faults
\* Refused, lost on the way, or the answer is lost.
SyncFails(p) ==
    /\ faults < MaxFaults /\ faults' = faults + 1
    /\ posts[p] # {} /\ Answered(p, FALSE)

-----------------------------------------------------------------------------
\* The process dies and comes back: the database stays, the POSTs are forgotten.
LedgerRestart ==
    /\ faults < MaxFaults /\ faults' = faults + 1
    /\ posts' = [p \in Posts |-> {}] /\ arrived' = {}
    /\ UNCHANGED <<rows, ledger, mirrored, written, changes, ledgerNow>>

LedgerTick ==
    /\ ledgerNow < LedgerTime /\ ledgerNow' = ledgerNow + 1
    /\ UNCHANGED <<rows, ledger, posts, arrived, mirrored, written, changes, faults>>

LedgerNext ==
    \/ \E t \in Tasks : Write(t) \/ Delete(t)
    \/ \E v \in written : PullBack(v)
    \/ \E p \in Posts : Sync(p) \/ Arrive(p) \/ SyncSucceeds(p) \/ SyncFails(p)
    \/ LedgerRestart \/ LedgerTick

LedgerSpec == LedgerInit /\ [][LedgerNext]_ledgerVars

\* The interval never stops, and a POST that neither fails nor dies with the process
\* gets to the cloud and is answered.
FairLedgerSpec ==
    /\ LedgerSpec
    /\ \A p \in Posts : /\ WF_ledgerVars(Sync(p)) /\ WF_ledgerVars(Arrive(p))
                        /\ WF_ledgerVars(SyncSucceeds(p))

-----------------------------------------------------------------------------
(******************************* properties *******************************)
LedgerTypeOK ==
    /\ DOMAIN rows \subseteq Tasks /\ Range(rows) \subseteq Row
    /\ DOMAIN ledger \subseteq DOMAIN rows /\ Range(ledger) \subseteq Entry
    /\ posts \in [Posts -> SUBSET Version]
    /\ arrived \subseteq {p \in Posts : posts[p] # {}} /\ mirrored \subseteq written
    /\ written \subseteq Version
    /\ changes \in 0 .. MaxChanges /\ faults \in 0 .. MaxFaults
    /\ ledgerNow \in 0 .. LedgerTime

\* A ledger row says synced only when the cloud has the task as it is now: a change
\* made while a POST is on its way, a second POST that overlaps the first, a lost
\* answer, a delete and a pull leave no change marked that was never sent.
SyncedMeansReceived ==
    \A t \in DOMAIN ledger :
        ledger[t].status = "synced" =>
            [task |-> t, what |-> rows[t].what, at |-> rows[t].at] \in mirrored

Current(t, what) == t \in DOMAIN rows /\ rows[t].what = what

\* Every change of a task reaches the cloud unless another change or a delete takes
\* its place, through failures and restarts, and whatever test tasks lie about.
ChangesArrive ==
    \A t \in Tasks \ Hidden, what \in 1 .. MaxChanges :
        Current(t, what) ~> \/ ~Current(t, what)
                            \/ \E v \in mirrored : v.task = t /\ v.what = what
=============================================================================
