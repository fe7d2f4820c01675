------------------------- MODULE RecurringTasksProofs -------------------------
(***************************************************************************)
(* Proofs about RecurringTasks for every set of definitions and passes,    *)
(* every schedule and every bound: types, one task for a slot, and no task *)
(* behind an open one unless somebody forced a pass.                       *)
(***************************************************************************)
EXTENDS RecurringTasks, TLAPS

\* Rounding down to a multiple of n loses less than n.
LEMMA NextMultiple ==
    ASSUME NEW a \in Int, NEW n \in Int, n > 0
    PROVE  (a \div n + 1) * n \in Int /\ (a \div n + 1) * n > a
<1>1. (a \div n + 1) * n > a
  OBVIOUS
<1>2. a \div n \in Int
  OBVIOUS
<1> QED
  BY <1>1, <1>2

\* The slot that follows a point in time lies after it.
LEMMA NextRunAtLater ==
    ASSUME NEW r \in Definition, NEW from \in Nat
    PROVE  NextRunAt(r, from) \in Nat /\ NextRunAt(r, from) > from
<1>1. r.every \in Periods /\ r.created \in Nat
  BY DEF Definition
<1>2. r.every \in Int /\ r.every > 0
  <2>1. \A n \in Periods : n \in Int /\ n > 0
    BY NumbersAssumption
  <2> QED
    BY <1>1, <2>1
<1>3. from - r.created \in Int
  BY <1>1
<1> DEFINE step == ((from - r.created) \div r.every + 1) * r.every
<1>4. step \in Int /\ step > from - r.created
  BY <1>2, <1>3, NextMultiple
<1> HIDE DEF step
<1>5. r.created + step \in Nat /\ r.created + step > from
  BY <1>1, <1>4
<1> QED
  BY <1>5 DEF NextRunAt, step

\* Writing the table keeps its rows and its primary key.
LEMMA UpsertedRows ==
    ASSUME disk \subseteq Defs \X Definition,
           \A a, b \in disk : a[1] = b[1] => a = b,
           NEW h \in [Defs -> Seq(Definition)], NEW m \in [Defs -> Nat],
           \A d \in Defs : m[d] \in 0 .. Len(h[d])
    PROVE  /\ Upserted(h, m) \subseteq Defs \X Definition
           /\ \A a, b \in Upserted(h, m) : a[1] = b[1] => a = b
<1>1. \A d \in Defs : m[d] # 0 => h[d][m[d]] \in Definition
  <2> SUFFICES ASSUME NEW d \in Defs, m[d] # 0 PROVE h[d][m[d]] \in Definition
    OBVIOUS
  <2>1. h[d] \in Seq(Definition) /\ m[d] \in 1 .. Len(h[d])
    OBVIOUS
  <2> QED
    BY <2>1
<1>2. Upserted(h, m) \subseteq Defs \X Definition
  BY <1>1 DEF Upserted
<1>3. ASSUME NEW a \in Upserted(h, m), NEW b \in Upserted(h, m), a[1] = b[1]
      PROVE  a = b
  <2>1. CASE m[a[1]] = 0
    <3>1. a \in disk /\ b \in disk
      BY <1>3, <2>1 DEF Upserted
    <3> QED
      BY <1>3, <3>1
  <2>2. CASE m[a[1]] # 0
    BY <1>3, <2>2 DEF Upserted
  <2> QED
    BY <2>1, <2>2
<1> QED
  BY <1>2, <1>3
-----------------------------------------------------------------------------
(***************************** one task a slot ****************************)

\* What a step does to the tasks: nothing, it moves one, or a pass adds one.
TasksMoved(k, status) ==
    /\ k \in DOMAIN tasks /\ tasks[k].status # "gone" /\ status # "open"
    /\ tasks' = [tasks EXCEPT ![k].status = status]
TaskAdded(p) ==
    LET d == pass[p].def slot == heap[d][pass[p].obj].nextRunAt IN
    /\ pass[p].state = "work"
    /\ pass[p].force \/ ~OpenPredecessor(d)
    /\ ~hasMaterializedRun(d, slot)
    /\ tasks' = Append(tasks, [def |-> d, slot |-> slot, status |-> "open",
                               forced |-> pass[p].force, late |-> d \in deleted])

\* Every step changes the tasks in one of these ways.
LEMMA TaskSteps ==
    ASSUME [Next]_vars
    PROVE  \/ tasks' = tasks
           \/ \E k \in DOMAIN tasks, status \in {"done", "cancelled", "gone"} :
                 TasksMoved(k, status)
           \/ \E p \in Passes : TaskAdded(p)
<1>1. CASE UNCHANGED vars
  BY <1>1 DEF vars
<1>2. CASE \E p \in Passes, force \in Forces : Begin(p, force)
  BY <1>2 DEF Begin
<1>3. ASSUME NEW p \in Passes, Scan(p) PROVE tasks' = tasks
  BY <1>3 DEF Scan
<1>4. ASSUME NEW p \in Passes, Work(p) PROVE tasks' = tasks \/ TaskAdded(p)
  BY <1>4 DEF Work, TaskAdded
<1>5. ASSUME NEW p \in Passes, Created(p) PROVE tasks' = tasks
  BY <1>5 DEF Created
<1>6. CASE \E d \in Defs, every \in Periods, enabled \in BOOLEAN :
             Create(d, every, enabled)
  BY <1>6 DEF Create, Put
<1>7. CASE \E d \in Defs, enabled \in BOOLEAN : Enable(d, enabled)
  BY <1>7 DEF Enable, Put
<1>8. CASE \E d \in Defs, every \in Periods : Reschedule(d, every)
  BY <1>8 DEF Reschedule, Put
<1>9. CASE \E d \in Defs : Remove(d) \/ LoseBlocker(d)
  BY <1>9 DEF Remove, LoseBlocker
<1>10. ASSUME NEW k \in DOMAIN tasks, NEW status \in {"done", "cancelled", "gone"},
              MoveTask(k, status)
       PROVE  TasksMoved(k, status)
  BY <1>10 DEF MoveTask, TasksMoved
<1>11. CASE Tick \/ Restart
  BY <1>11 DEF Tick, Restart
<1> QED
  BY <1>1, <1>2, <1>3, <1>4, <1>5, <1>6, <1>7, <1>8, <1>9, <1>10, <1>11 DEF Next

\* Moving a task leaves the others, and of its fields all but the status.
LEMMA MovedTasks ==
    ASSUME tasks \in Seq(Task), NEW k \in DOMAIN tasks,
           NEW status \in {"done", "cancelled", "gone"}, TasksMoved(k, status)
    PROVE  /\ tasks' \in Seq(Task) /\ DOMAIN tasks' = DOMAIN tasks
           /\ \A j \in DOMAIN tasks :
                /\ tasks'[j].def = tasks[j].def /\ tasks'[j].slot = tasks[j].slot
                /\ tasks'[j].forced = tasks[j].forced
                /\ tasks'[j].status = IF j = k THEN status ELSE tasks[j].status
<1> DEFINE t == [tasks[k] EXCEPT !.status = status]
<1>1. tasks[k] \in Task
  OBVIOUS
<1>2. /\ t \in Task /\ t.def = tasks[k].def /\ t.slot = tasks[k].slot
      /\ t.forced = tasks[k].forced /\ t.status = status
  BY <1>1 DEF Task
<1>3. tasks' = [tasks EXCEPT ![k] = t]
  BY DEF TasksMoved
<1> HIDE DEF t
<1> QED
  BY <1>2, <1>3

\* A slot keeps one task.
LEMMA UniqueStep ==
    ASSUME tasks \in Seq(Task), OneInstancePerSlot, [Next]_vars
    PROVE  OneInstancePerSlot'
<1>1. CASE tasks' = tasks
  BY <1>1 DEF OneInstancePerSlot, Present
<1>2. ASSUME NEW k \in DOMAIN tasks, NEW status \in {"done", "cancelled", "gone"},
             TasksMoved(k, status)
      PROVE  OneInstancePerSlot'
  <2>1. \A j \in DOMAIN tasks : tasks'[j].status # "gone" => tasks[j].status # "gone"
    BY <1>2, MovedTasks DEF TasksMoved
  <2> QED
    BY <1>2, <2>1, MovedTasks DEF OneInstancePerSlot, Present
<1>3. ASSUME NEW p \in Passes, TaskAdded(p)
      PROVE  OneInstancePerSlot'
  <2> DEFINE d == pass[p].def
             slot == heap[d][pass[p].obj].nextRunAt
             t == [def |-> d, slot |-> slot, status |-> "open",
                   forced |-> pass[p].force, late |-> d \in deleted]
             n == Len(tasks) + 1
  <2>1. tasks' = Append(tasks, t) /\ t.def = d /\ t.slot = slot
    BY <1>3 DEF TaskAdded
  <2>2. \A j \in DOMAIN tasks :
          ~(tasks[j].def = d /\ tasks[j].slot = slot /\ tasks[j].status # "gone")
    BY <1>3 DEF TaskAdded, hasMaterializedRun, Instances, Present
  <2> HIDE DEF t, d, slot
  <2>3. /\ DOMAIN tasks' = DOMAIN tasks \cup {n} /\ tasks'[n] = t
        /\ \A j \in DOMAIN tasks : tasks'[j] = tasks[j]
    BY <2>1
  <2>4. ASSUME NEW j \in DOMAIN tasks', NEW k \in DOMAIN tasks',
               tasks'[j].status # "gone", tasks'[k].status # "gone",
               tasks'[j].def = tasks'[k].def, tasks'[j].slot = tasks'[k].slot
        PROVE  j = k
    <3>1. CASE j \in DOMAIN tasks /\ k \in DOMAIN tasks
      BY <2>3, <2>4, <3>1 DEF OneInstancePerSlot, Present
    <3>2. CASE j = n /\ k = n
      BY <3>2
    <3>3. CASE j = n /\ k \in DOMAIN tasks
      BY <2>1, <2>2, <2>3, <2>4, <3>3
    <3>4. CASE j \in DOMAIN tasks /\ k = n
      BY <2>1, <2>2, <2>3, <2>4, <3>4
    <3> QED
      BY <2>3, <3>1, <3>2, <3>3, <3>4
  <2> QED
    BY <2>4 DEF OneInstancePerSlot, Present
<1> QED
  BY <1>1, <1>2, <1>3, TaskSteps

\* A task goes behind an open one only when the pass that adds it, or one that
\* added a task in between, is forced.
LEMMA PileStep ==
    ASSUME tasks \in Seq(Task), OnlyForcePilesUp, [Next]_vars
    PROVE  OnlyForcePilesUp'
<1>1. CASE tasks' = tasks
  BY <1>1 DEF OnlyForcePilesUp
<1>2. ASSUME NEW k \in DOMAIN tasks, NEW status \in {"done", "cancelled", "gone"},
             TasksMoved(k, status)
      PROVE  OnlyForcePilesUp'
  <2> SUFFICES ASSUME NEW j \in DOMAIN tasks, NEW l \in DOMAIN tasks, j < l,
                      tasks'[j].def = tasks'[l].def, tasks'[j].status = "open"
               PROVE  \E i \in j + 1 .. l : tasks'[i].def = tasks'[l].def /\ tasks'[i].forced
    BY <1>2, MovedTasks DEF OnlyForcePilesUp
  <2>1. tasks[j].def = tasks[l].def /\ tasks[j].status = "open"
    BY <1>2, MovedTasks
  <2>2. PICK i \in j + 1 .. l : tasks[i].def = tasks[l].def /\ tasks[i].forced
    BY <2>1 DEF OnlyForcePilesUp
  <2>3. i \in DOMAIN tasks
    BY <2>2
  <2> QED
    BY <1>2, <2>2, <2>3, MovedTasks
<1>3. ASSUME NEW p \in Passes, TaskAdded(p)
      PROVE  OnlyForcePilesUp'
  <2> DEFINE d == pass[p].def
             slot == heap[d][pass[p].obj].nextRunAt
             t == [def |-> d, slot |-> slot, status |-> "open",
                   forced |-> pass[p].force, late |-> d \in deleted]
             n == Len(tasks) + 1
  <2>1. tasks' = Append(tasks, t) /\ t.def = d /\ t.forced = pass[p].force
    BY <1>3 DEF TaskAdded
  <2>2. t.forced \/ ~OpenPredecessor(d)
    BY <1>3, <2>1 DEF TaskAdded
  <2> HIDE DEF t, d, slot
  <2>3. /\ DOMAIN tasks' = DOMAIN tasks \cup {n} /\ tasks'[n] = t /\ n \in Nat
        /\ \A j \in DOMAIN tasks : tasks'[j] = tasks[j] /\ j < n /\ j \in Nat
    BY <2>1
  \* Behind an open task of d there is a later one of d, or the pass had skipped.
  <2>4. ASSUME NEW j \in DOMAIN tasks, tasks[j].def = d, tasks[j].status = "open",
               ~t.forced
        PROVE  \E i \in j + 1 .. n : tasks'[i].def = d /\ tasks'[i].forced
    <3>1. j \in Instances(d)
      BY <2>4 DEF Instances, Present
    <3>2. PICK k \in Instances(d) : ~(k <= j)
      BY <2>2, <2>4, <3>1 DEF OpenPredecessor
    <3>3. k \in DOMAIN tasks /\ j < k /\ tasks[k].def = d
      BY <2>3, <3>2 DEF Instances
    <3>4. PICK i \in j + 1 .. k : tasks[i].def = tasks[k].def /\ tasks[i].forced
      BY <2>4, <3>3 DEF OnlyForcePilesUp
    <3>5. i \in DOMAIN tasks
      BY <2>3, <3>3, <3>4
    <3>6. i \in j + 1 .. n
      BY <2>3, <3>3, <3>4, <3>5
    <3> QED
      BY <2>3, <3>3, <3>4, <3>5, <3>6
  <2>5. ASSUME NEW j \in DOMAIN tasks', NEW k \in DOMAIN tasks', j < k,
               tasks'[j].def = tasks'[k].def, tasks'[j].status = "open"
        PROVE  \E i \in j + 1 .. k : tasks'[i].def = tasks'[k].def /\ tasks'[i].forced
    <3>1. CASE k \in DOMAIN tasks
      <4>1. j \in DOMAIN tasks
        BY <2>3, <2>5, <3>1
      <4>2. PICK i \in j + 1 .. k : tasks[i].def = tasks[k].def /\ tasks[i].forced
        BY <2>3, <2>5, <3>1, <4>1 DEF OnlyForcePilesUp
      <4>3. i \in DOMAIN tasks
        BY <2>3, <3>1, <4>1, <4>2
      <4> QED
        BY <2>3, <3>1, <4>2, <4>3
    <3>2. CASE k = n
      <4>1. j \in DOMAIN tasks /\ tasks[j].def = d /\ tasks[j].status = "open"
        BY <2>1, <2>3, <2>5, <3>2
      <4>2. CASE t.forced
        BY <2>1, <2>3, <3>2, <4>1, <4>2
      <4>3. CASE ~t.forced
        BY <2>1, <2>3, <2>4, <3>2, <4>1, <4>3
      <4> QED
        BY <4>2, <4>3
    <3> QED
      BY <2>3, <3>1, <3>2
  <2> QED
    BY <2>5 DEF OnlyForcePilesUp
<1> QED
  BY <1>1, <1>2, <1>3, TaskSteps
-----------------------------------------------------------------------------
(***************************** type correctness ***************************)

\* The conjuncts of TypeOK that belong together.
Objects ==
    /\ heap \in [Defs -> Seq(Definition)] /\ map \in [Defs -> Nat]
    /\ \A d \in Defs : map[d] \in 0 .. Len(heap[d])
Rows ==
    /\ disk \subseteq Defs \X Definition
    /\ \A a, b \in disk : a[1] = b[1] => a = b
Holding(pp, h) ==
    \A p \in Passes : pp[p].state \in {"work", "creating"} =>
        pp[p].def \in Defs /\ pp[p].obj \in 1 .. Len(h[pp[p].def])
PassTypes == pass \in [Passes -> Pass] /\ Holding(pass, heap)
Rest ==
    /\ running \in Passes \cup {NoPass}
    /\ broken \subseteq Defs /\ deleted \subseteq Defs
    /\ now \in Nat /\ restarts \in Nat

\* TypeOK is their conjunction.
LEMMA TypeParts ==
    TypeOK <=> Objects /\ Rows /\ tasks \in Seq(Task) /\ PassTypes /\ Rest
BY DEF TypeOK, Objects, Rows, PassTypes, Holding, Rest

\* An idle pass is a pass that holds nothing.
LEMMA IdlePassType == IdlePass \in Pass /\ IdlePass.state = "idle"
BY DEF IdlePass, Pass

\* A definition in use is a definition.
LEMMA InMemoryType ==
    ASSUME Objects, NEW d \in Live
    PROVE  d \in Defs /\ map[d] \in 1 .. Len(heap[d]) /\ InMemory(d) \in Definition
<1>1. d \in Defs /\ map[d] \in 1 .. Len(heap[d]) /\ heap[d] \in Seq(Definition)
  BY DEF Objects, Live
<1> QED
  BY <1>1 DEF InMemory

\* Settling a slot keeps the objects and the passes well-formed.
LEMMA SettledTypes ==
    ASSUME TypeOK, NEW p \in Passes, pass[p].state \in {"work", "creating"},
           NEW slot \in Nat, Settled(p, slot)
    PROVE  /\ heap' \in [Defs -> Seq(Definition)]
           /\ \A d \in Defs : Len(heap'[d]) = Len(heap[d])
           /\ pass' \in [Passes -> Pass] /\ Holding(pass', heap')
<1> DEFINE d == pass[p].def
           o == pass[p].obj
           r == [heap[d][o] EXCEPT !.nextRunAt = NextRunAt(heap[d][o], slot)]
           q == [pass[p] EXCEPT !.state = "work", !.changed = TRUE, !.count = @ + 1]
<1>1. d \in Defs /\ o \in 1 .. Len(heap[d]) /\ heap[d] \in Seq(Definition)
  BY TypeParts DEF PassTypes, Holding, Objects
<1>2. heap[d][o] \in Definition
  BY <1>1
<1>3. r \in Definition
  <2>1. NextRunAt(heap[d][o], slot) \in Nat
    BY <1>2, NextRunAtLater
  <2> QED
    BY <1>2, <2>1 DEF Definition
<1>4. heap' = [heap EXCEPT ![d] = [heap[d] EXCEPT ![o] = r]]
  BY DEF Settled
<1>5. pass' = [pass EXCEPT ![p] = q]
  BY DEF Settled
<1>6. q \in Pass /\ q.def = d /\ q.obj = o
  <2>1. pass[p] \in Pass
    BY TypeParts DEF PassTypes
  <2>2. ASSUME NEW x \in Pass
        PROVE  [x EXCEPT !.state = "work", !.changed = TRUE, !.count = @ + 1] \in Pass
    <3>1. x.count + 1 \in Nat
      BY DEF Pass
    <3>2. \A y \in Pass, c \in Nat : [y EXCEPT !.count = c] \in Pass
      BY DEF Pass
    <3>3. \A y \in Pass : [y EXCEPT !.state = "work"] \in Pass
      BY DEF Pass
    <3>4. \A y \in Pass : [y EXCEPT !.changed = TRUE] \in Pass
      BY DEF Pass
    <3>5. [x EXCEPT !.state = "work", !.changed = TRUE, !.count = @ + 1]
            = [[[x EXCEPT !.state = "work"] EXCEPT !.changed = TRUE]
                  EXCEPT !.count = x.count + 1]
      BY DEF Pass
    <3> QED
      BY <3>1, <3>2, <3>3, <3>4, <3>5
  <2>3. q \in Pass
    BY <2>1, <2>2
  <2> QED
    BY <2>1, <2>3 DEF Pass
<1> HIDE DEF r, q
<1>7. [heap[d] EXCEPT ![o] = r] \in Seq(Definition)
      /\ Len([heap[d] EXCEPT ![o] = r]) = Len(heap[d])
  BY <1>1, <1>3
<1>8. heap \in [Defs -> Seq(Definition)] /\ pass \in [Passes -> Pass]
      /\ Holding(pass, heap)
  BY TypeParts DEF Objects, PassTypes
<1> HIDE DEF d, o
<1>9. heap' \in [Defs -> Seq(Definition)] /\ \A e \in Defs : Len(heap'[e]) = Len(heap[e])
  BY <1>1, <1>4, <1>7, <1>8
<1>10. pass' \in [Passes -> Pass]
  BY <1>5, <1>6, <1>8
<1>11. Holding(pass', heap')
  <2> SUFFICES ASSUME NEW x \in Passes, pass'[x].state \in {"work", "creating"}
               PROVE  /\ pass'[x].def \in Defs
                      /\ pass'[x].obj \in 1 .. Len(heap'[pass'[x].def])
    BY DEF Holding
  <2>1. CASE x = p
    BY <1>1, <1>5, <1>6, <1>8, <1>9, <2>1
  <2>2. CASE x # p
    BY <1>5, <1>8, <1>9, <2>2 DEF Holding
  <2> QED
    BY <2>1, <2>2
<1> QED
  BY <1>9, <1>10, <1>11

\* A new object in the Map keeps the types.
LEMMA PutTypes ==
    ASSUME TypeOK, NEW d \in Defs, NEW r \in Definition, Put(d, r)
    PROVE  TypeOK'
<1>1. Objects /\ Rows /\ tasks \in Seq(Task) /\ PassTypes /\ Rest
  BY TypeParts
<1>2. heap' = [heap EXCEPT ![d] = Append(heap[d], r)]
      /\ map' = [map EXCEPT ![d] = Len(heap[d]) + 1] /\ disk' = Upserted(heap', map')
  BY DEF Put
<1>3. /\ Append(heap[d], r) \in Seq(Definition)
      /\ Len(Append(heap[d], r)) = Len(heap[d]) + 1
      /\ Len(heap[d]) \in Nat
  BY <1>1 DEF Objects
<1>4. Objects'
  BY <1>1, <1>2, <1>3 DEF Objects
<1>5. Rows'
  <2>1. /\ Upserted(heap', map') \subseteq Defs \X Definition
        /\ \A a, b \in Upserted(heap', map') : a[1] = b[1] => a = b
    BY <1>1, <1>4, UpsertedRows DEF Objects, Rows
  <2> QED
    BY <1>2, <2>1 DEF Rows
<1>6. PassTypes'
  <2>1. \A e \in Defs : Len(heap'[e]) >= Len(heap[e]) /\ Len(heap'[e]) \in Nat
                        /\ Len(heap[e]) \in Nat
    BY <1>1, <1>2, <1>3 DEF Objects
  <2>2. pass' = pass
    BY DEF Put
  <2>3. Holding(pass, heap')
    BY <1>1, <2>1 DEF PassTypes, Holding
  <2> QED
    BY <1>1, <2>2, <2>3 DEF PassTypes
<1>7. tasks' \in Seq(Task) /\ Rest'
  BY <1>1 DEF Put, Rest
<1> QED
  BY <1>4, <1>5, <1>6, <1>7 DEF TypeOK, Objects, Rows, PassTypes, Holding, Rest

\* One round of the loop keeps the types.
LEMMA WorkTypes ==
    ASSUME TypeOK, NEW p \in Passes, Work(p)
    PROVE  TypeOK'
<1> DEFINE d == pass[p].def
           slot == heap[d][pass[p].obj].nextRunAt
<1>1. Objects /\ Rows /\ tasks \in Seq(Task) /\ PassTypes /\ Rest
  BY TypeParts
<1>2. pass[p].state = "work" /\ pass[p] \in Pass
  BY <1>1 DEF Work, PassTypes
<1>3. d \in Defs /\ heap[d][pass[p].obj] \in Definition /\ slot \in Nat
  <2>1. d \in Defs /\ pass[p].obj \in 1 .. Len(heap[d]) /\ heap[d] \in Seq(Definition)
    BY <1>1, <1>2 DEF PassTypes, Holding, Objects
  <2>2. heap[d][pass[p].obj] \in Definition
    BY <2>1
  <2> QED
    BY <2>1, <2>2 DEF Definition
<1>4. UNCHANGED <<map, disk, broken, now, restarts, deleted>>
  BY DEF Work
<1>5. CASE \/ pass' = [pass EXCEPT ![p].state = "scan"]
           \/ pass' = [pass EXCEPT ![p] = IdlePass]
  <2>1. heap' = heap /\ tasks' = tasks /\ running' \in Passes \cup {NoPass}
    BY <1>1, <1>2, <1>5, IdlePassType DEF Work, Rest, Settled, PassTypes, Pass
  <2>2. ASSUME pass' = [pass EXCEPT ![p] = IdlePass]
        PROVE  pass' \in [Passes -> Pass] /\ Holding(pass', heap)
    BY <1>1, <1>2, <2>2, IdlePassType DEF PassTypes, Holding
  <2>3. ASSUME pass' = [pass EXCEPT ![p].state = "scan"]
        PROVE  pass' \in [Passes -> Pass] /\ Holding(pass', heap)
    <3> DEFINE q == [pass[p] EXCEPT !.state = "scan"]
    <3>1. q \in Pass /\ q.state = "scan"
      BY <1>2 DEF Pass
    <3>2. pass' = [pass EXCEPT ![p] = q]
      BY <2>3
    <3> HIDE DEF q
    <3> QED
      BY <1>1, <3>1, <3>2 DEF PassTypes, Holding
  <2> QED
    BY <1>1, <1>4, <1>5, <2>1, <2>2, <2>3
       DEF TypeOK, Objects, Rows, PassTypes, Holding, Rest
<1>6. CASE Settled(p, slot) /\ UNCHANGED <<tasks, running>>
  BY <1>1, <1>2, <1>3, <1>4, <1>6, SettledTypes
     DEF TypeOK, Objects, Rows, PassTypes, Holding, Rest
<1>7. CASE /\ tasks' = Append(tasks, [def |-> d, slot |-> slot, status |-> "open",
                                      forced |-> pass[p].force, late |-> d \in deleted])
           /\ pass' = [pass EXCEPT ![p].state = "creating", ![p].slot = slot]
           /\ running' = NoPass /\ heap' = heap
  <2>0. pass[p].force \in BOOLEAN
    BY <1>2 DEF Pass
  <2>1. [def |-> d, slot |-> slot, status |-> "open", forced |-> pass[p].force,
         late |-> d \in deleted] \in Task
    BY <1>3, <2>0 DEF Task
  <2>2. tasks' \in Seq(Task)
    BY <1>1, <1>7, <2>1
  <2>3. pass' \in [Passes -> Pass]
    <3> DEFINE q == [pass[p] EXCEPT !.state = "creating", !.slot = slot]
    <3>1. q \in Pass
      BY <1>2, <1>3 DEF Pass
    <3>2. pass' = [pass EXCEPT ![p] = q]
      BY <1>7
    <3> HIDE DEF q
    <3> QED
      BY <1>1, <3>1, <3>2 DEF PassTypes
  <2>4. Holding(pass', heap)
    <3> SUFFICES ASSUME NEW x \in Passes PROVE pass'[x].def = pass[x].def
            /\ pass'[x].obj = pass[x].obj /\ (x # p => pass'[x].state = pass[x].state)
      BY <1>1, <1>2 DEF PassTypes, Holding
    <3> QED
      BY <1>1, <1>7 DEF PassTypes, Pass
  <2> QED
    BY <1>1, <1>4, <1>7, <2>2, <2>3, <2>4
       DEF TypeOK, Objects, Rows, PassTypes, Holding, Rest
<1> QED
  BY <1>5, <1>6, <1>7 DEF Work

\* The loop header takes an object or ends the pass.
LEMMA ScanEffect ==
    ASSUME NEW p \in Passes, Scan(p)
    PROVE  \/ \E d \in Live, state \in {"work", "scan"} :
                /\ pass' = [pass EXCEPT ![p].def = d, ![p].obj = map[d], ![p].count = 0,
                                        ![p].state = state]
                /\ UNCHANGED <<disk, running>>
           \/ /\ disk' = IF pass[p].changed THEN Upserted(heap, map) ELSE disk
              /\ pass' = [pass EXCEPT ![p] = IdlePass] /\ running' = NoPass
<1> DEFINE rest == {d \in Live : d > pass[p].def}
<1>1. CASE rest = {}
  BY <1>1 DEF Scan
<1>2. CASE rest # {}
  <2>1. PICK d \in Live :
          /\ pass' = [pass EXCEPT ![p].def = d, ![p].obj = map[d], ![p].count = 0,
                         ![p].state = IF InMemory(d).enabled THEN "work" ELSE "scan"]
          /\ UNCHANGED <<disk, running>>
    BY <1>2 DEF Scan
  <2> DEFINE state == IF InMemory(d).enabled THEN "work" ELSE "scan"
  <2>2. state \in {"work", "scan"}
    OBVIOUS
  <2> QED
    BY <2>1, <2>2
<1> QED
  BY <1>1, <1>2

\* The loop header keeps the types.
LEMMA ScanTypes ==
    ASSUME TypeOK, NEW p \in Passes, Scan(p)
    PROVE  TypeOK'
<1>1. Objects /\ Rows /\ tasks \in Seq(Task) /\ PassTypes /\ Rest
  BY TypeParts
<1>2. UNCHANGED <<heap, map, tasks, broken, now, restarts, deleted>>
  BY DEF Scan
<1>3. pass[p] \in Pass
  BY <1>1 DEF PassTypes
<1>4. ASSUME NEW d \in Live, NEW state \in {"work", "scan"},
             pass' = [pass EXCEPT ![p].def = d, ![p].obj = map[d], ![p].count = 0,
                                  ![p].state = state],
             UNCHANGED <<disk, running>>
      PROVE  TypeOK'
  <2> DEFINE q == [pass[p] EXCEPT !.def = d, !.obj = map[d], !.count = 0, !.state = state]
  <2>1. d \in Defs /\ map[d] \in 1 .. Len(heap[d]) /\ map[d] \in Nat
    BY <1>1, InMemoryType DEF Objects
  <2>2. q \in Pass /\ q.def = d /\ q.obj = map[d]
    BY <1>3, <2>1 DEF Pass
  <2>3. pass' = [pass EXCEPT ![p] = q]
    BY <1>4
  <2> HIDE DEF q
  <2>4. pass' \in [Passes -> Pass] /\ Holding(pass', heap)
    BY <1>1, <2>1, <2>2, <2>3 DEF PassTypes, Holding
  <2> QED
    BY <1>1, <1>2, <1>4, <2>4 DEF TypeOK, Objects, Rows, PassTypes, Holding, Rest
<1>5. ASSUME disk' = IF pass[p].changed THEN Upserted(heap, map) ELSE disk,
             pass' = [pass EXCEPT ![p] = IdlePass], running' = NoPass
      PROVE  TypeOK'
  <2>1. Rows'
    <3>1. /\ Upserted(heap, map) \subseteq Defs \X Definition
          /\ \A a, b \in Upserted(heap, map) : a[1] = b[1] => a = b
      BY <1>1, UpsertedRows DEF Objects, Rows
    <3> QED
      BY <1>1, <1>5, <3>1 DEF Rows
  <2>2. pass' \in [Passes -> Pass] /\ Holding(pass', heap)
    BY <1>1, <1>5, IdlePassType DEF PassTypes, Holding
  <2> QED
    BY <1>1, <1>2, <1>5, <2>1, <2>2 DEF TypeOK, Objects, Rows, PassTypes, Holding, Rest
<1> QED
  BY <1>4, <1>5, ScanEffect

\* A restart reads well-formed rows.
LEMMA RestartTypes ==
    ASSUME TypeOK, Restart
    PROVE  TypeOK'
<1>1. Objects /\ Rows /\ tasks \in Seq(Task) /\ PassTypes /\ Rest
  BY TypeParts
<1> DEFINE Stored(d) == \E row \in disk : row[1] = d
           Read(d) == (CHOOSE row \in disk : row[1] = d)[2]
<1>2. \A d \in Defs : Stored(d) => Read(d) \in Definition
  BY <1>1 DEF Rows
<1>3. heap' = [d \in Defs |-> IF Stored(d) THEN <<Read(d)>> ELSE <<>>]
      /\ map' = [d \in Defs |-> IF Stored(d) THEN 1 ELSE 0]
  BY DEF Restart
<1> HIDE DEF Stored, Read
<1>4. \A r \in Definition : <<r>> \in Seq(Definition) /\ Len(<<r>>) = 1
  OBVIOUS
<1>5. Objects'
  BY <1>2, <1>3, <1>4 DEF Objects
<1>6. PassTypes'
  <2>1. pass' = [x \in Passes |-> IdlePass]
    BY DEF Restart
  <2> QED
    BY <2>1, IdlePassType DEF PassTypes, Holding
<1>7. UNCHANGED <<disk, tasks, broken, now, deleted>> /\ restarts' \in Nat
      /\ running' = NoPass
  BY <1>1 DEF Restart, Rest
<1>8. Rows' /\ tasks' \in Seq(Task) /\ Rest'
  BY <1>1, <1>7 DEF Rows, Rest
<1> HIDE DEF Restart
<1> QED
  BY <1>5, <1>6, <1>8 DEF TypeOK, Objects, Rows, PassTypes, Holding, Rest

\* Every step keeps the types.
LEMMA TypeStep == TypeOK /\ [Next]_vars => TypeOK'
<1> SUFFICES ASSUME TypeOK, [Next]_vars PROVE TypeOK'
  OBVIOUS
<1>1. Objects /\ Rows /\ tasks \in Seq(Task) /\ PassTypes /\ Rest
  BY TypeParts
<1>2. CASE UNCHANGED vars
  BY <1>2 DEF vars, TypeOK
<1>3. ASSUME NEW p \in Passes, NEW force \in Forces, Begin(p, force) PROVE TypeOK'
  <2> DEFINE q == [IdlePass EXCEPT !.state = "scan", !.now = now, !.force = force]
  <2>1. q \in Pass /\ q.state = "scan"
    BY <1>1, PassesAssumption DEF IdlePass, Pass, Rest
  <2>2. pass' = [pass EXCEPT ![p] = q]
    BY <1>3 DEF Begin
  <2> HIDE DEF q
  <2>3. pass' \in [Passes -> Pass] /\ Holding(pass', heap)
    BY <1>1, <2>1, <2>2 DEF PassTypes, Holding
  <2> QED
    BY <1>1, <1>3, <2>3 DEF Begin, TypeOK, Objects, Rows, PassTypes, Holding, Rest
<1>4. ASSUME NEW p \in Passes, Created(p) PROVE TypeOK'
  <2>1. pass[p].state = "creating" /\ pass[p].slot \in Nat /\ Settled(p, pass[p].slot)
    BY <1>1, <1>4 DEF Created, PassTypes, Pass
  <2> QED
    BY <1>1, <1>4, <2>1, SettledTypes
       DEF Created, TypeOK, Objects, Rows, PassTypes, Holding, Rest
<1>5. ASSUME NEW d \in Defs, NEW every \in Periods, NEW enabled \in BOOLEAN,
             Create(d, every, enabled)
      PROVE  TypeOK'
  <2> DEFINE r == [enabled |-> enabled, every |-> every, created |-> now, nextRunAt |-> now]
  <2>1. r \in Definition
    BY <1>1 DEF Definition, Rest
  <2>2. NextRunAt(r, now) \in Nat
    BY <1>1, <2>1, NextRunAtLater DEF Rest
  <2>3. [r EXCEPT !.nextRunAt = NextRunAt(r, now)] \in Definition
    BY <2>1, <2>2 DEF Definition
  <2>4. Put(d, [r EXCEPT !.nextRunAt = NextRunAt(r, now)])
    BY <1>5 DEF Create
  <2> QED
    BY <2>3, <2>4, PutTypes
<1>6. ASSUME NEW d \in Defs, NEW enabled \in BOOLEAN, Enable(d, enabled)
      PROVE  TypeOK'
  <2>1. InMemory(d) \in Definition
    BY <1>1, <1>6, InMemoryType DEF Enable
  <2>2. [InMemory(d) EXCEPT !.enabled = enabled] \in Definition
    BY <2>1 DEF Definition
  <2> QED
    BY <1>6, <2>2, PutTypes DEF Enable
<1>7. ASSUME NEW d \in Defs, NEW every \in Periods, Reschedule(d, every)
      PROVE  TypeOK'
  <2> DEFINE r == [InMemory(d) EXCEPT !.every = every]
  <2>1. InMemory(d) \in Definition
    BY <1>1, <1>7, InMemoryType DEF Reschedule
  <2>2. r \in Definition
    BY <2>1 DEF Definition
  <2>3. NextRunAt(r, now) \in Nat
    BY <1>1, <2>2, NextRunAtLater DEF Rest
  <2>4. Put(d, [r EXCEPT !.nextRunAt = NextRunAt(r, now)])
    BY <1>7 DEF Reschedule
  <2> HIDE DEF r
  <2>5. [r EXCEPT !.nextRunAt = NextRunAt(r, now)] \in Definition
    BY <2>2, <2>3 DEF Definition
  <2> QED
    BY <2>4, <2>5, PutTypes
<1>8. ASSUME NEW d \in Defs, Remove(d) PROVE TypeOK'
  <2>1. Objects'
    BY <1>1, <1>8 DEF Remove, Objects
  <2>2. /\ Upserted(heap, map') \subseteq Defs \X Definition
        /\ \A a, b \in Upserted(heap, map') : a[1] = b[1] => a = b
    <3>1. heap' = heap
      BY <1>8 DEF Remove
    <3> QED
      BY <1>1, <2>1, <3>1, UpsertedRows DEF Objects, Rows
  <2>3. Rows'
    BY <1>8, <2>2 DEF Remove, Rows
  <2> QED
    BY <1>1, <1>8, <2>1, <2>3 DEF Remove, TypeOK, Objects, Rows, PassTypes, Holding, Rest
<1>9. ASSUME NEW k \in DOMAIN tasks, NEW status \in {"done", "cancelled", "gone"},
             MoveTask(k, status)
      PROVE  TypeOK'
  <2>1. TasksMoved(k, status)
    BY <1>9 DEF MoveTask, TasksMoved
  <2>2. tasks' \in Seq(Task)
    BY <1>1, <2>1, MovedTasks
  <2> QED
    BY <1>1, <1>9, <2>2 DEF MoveTask, TypeOK, Objects, Rows, PassTypes, Holding, Rest
<1>10. ASSUME NEW d \in Defs, LoseBlocker(d) PROVE TypeOK'
  BY <1>10 DEF LoseBlocker, TypeOK
<1>11. CASE Tick
  BY <1>11 DEF Tick, TypeOK
<1> QED
  BY <1>2, <1>3, <1>4, <1>5, <1>6, <1>7, <1>8, <1>9, <1>10, <1>11,
     ScanTypes, WorkTypes, RestartTypes DEF Next

\* Nothing is in memory or on disk at first.
LEMMA TypeInit == Init => TypeOK
BY IdlePassType DEF Init, TypeOK

-----------------------------------------------------------------------------
(******************************** theorems ********************************)

\* TypeOK: the passes hold objects that exist, the table keeps its primary key.
THEOREM TypeCorrect == Spec => []TypeOK
BY TypeInit, TypeStep, PTL DEF Spec

\* OneInstancePerSlot: materializeDueRecurringTasks makes at most one task for a
\* slot, whatever passes, edits, deletions and restarts come in between.
THEOREM SlotCorrect == Spec => []OneInstancePerSlot
<1>1. Init => OneInstancePerSlot
  BY DEF Init, OneInstancePerSlot
<1>2. TypeOK /\ OneInstancePerSlot /\ [Next]_vars => OneInstancePerSlot'
  BY UniqueStep DEF TypeOK
<1> QED
  BY <1>1, <1>2, TypeCorrect, PTL DEF Spec

\* OnlyForcePilesUp: passes that run at the same time never put a task behind an
\* open one of the same definition; it takes a pass that somebody forced.
THEOREM OpenCorrect == Spec => []OnlyForcePilesUp
<1>1. Init => OnlyForcePilesUp
  BY DEF Init, OnlyForcePilesUp
<1>2. TypeOK /\ OnlyForcePilesUp /\ [Next]_vars => OnlyForcePilesUp'
  BY PileStep DEF TypeOK
<1> QED
  BY <1>1, <1>2, TypeCorrect, PTL DEF Spec
=============================================================================
