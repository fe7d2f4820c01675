------------------------ MODULE TaskDependenciesProofs ------------------------
(***************************************************************************)
(* Theorems about TaskDependencies for any set of tasks and any bounds.    *)
(*                                                                         *)
(* That updates never close a circle needs no induction over paths: if the *)
(* new list of blockers closed one, the tasks of the circle that lie in a  *)
(* closed set around the new blockers would have been one before.          *)
(***************************************************************************)
EXTENDS TaskDependencies, TLAPS

\* Tasks of the node whose row only the node has written.
Own == Live \ pulled

\* The versions of t that the node made and that are still about are not newer
\* than limit.
Past(row, limit) == row # None /\ row.by = "node" => row.updatedAt <= limit
Behind(t, limit) ==
    /\ Past(cloud[t], limit)
    /\ \A push \in wire : push.task = t => Past(push.row, limit)
    /\ \A copy \in pulls : Past(copy[t], limit)

\* They are of the past, and if the row is the node's last change, not newer than it.
CopiesAreBehind ==
    \A t \in Tasks : Behind(t, now) /\ (t \in edited => Behind(t, rows[t].updatedAt))

\* Nobody has heard of an id that was not given out.
UnusedAreUnknown ==
    /\ \A t \in Tasks \ ids :
          /\ cloud[t] = None
          /\ \A push \in wire : push.task # t
          /\ \A copy \in pulls : copy[t] = None
    /\ \A t \in Own : rows[t].blocked_by \subseteq ids

\* One step of PullsTakeOnlyNews.
TakesOnlyNews ==
    \A t \in edited : t \notin edited' /\ rows'[t] # None => rows'[t].by = "other"

IInv == TypeOK /\ CopiesAreBehind /\ UnusedAreUnknown /\ CirclesComeFromPulls

-----------------------------------------------------------------------------
(* What a write does to the rows. *)
LEMMA Written ==
    ASSUME TypeOK, NEW t \in Tasks, NEW row \in Row \cup {None}, Write(t, row)
    PROVE  /\ rows' \in Table /\ rows'[t] = row
           /\ \A u \in Tasks \ {t} : rows'[u] = rows[u] /\ Blockers(u)' = Blockers(u)
           /\ row # None => Blockers(t)' = row.blocked_by
           /\ row = None => Blockers(t)' = {}
           /\ Live' = IF row = None THEN Live \ {t} ELSE Live \cup {t}
           /\ edited' = IF row = None THEN edited \ {t} ELSE edited \cup {t}
BY DEF TypeOK, Table, Write, Blockers, Live

LEMMA RowParts ==
    ASSUME TypeOK, NEW t \in Live
    PROVE  /\ t \in Tasks /\ rows[t] \in Row /\ Blockers(t) = rows[t].blocked_by
           /\ Blockers(t) \subseteq Tasks
BY NoneAssumption DEF TypeOK, Table, Live, Blockers, Row

LEMMA NewRow ==
    ASSUME TypeOK, NEW blockers \in SUBSET Tasks
    PROVE  /\ OwnRow(blockers) \in Row /\ OwnRow(blockers).blocked_by = blockers
           /\ OwnRow(blockers).updatedAt = now
BY DEF TypeOK, Row, OwnRow

\* Rows that keep their blockers, or go, close no circle.
LEMMA NoNewCircle ==
    ASSUME TypeOK, CirclesComeFromPulls, pulled \subseteq pulled',
           \A t \in Tasks \ pulled' : Blockers(t)' \subseteq Blockers(t)
    PROVE  CirclesComeFromPulls'
<1> SUFFICES ASSUME NEW waiting \in SUBSET Tasks, Deadlocked(waiting)',
                    waiting \cap pulled' = {}
             PROVE  FALSE
  BY DEF CirclesComeFromPulls
<1>1. Deadlocked(waiting)
  BY DEF Deadlocked
<1> QED
  BY <1>1 DEF CirclesComeFromPulls

\* A task that nobody names closes no circle when it is created.
LEMMA CreatedNoCircle ==
    ASSUME IInv, pulled' = pulled, NEW t \in Tasks \ ids, NEW row \in Row,
           Write(t, row), row.blocked_by \subseteq Live
    PROVE  CirclesComeFromPulls'
<1> SUFFICES ASSUME NEW waiting \in SUBSET Tasks, Deadlocked(waiting)',
                    waiting \cap pulled = {}
             PROVE  FALSE
  BY DEF CirclesComeFromPulls
<1> DEFINE rest == waiting \ {t}
<1>1. /\ \A u \in Tasks \ {t} : Blockers(u)' = Blockers(u)
      /\ Blockers(t)' = row.blocked_by
      /\ t \notin Live
  BY Written, NoneAssumption DEF IInv, TypeOK
<1>2. \A u \in rest : t \notin Blockers(u)
  BY DEF IInv, UnusedAreUnknown, Own, Live, Blockers
<1>3. rest # {}
  <2>1. CASE t \in waiting
    BY <1>1, <2>1 DEF Deadlocked
  <2>2. CASE t \notin waiting
    BY <2>2 DEF Deadlocked
  <2> QED
    BY <2>1, <2>2
<1>4. \A u \in rest : Blockers(u) \cap rest # {}
  BY <1>1, <1>2 DEF Deadlocked
<1>5. Deadlocked(rest) /\ rest \in SUBSET Tasks /\ rest \cap pulled = {}
  BY <1>3, <1>4 DEF Deadlocked
<1> QED
  BY <1>5 DEF IInv, CirclesComeFromPulls

\* Blockers that updateTask accepts close no circle.
LEMMA AcceptedNoCircle ==
    ASSUME IInv, pulled' = pulled, NEW t \in Live, NEW row \in Row,
           Write(t, row), Accepts(t, row.blocked_by)
    PROVE  CirclesComeFromPulls'
<1> SUFFICES ASSUME NEW waiting \in SUBSET Tasks, Deadlocked(waiting)',
                    waiting \cap pulled = {}
             PROVE  FALSE
  BY DEF CirclesComeFromPulls
<1>1. /\ t \in Tasks
      /\ \A u \in Tasks \ {t} : Blockers(u)' = Blockers(u)
      /\ Blockers(t)' = row.blocked_by
  BY Written, RowParts, NoneAssumption DEF IInv
<1>2. CASE t \notin waiting
  <2>1. Deadlocked(waiting)
    BY <1>1, <1>2 DEF Deadlocked
  <2> QED
    BY <2>1 DEF IInv, CirclesComeFromPulls
<1>3. CASE t \in waiting
  <2>1. row.blocked_by \cap waiting # {}
    BY <1>1, <1>3 DEF Deadlocked
  <2>2. PICK C \in ClosedSets : row.blocked_by \subseteq C /\ t \notin C
    BY <2>1 DEF Accepts, Circular
  <2> DEFINE inside == waiting \cap C
  <2>3. inside # {}
    BY <2>1, <2>2
  <2>4. \A u \in inside : Blockers(u) \cap inside # {}
    BY <1>1, <2>2 DEF Deadlocked, ClosedSets
  <2>5. Deadlocked(inside) /\ inside \in SUBSET Tasks /\ inside \cap pulled = {}
    BY <2>3, <2>4 DEF Deadlocked
  <2> QED
    BY <2>5 DEF IInv, CirclesComeFromPulls
<1> QED
  BY <1>2, <1>3

-----------------------------------------------------------------------------
(* The steps. *)
LEMMA InitIInv == ASSUME Init PROVE IInv
<1>1. TypeOK
  BY BoundsAssumption DEF Init, TypeOK, Table, Live, Time
<1>2. \A t \in Tasks : Blockers(t) = {}
  BY DEF Init, Blockers
<1>3. CirclesComeFromPulls
  BY <1>2 DEF CirclesComeFromPulls, Deadlocked
<1>4. CopiesAreBehind /\ UnusedAreUnknown
  BY DEF Init, CopiesAreBehind, Behind, Past, UnusedAreUnknown, Own, Live
<1> QED
  BY <1>1, <1>3, <1>4 DEF IInv

\* An own task gets a row of this moment and the row may be pushed.
LEMMA OwnWrite ==
    ASSUME IInv, NEW t \in Tasks, NEW row \in Row, Write(t, row),
           row.updatedAt = now, row.blocked_by \subseteq ids \/ t \in pulled,
           t \in Live \/ t \in Tasks \ ids,
           ids' = ids \cup {t}, UNCHANGED <<cloud, pulls, pulled, others, now>>,
           Pushed(t, row) \/ wire' = wire
    PROVE  TypeOK' /\ CopiesAreBehind' /\ UnusedAreUnknown'
<1>1. /\ rows' \in Table /\ rows'[t] = row
      /\ \A u \in Tasks \ {t} : rows'[u] = rows[u]
      /\ Live' = Live \cup {t} /\ edited' = edited \cup {t} /\ row # None
  BY Written, NoneAssumption DEF IInv
<1>2. wire' \subseteq Push /\ \A push \in wire' \ wire : push.task = t /\ push.row = row
  BY DEF IInv, TypeOK, Pushed, Push
<1>3. TypeOK'
  BY <1>1, <1>2 DEF IInv, TypeOK
<1>4. Own' \subseteq Own \cup {t} /\ (t \in pulled => t \notin Own')
  BY <1>1 DEF Own
<1>5. CopiesAreBehind'
  <2>1. now \in Int /\ row.updatedAt = now
    BY DEF IInv, TypeOK, Time
  <2>2. Past(row, now)
    BY <2>1 DEF Past
  <2>3. ASSUME NEW u \in Tasks PROVE Behind(u, now)'
    BY <1>2, <2>2 DEF IInv, CopiesAreBehind, Behind, Past
  <2>4. ASSUME NEW u \in edited' PROVE Behind(u, rows[u].updatedAt)'
    <3>1. CASE u = t
      BY <1>1, <2>1, <2>3, <3>1 DEF Behind, Past
    <3>2. CASE u # t
      <4>1. u \in Tasks /\ Behind(u, rows[u].updatedAt) /\ rows'[u] = rows[u]
        BY <1>1, <3>2 DEF IInv, TypeOK, Live, CopiesAreBehind
      <4> QED
        BY <1>2, <3>2, <4>1 DEF Behind, Past
    <3> QED
      BY <3>1, <3>2
  <2> QED
    BY <2>3, <2>4 DEF CopiesAreBehind
<1>6. UnusedAreUnknown'
  <2>1. ASSUME NEW u \in Own' PROVE rows'[u].blocked_by \subseteq ids'
    <3>1. CASE u = t
      BY <1>1, <1>4, <3>1
    <3>2. CASE u # t
      BY <1>1, <1>4, <3>2 DEF IInv, UnusedAreUnknown, Own, Live
    <3> QED
      BY <3>1, <3>2
  <2>2. \A u \in Tasks \ ids' : cloud[u] = None /\ (\A push \in wire' : push.task # u)
                                /\ \A copy \in pulls : copy[u] = None
    BY <1>2 DEF IInv, UnusedAreUnknown
  <2> QED
    BY <2>1, <2>2 DEF UnusedAreUnknown
<1> QED
  BY <1>3, <1>5, <1>6

\* Whatever leaves the rows alone and spreads only what was under way, or what
\* others made.
LEMMA Spread ==
    ASSUME IInv, UNCHANGED <<rows, pulled, edited>>, ids \subseteq ids', TypeOK',
           now <= now',
           \A t \in Tasks :
              \/ cloud'[t] \in {cloud[t], None}
              \/ \E push \in wire : push.task = t /\ cloud'[t] = push.row
              \/ t \in ids' /\ cloud'[t].by = "other",
           wire' \subseteq wire, pulls' \subseteq pulls \cup {cloud}
    PROVE  IInv'
<1>1. CirclesComeFromPulls'
  BY DEF IInv, CirclesComeFromPulls, Deadlocked, Blockers
<1>2. Own' = Own /\ Own \subseteq ids /\ edited \subseteq Tasks
  BY DEF IInv, TypeOK, Own, Live
<1>3. ASSUME NEW t \in Tasks, NEW limit, Behind(t, limit)
      PROVE  /\ Past(cloud'[t], limit)
             /\ \A push \in wire' : push.task = t => Past(push.row, limit)
             /\ \A copy \in pulls' : Past(copy[t], limit)
  BY <1>3 DEF Behind, Past
<1>4. CopiesAreBehind'
  <2>1. ASSUME NEW t \in Tasks PROVE Behind(t, now)'
    <3>1. now \in Int /\ now' \in Int
      BY DEF IInv, TypeOK, Time
    <3>2. ASSUME NEW row \in Row \cup {None}, Past(row, now) PROVE Past(row, now')
      BY <3>1, <3>2 DEF Past, Row, Time
    <3>3. /\ cloud'[t] \in Row \cup {None}
          /\ \A push \in wire' : push.row \in Row \cup {None}
          /\ \A copy \in pulls' : copy[t] \in Row \cup {None}
      BY DEF TypeOK, Table, Push
    <3>4. Behind(t, now)
      BY DEF IInv, CopiesAreBehind
    <3> QED
      BY <1>3, <3>2, <3>3, <3>4 DEF Behind
  <2>2. ASSUME NEW t \in edited PROVE Behind(t, rows[t].updatedAt)'
    <3>1. t \in Tasks /\ Behind(t, rows[t].updatedAt)
      BY <1>2 DEF IInv, CopiesAreBehind
    <3> QED
      BY <1>3, <3>1 DEF Behind
  <2> QED
    BY <2>1, <2>2 DEF CopiesAreBehind
<1>5. UnusedAreUnknown'
  BY <1>2 DEF IInv, UnusedAreUnknown, TypeOK
<1> QED
  BY <1>1, <1>4, <1>5 DEF IInv

LEMMA CreateStep ==
    ASSUME IInv, NEW t \in Tasks, NEW blockers \in SUBSET Tasks,
           CreateTask(t, blockers)
    PROVE  IInv'
<1> DEFINE row == OwnRow(blockers)
<1>1. row \in Row /\ row.blocked_by = blockers /\ row.updatedAt = now
  BY NewRow DEF IInv
<1>2. /\ t \in Tasks \ ids /\ Write(t, row) /\ Pushed(t, row)
      /\ blockers \subseteq Live /\ blockers \subseteq ids
      /\ ids' = ids \cup {t} /\ UNCHANGED <<cloud, pulls, pulled, others, now>>
  BY DEF CreateTask, Fresh, IInv, TypeOK
<1> HIDE DEF row
<1>3. TypeOK' /\ CopiesAreBehind' /\ UnusedAreUnknown'
  BY <1>1, <1>2, OwnWrite
<1>4. CirclesComeFromPulls'
  BY <1>1, <1>2, CreatedNoCircle
<1> QED
  BY <1>3, <1>4 DEF IInv

LEMMA SetStep ==
    ASSUME IInv, NEW t \in Tasks, NEW blockers \in SUBSET Tasks,
           SetBlockers(t, blockers)
    PROVE  IInv'
<1> DEFINE row == OwnRow(blockers)
<1>1. row \in Row /\ row.blocked_by = blockers /\ row.updatedAt = now
  BY NewRow DEF IInv
<1>2. /\ t \in Live /\ Write(t, row) /\ Pushed(t, row) /\ Accepts(t, blockers)
      /\ UNCHANGED <<cloud, pulls, ids, pulled, others, now>>
  BY DEF SetBlockers
<1>3. ids' = ids \cup {t} /\ blockers \subseteq ids
  BY <1>2 DEF IInv, TypeOK, Accepts
<1> HIDE DEF row
<1>4. TypeOK' /\ CopiesAreBehind' /\ UnusedAreUnknown'
  BY <1>1, <1>2, <1>3, OwnWrite
<1>5. CirclesComeFromPulls'
  BY <1>1, <1>2, AcceptedNoCircle
<1> QED
  BY <1>4, <1>5 DEF IInv

\* Update and Touch.
LEMMA KeepStep ==
    ASSUME IInv, NEW t \in Live, Write(t, OwnRow(rows[t].blocked_by)),
           Pushed(t, OwnRow(rows[t].blocked_by)) \/ wire' = wire,
           UNCHANGED <<cloud, pulls, ids, pulled, others, now>>
    PROVE  IInv'
<1> DEFINE row == OwnRow(rows[t].blocked_by)
<1>1. /\ t \in Tasks /\ row \in Row /\ row.updatedAt = now
      /\ row.blocked_by = Blockers(t)
  BY RowParts, NewRow DEF IInv
<1>2. ids' = ids \cup {t} /\ (row.blocked_by \subseteq ids \/ t \in pulled)
  BY <1>1 DEF IInv, TypeOK, UnusedAreUnknown, Own, Blockers, Live
<1>3. Write(t, row) /\ (Pushed(t, row) \/ wire' = wire)
  OBVIOUS
<1> HIDE DEF row
<1>4. TypeOK' /\ CopiesAreBehind' /\ UnusedAreUnknown'
  BY <1>1, <1>2, <1>3, OwnWrite
<1>5. \A u \in Tasks \ pulled' : Blockers(u)' \subseteq Blockers(u)
  BY <1>1, <1>3, Written, NoneAssumption DEF IInv
<1>6. CirclesComeFromPulls'
  BY <1>5, NoNewCircle DEF IInv
<1> QED
  BY <1>4, <1>6 DEF IInv

LEMMA DeleteStep ==
    ASSUME IInv, NEW t \in Tasks, DeleteTask(t)
    PROVE  IInv'
<1>1. /\ t \in Live /\ Write(t, None) /\ Pushed(t, None)
      /\ UNCHANGED <<cloud, pulls, ids, pulled, others, now>>
  BY DEF DeleteTask
<1>2. /\ rows' \in Table /\ Live' = Live \ {t} /\ edited' = edited \ {t}
      /\ \A u \in Tasks \ {t} : rows'[u] = rows[u] /\ Blockers(u)' = Blockers(u)
      /\ Blockers(t)' = {}
  BY <1>1, Written DEF IInv
<1>3. wire' \subseteq Push /\ \A push \in wire' \ wire : push.task = t /\ push.row = None
  BY <1>1 DEF IInv, TypeOK, Pushed, Push
<1>4. TypeOK'
  BY <1>1, <1>2, <1>3 DEF IInv, TypeOK
<1>5. Own' = Own \ {t} /\ Own \subseteq Tasks
  BY <1>1, <1>2 DEF Own, Live
<1>6. CopiesAreBehind'
  BY <1>1, <1>2, <1>3 DEF IInv, TypeOK, Live, CopiesAreBehind, Behind, Past
<1>7. UnusedAreUnknown'
  BY <1>1, <1>2, <1>3, <1>5 DEF IInv, TypeOK, UnusedAreUnknown
<1>8. CirclesComeFromPulls'
  BY <1>1, <1>2, NoNewCircle DEF IInv
<1> QED
  BY <1>4, <1>6, <1>7, <1>8 DEF IInv

LEMMA WireStep ==
    ASSUME IInv, NEW push \in wire, Arrive(push) \/ Lose(push)
    PROVE  IInv'
<1>1. /\ wire' \subseteq wire
      /\ UNCHANGED <<rows, pulls, ids, pulled, edited, others, now>>
      /\ push.task \in Tasks /\ push.row \in Row \cup {None}
      /\ \/ cloud' = cloud
         \/ cloud' = [cloud EXCEPT ![push.task] = push.row]
  BY DEF Arrive, Lose, IInv, TypeOK, Push
<1>2. TypeOK'
  BY <1>1 DEF IInv, TypeOK, Table, Live
<1>3. \A t \in Tasks : cloud'[t] = cloud[t] \/ (t = push.task /\ cloud'[t] = push.row)
  BY <1>1 DEF IInv, TypeOK, Table
<1>4. now <= now'
  BY <1>1 DEF IInv, TypeOK, Time
<1> QED
  BY <1>1, <1>2, <1>3, <1>4, Spread

LEMMA CloudStep ==
    ASSUME IInv,
           \/ \E t \in Tasks, blockers \in SUBSET Tasks, at \in Time :
                 ChangeInCloud(t, blockers, at)
           \/ \E t \in Tasks : DeleteInCloud(t)
           \/ Pull
           \/ \E copy \in pulls : LosePull(copy)
           \/ Tick
    PROVE  IInv'
<1> DEFINE Quiet ==
         /\ UNCHANGED <<rows, pulled, edited, wire>>
         /\ ids \subseteq ids' /\ ids' \subseteq Tasks
         /\ cloud' \in Table /\ pulls' \subseteq pulls \cup {cloud}
         /\ now' \in Time /\ now <= now' /\ others' \in 0 .. MaxOthers
         /\ \A t \in Tasks :
               \/ cloud'[t] \in {cloud[t], None}
               \/ t \in ids' /\ cloud'[t].by = "other"
<1>1. Quiet
  <2>1. ASSUME NEW t \in Tasks, NEW blockers \in SUBSET Tasks, NEW at \in Time,
               ChangeInCloud(t, blockers, at)
        PROVE  Quiet
    <3> DEFINE row == [blocked_by |-> blockers, updatedAt |-> at, by |-> "other"]
    <3>1. row \in Row /\ row.by = "other"
      BY DEF Row
    <3>2. cloud' = [cloud EXCEPT ![t] = row] /\ t \in ids'
      BY <2>1 DEF ChangeInCloud
    <3> HIDE DEF row
    <3>3. cloud' \in Table /\ cloud'[t] = row /\ \A u \in Tasks \ {t} : cloud'[u] = cloud[u]
      BY <3>1, <3>2 DEF IInv, TypeOK, Table
    <3>4. others' \in 0 .. MaxOthers
      BY <2>1, BoundsAssumption DEF ChangeInCloud, ByOther, IInv, TypeOK
    <3> QED
      BY <2>1, <3>1, <3>2, <3>3, <3>4 DEF ChangeInCloud, IInv, TypeOK, Time
  <2>2. ASSUME NEW t \in Tasks, DeleteInCloud(t) PROVE Quiet
    <3>1. others' \in 0 .. MaxOthers
      BY <2>2, BoundsAssumption DEF DeleteInCloud, ByOther, IInv, TypeOK
    <3> QED
      BY <2>2, <3>1 DEF DeleteInCloud, IInv, TypeOK, Table, Time
  <2>3. CASE Pull
    BY <2>3 DEF Pull, IInv, TypeOK, Time
  <2>4. ASSUME NEW copy \in pulls, LosePull(copy) PROVE Quiet
    BY <2>4 DEF LosePull, IInv, TypeOK, Time
  <2>5. CASE Tick
    BY <2>5, BoundsAssumption DEF Tick, IInv, TypeOK, Time
  <2> QED
    BY <2>1, <2>2, <2>3, <2>4, <2>5
<1>2. TypeOK'
  BY <1>1 DEF IInv, TypeOK, Live
<1> QED
  BY <1>1, <1>2, Spread

LEMMA MergeStep ==
    ASSUME IInv, NEW copy \in pulls, Merge(copy)
    PROVE  IInv' /\ TakesOnlyNews
<1>1. /\ copy \in Table /\ rows \in Table /\ pulls' \subseteq pulls
      /\ rows' = [t \in Tasks |-> IF Newer(t, copy) THEN copy[t] ELSE rows[t]]
      /\ pulled' = pulled \cup {t \in Tasks : Newer(t, copy)}
      /\ edited' = edited \ {t \in Tasks : Newer(t, copy)}
      /\ UNCHANGED <<cloud, wire, ids, others, now>>
  BY DEF Merge, IInv, TypeOK
<1>2. \A t \in Tasks : Newer(t, copy) => t \in ids
  BY DEF Newer, IInv, UnusedAreUnknown
<1>3. \A t \in Tasks \ pulled' : rows'[t] = rows[t]
  BY <1>1
<1>4. /\ rows' \in Table /\ Live' \subseteq ids
      /\ edited' \subseteq Live' /\ \A t \in edited' : rows'[t] = rows[t]
  BY <1>1, <1>2 DEF Table, Newer, Live, IInv, TypeOK
<1>5. TypeOK'
  BY <1>1, <1>2, <1>4 DEF IInv, TypeOK
<1>6. Own' \subseteq Own /\ \A t \in Own' : t \in Tasks /\ rows'[t] = rows[t]
  BY <1>1, <1>3 DEF Own, Live
<1>7. CopiesAreBehind'
  <2>1. ASSUME NEW t \in Tasks, NEW limit, Behind(t, limit)
        PROVE  /\ Past(cloud'[t], limit)
               /\ \A push \in wire' : push.task = t => Past(push.row, limit)
               /\ \A other \in pulls' : Past(other[t], limit)
    BY <1>1, <2>1 DEF Behind
  <2> QED
    BY <1>1, <1>4, <2>1 DEF IInv, CopiesAreBehind, Behind
<1>8. UnusedAreUnknown'
  BY <1>1, <1>6 DEF IInv, UnusedAreUnknown
<1>9. \A t \in Tasks \ pulled' : Blockers(t)' \subseteq Blockers(t)
  BY <1>3 DEF Blockers
<1>10. CirclesComeFromPulls'
  BY <1>1, <1>9, NoNewCircle DEF IInv
<1>11. TakesOnlyNews
  <2> SUFFICES ASSUME NEW t \in edited, Newer(t, copy), copy[t].by = "node"
               PROVE  FALSE
    BY <1>1 DEF TakesOnlyNews, Newer, Table, Row, IInv, TypeOK, Live
  <2>1. /\ t \in Tasks /\ rows[t] # None /\ copy[t] # None
        /\ copy[t].updatedAt > rows[t].updatedAt
    BY DEF Newer, Live, IInv, TypeOK
  <2>2. copy[t].updatedAt <= rows[t].updatedAt
    BY <2>1 DEF IInv, CopiesAreBehind, Behind, Past
  <2>3. copy[t].updatedAt \in Int /\ rows[t].updatedAt \in Int
    BY <1>1, <2>1 DEF Table, Row, Time
  <2> QED
    BY <2>1, <2>2, <2>3
<1> QED
  BY <1>5, <1>7, <1>8, <1>10, <1>11 DEF IInv

\* A step that changes rows by Write, or leaves them alone, takes nothing over.
LEMMA OwnSteps ==
    ASSUME IInv,
           \/ edited' = edited
           \/ \E t \in Tasks, row \in Row \cup {None} : Write(t, row)
    PROVE  TakesOnlyNews
BY Written DEF IInv, TypeOK, Live, TakesOnlyNews

LEMMA StepIInv ==
    ASSUME IInv, [Next]_vars
    PROVE  IInv' /\ TakesOnlyNews
<1>1. CASE UNCHANGED vars
  <2>1. IInv'
    BY <1>1 DEF vars, IInv, TypeOK, CopiesAreBehind, Behind, Past, UnusedAreUnknown,
                Own, Live, CirclesComeFromPulls, Deadlocked, Blockers
  <2> QED
    BY <1>1, <2>1, OwnSteps DEF vars
<1>2. ASSUME NEW t \in Tasks, NEW blockers \in SUBSET Tasks,
             CreateTask(t, blockers) \/ SetBlockers(t, blockers)
      PROVE  IInv' /\ TakesOnlyNews
  <2>1. IInv'
    BY <1>2, CreateStep, SetStep
  <2>2. OwnRow(blockers) \in Row /\ Write(t, OwnRow(blockers))
    BY <1>2, NewRow DEF CreateTask, SetBlockers, IInv
  <2> QED
    BY <2>1, <2>2, OwnSteps
<1>3. ASSUME NEW t \in Tasks, Update(t) \/ Touch(t)
      PROVE  IInv' /\ TakesOnlyNews
  <2>1. t \in Live /\ Write(t, OwnRow(rows[t].blocked_by))
    BY <1>3 DEF Update, Touch
  <2>2. IInv'
    BY <1>3, <2>1, KeepStep DEF Update, Touch
  <2>3. OwnRow(rows[t].blocked_by) \in Row
    BY <2>1, NewRow, RowParts DEF IInv
  <2> QED
    BY <2>1, <2>2, <2>3, OwnSteps
<1>4. ASSUME NEW t \in Tasks, DeleteTask(t)
      PROVE  IInv' /\ TakesOnlyNews
  BY <1>4, DeleteStep, OwnSteps DEF DeleteTask
<1>5. ASSUME NEW push \in wire, Arrive(push) \/ Lose(push)
      PROVE  IInv' /\ TakesOnlyNews
  BY <1>5, WireStep, OwnSteps DEF Arrive, Lose
<1>6. ASSUME \/ \E t \in Tasks, blockers \in SUBSET Tasks, at \in Time :
                   ChangeInCloud(t, blockers, at)
             \/ \E t \in Tasks : DeleteInCloud(t)
             \/ Pull \/ Tick
             \/ \E copy \in pulls : LosePull(copy)
      PROVE  IInv' /\ TakesOnlyNews
  <2>1. IInv'
    BY <1>6, CloudStep
  <2>2. edited' = edited
    BY <1>6 DEF ChangeInCloud, DeleteInCloud, Pull, Tick, LosePull
  <2> QED
    BY <2>1, <2>2, OwnSteps
<1>7. CASE \E copy \in pulls : Merge(copy)
  BY <1>7, MergeStep
<1> QED
  BY <1>1, <1>2, <1>3, <1>4, <1>5, <1>6, <1>7 DEF Next

-----------------------------------------------------------------------------
(* The theorems. *)

\* The inductive invariant holds in every reachable state.
THEOREM Invariance == Spec => []IInv
<1>1. Init => IInv
  BY InitIInv
<1>2. IInv /\ [Next]_vars => IInv'
  BY StepIInv
<1> QED
  BY <1>1, <1>2, PTL DEF Spec

\* The tables, the requests under way and the ids keep their types.
THEOREM TypeCorrect == Spec => []TypeOK
<1>1. IInv => TypeOK
  BY DEF IInv
<1> QED
  BY <1>1, Invariance, PTL

\* blocked_by of the tasks a node has written itself never has a circle, for any
\* number of tasks: checkCircular is enough, with deletions and all else in between.
THEOREM CirclesCorrect == Spec => []CirclesComeFromPulls
<1>1. IInv => CirclesComeFromPulls
  BY DEF IInv
<1> QED
  BY <1>1, Invariance, PTL

\* syncFromCloud writes over the node's last change of a task only what others made,
\* whatever the order in which pushes and pulls arrive and whatever their clocks.
THEOREM PullsCorrect == Spec => PullsTakeOnlyNews
<1>1. IInv /\ [Next]_vars => [TakesOnlyNews]_vars
  BY StepIInv
<1>2. Spec => [][TakesOnlyNews]_vars
  BY <1>1, Invariance, PTL DEF Spec
<1> QED
  BY <1>2, PTL DEF PullsTakeOnlyNews, TakesOnlyNews
=============================================================================
