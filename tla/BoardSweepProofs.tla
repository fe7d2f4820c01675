--------------------------- MODULE BoardSweepProofs ---------------------------
(*****************************************************************************)
(* Theorems about the two sweeps that enforce deadlines on the board: the    *)
(* working contract over the tasks in doing (WorkingContract) and the        *)
(* execution sweeper over the tasks in review (ExecutionSweeper), for any    *)
(* sets of tasks, agents, ticks and sweeps.                                  *)
(*                                                                           *)
(* WorkingContract: the inductive invariant says what an entry of a scan     *)
(* still has to do with the board (EntriesAreFresh) and which warnings stand *)
(* (NaggedIsWarned).  It rests on time standing still while a tick awaits:   *)
(* whatever happened to a listed task since happened at age 0 < Stale.       *)
(*                                                                           *)
(* ExecutionSweeper: the places that remember a level never fall behind the  *)
(* pages (MarksCover, ReadingsCover).                                        *)
(*****************************************************************************)
EXTENDS WorkingContract, ExecutionSweeper, SequenceTheorems, TLAPS

\* A task that a tick has listed and that is no longer in doing has been touched
\* since, or is about to be.
EntriesAreFresh ==
    \A p \in Ticks : \A k \in scan[p] :
        row[k[2]].status = "doing" \/ k[2] \in unlogged \/ quiet[k[2]] = 0

\* Who was warned since the last event of the task has a warning that stands.
NaggedIsWarned ==
    \A k \in nagged : warned[k] # None /\ k \notin answered

IInv == TypeOK /\ EntriesAreFresh /\ NaggedIsWarned

-----------------------------------------------------------------------------
(* What the parts of a step do to the parts of the invariant. *)

LEMMA KeyParts == ASSUME NEW k \in Keys PROVE k[1] \in Agents /\ k[2] \in Tasks
BY DEF Keys

\* The doing tasks are listed under keys.
LEMMA DoingKeys ==
    ASSUME TypeOK
    PROVE  /\ Doing \subseteq Keys
           /\ \A k \in Doing : row[k[2]].status = "doing"
BY DEF Doing, Keys, TypeOK, Row

LEMMA OlderTyped ==
    ASSUME NEW b \in Nat, NEW n \in {None} \cup 0..b
    PROVE  Older(n, b) \in {None} \cup 0..b /\ (n = None <=> Older(n, b) = None)
           /\ (n \in 0..b => Older(n, b) \in 0..b)
BY DEF Older, None

\* An event at t keeps what the invariant says of ages and warnings.
LEMMA TouchedKeeps ==
    ASSUME TypeOK, NEW t \in Tasks, Touched(t)
    PROVE  /\ quiet' \in [Tasks -> 0..Stale] /\ quiet'[t] = 0
           /\ \A u \in Tasks : u # t => quiet'[u] = quiet[u]
           /\ nagged' \subseteq nagged
           /\ \A k \in nagged' : k[2] # t
BY ContractAssumption DEF TypeOK, Touched

LEMMA ClearKeeps ==
    ASSUME TypeOK, NEW keys, Clear(keys)
    PROVE  /\ warned' \in [Keys -> {None} \cup 0..Grace]
           /\ answered' \subseteq {k \in Keys : warned'[k] # None}
           /\ answered' \subseteq answered
           /\ \A k \in Keys : k \notin keys => warned'[k] = warned[k]
           /\ \A k \in Keys : k \in keys => warned'[k] = None
BY DEF TypeOK, Clear

LEMMA WarnKeeps ==
    ASSUME TypeOK, NEW k \in Keys, NEW heeded, Warn(k, heeded), k \notin heeded
    PROVE  /\ warned' \in [Keys -> {None} \cup 0..Grace]
           /\ answered' \subseteq {j \in Keys : warned'[j] # None}
           /\ answered' = answered \ heeded
           /\ warned'[k] = 0
           /\ \A j \in Keys : j # k /\ j \notin heeded => warned'[j] = warned[j]
           /\ \A j \in Keys : j # k /\ j \in heeded => warned'[j] = None
BY ContractAssumption DEF TypeOK, Warn, None

-----------------------------------------------------------------------------
(* A turn of a tick over entries that are fresh. *)

\* What a turn assumes of the entries it is given.
Fresh(left) ==
    /\ left \subseteq Keys
    /\ \A k \in left : row[k[2]].status = "doing" \/ k[2] \in unlogged \/ quiet[k[2]] = 0

LEMMA TurnKeeps ==
    ASSUME IInv, NEW p \in Ticks, NEW left, Fresh(left), Turn(p, left),
           unlogged' = unlogged, uptime' = uptime, restarts' = restarts
    PROVE  /\ IInv'
           /\ \A t \in Tasks : row'[t].status = "todo" /\ row[t].status # "todo"
                                  => row[t].status = "doing" \/ t \in unlogged
           /\ \A k \in Keys : warned[k] = None /\ warned'[k] = 0 => k \notin nagged
<1> USE DEF IInv
<1>a. left \subseteq Keys BY DEF Fresh
<1>1. CASE /\ scan' = [scan EXCEPT ![p] = {}]
           /\ Clear({k \in left : Heeds(k)})
           /\ UNCHANGED <<row, quiet, nagged>>
  <2> DEFINE heeded == {k \in left : Heeds(k)}
  <2>1. Clear(heeded) BY <1>1
  <2>2. heeded \subseteq answered BY DEF Heeds
  <2> HIDE DEF heeded
  <2>3. TypeOK'
    <3>1. scan' \in [Ticks -> SUBSET Keys] BY <1>1 DEF TypeOK
    <3> QED BY <1>1, <2>1, <3>1, ClearKeeps DEF TypeOK
  <2>4. EntriesAreFresh'
    BY <1>1 DEF EntriesAreFresh, TypeOK
  <2>5. NaggedIsWarned'
    BY <1>1, <2>1, <2>2, ClearKeeps DEF NaggedIsWarned, TypeOK
  <2>6. \A k \in Keys : ~(warned[k] = None /\ warned'[k] = 0)
    <3> SUFFICES ASSUME NEW k \in Keys, warned[k] = None, warned'[k] = 0 PROVE FALSE
      OBVIOUS
    <3> QED BY <2>1, ClearKeeps DEF None
  <2> QED BY <1>1, <2>3, <2>4, <2>5, <2>6
<1>2. ASSUME NEW k \in left, NEW over \in SUBSET left, k \notin over,
             scan' = [scan EXCEPT ![p] = left \ (over \cup {k})],
             \/ /\ Warns(k) /\ Warn(k, {j \in over : Heeds(j)})
                /\ nagged' = nagged \cup {k}
                /\ UNCHANGED <<row, quiet>>
             \/ /\ Requeues(k) /\ Clear({k} \cup {j \in over : Heeds(j)})
                /\ row' = [row EXCEPT ![k[2]].status = "todo"]
                /\ Touched(k[2])
      PROVE  /\ IInv'
             /\ \A t \in Tasks : row'[t].status = "todo" /\ row[t].status # "todo"
                                    => row[t].status = "doing" \/ t \in unlogged
             /\ \A j \in Keys : warned[j] = None /\ warned'[j] = 0 => j \notin nagged
  <2> DEFINE heeded == {j \in over : Heeds(j)}
  <2>1. k \in Keys /\ k[2] \in Tasks BY <1>2, <1>a, KeyParts
  <2>2. heeded \subseteq answered /\ heeded \subseteq left /\ k \notin heeded
    BY <1>2 DEF Heeds
  <2>3. scan' \in [Ticks -> SUBSET Keys] BY <1>2, <1>a DEF TypeOK
  <2>4. \A q \in Ticks : scan'[q] \subseteq (IF q = p THEN left ELSE scan[q])
    BY <1>2 DEF TypeOK
  <2>5. CASE /\ Warns(k) /\ Warn(k, heeded)
             /\ nagged' = nagged \cup {k}
             /\ UNCHANGED <<row, quiet>>
    <3> HIDE DEF heeded
    <3>1. TypeOK' BY <2>1, <2>2, <2>3, <2>5, WarnKeeps DEF TypeOK
    <3>2. EntriesAreFresh' BY <2>4, <2>5 DEF EntriesAreFresh, Fresh
    <3>3. warned[k] = None /\ k \notin nagged /\ k \notin answered
      BY <2>1, <2>5 DEF Warns, NaggedIsWarned, TypeOK
    <3>4. NaggedIsWarned'
      <4> SUFFICES ASSUME NEW j \in nagged' PROVE warned'[j] # None /\ j \notin answered'
        BY DEF NaggedIsWarned
      <4>1. CASE j = k BY <2>1, <2>2, <2>5, <3>3, <4>1, WarnKeeps DEF None
      <4>2. CASE j # k
        <5>1. j \in nagged /\ j \in Keys /\ j \notin heeded
          BY <2>2, <2>5, <4>2 DEF NaggedIsWarned, TypeOK
        <5> QED BY <2>1, <2>2, <2>5, <4>2, <5>1, WarnKeeps DEF NaggedIsWarned
      <4> QED BY <4>1, <4>2
    <3>5. \A j \in Keys : warned[j] = None /\ warned'[j] = 0 => j = k
      BY <2>1, <2>2, <2>5, WarnKeeps DEF None
    <3> QED BY <2>5, <3>1, <3>2, <3>3, <3>4, <3>5
  <2>6. CASE /\ Requeues(k) /\ Clear({k} \cup heeded)
             /\ row' = [row EXCEPT ![k[2]].status = "todo"]
             /\ Touched(k[2])
    <3> HIDE DEF heeded
    <3>1. row' \in [Tasks -> Row] /\ \A t \in Tasks : t # k[2] => row'[t] = row[t]
      BY <2>1, <2>6 DEF TypeOK, Row
    <3>2. TypeOK'
      BY <2>1, <2>3, <2>6, <3>1, ClearKeeps, TouchedKeeps DEF TypeOK
    <3>3. EntriesAreFresh'
      <4> SUFFICES ASSUME NEW q \in Ticks, NEW j \in scan'[q]
                   PROVE  row'[j[2]].status = "doing" \/ j[2] \in unlogged \/ quiet'[j[2]] = 0
        BY DEF EntriesAreFresh
      <4>1. j \in Keys /\ j[2] \in Tasks BY <2>3, KeyParts
      <4>2. row[j[2]].status = "doing" \/ j[2] \in unlogged \/ quiet[j[2]] = 0
        BY <2>4 DEF EntriesAreFresh, Fresh
      <4>3. CASE j[2] = k[2] BY <2>1, <2>6, <4>3, TouchedKeeps
      <4>4. CASE j[2] # k[2] BY <2>1, <2>6, <3>1, <4>1, <4>2, <4>4, TouchedKeeps
      <4> QED BY <4>3, <4>4
    <3>4. NaggedIsWarned'
      <4> SUFFICES ASSUME NEW j \in nagged' PROVE warned'[j] # None /\ j \notin answered'
        BY DEF NaggedIsWarned
      <4>1. j \in nagged /\ j[2] # k[2] /\ j \in Keys
        BY <2>1, <2>6, TouchedKeeps DEF TypeOK
      <4>2. j # k /\ j \notin heeded BY <2>2, <4>1 DEF NaggedIsWarned
      <4> QED BY <2>6, <4>1, <4>2, ClearKeeps DEF NaggedIsWarned
    <3>5. row[k[2]].status = "doing" \/ k[2] \in unlogged
      <4>1. quiet[k[2]] # 0
        BY <2>1, <2>6, ContractAssumption DEF Requeues, Lapsed, Silent, TypeOK
      <4> QED BY <1>2, <4>1 DEF Fresh
    <3>6. \A t \in Tasks : row'[t].status = "todo" /\ row[t].status # "todo" => t = k[2]
      BY <3>1
    <3>7. \A j \in Keys : ~(warned[j] = None /\ warned'[j] = 0)
      <4> SUFFICES ASSUME NEW j \in Keys, warned[j] = None, warned'[j] = 0 PROVE FALSE
        OBVIOUS
      <4> QED BY <2>6, ClearKeeps DEF None
    <3> QED BY <3>2, <3>3, <3>4, <3>5, <3>6, <3>7
  <2> QED BY <1>2, <2>5, <2>6
<1> QED BY <1>1, <1>2 DEF Turn

-----------------------------------------------------------------------------
(* The other steps. *)

LEMMA InitEstablishes == Init => IInv
<1> SUFFICES ASSUME Init PROVE IInv OBVIOUS
<1>1. TypeOK BY ContractAssumption DEF Init, TypeOK, Row, None
<1>2. EntriesAreFresh /\ NaggedIsWarned BY DEF Init, EntriesAreFresh, NaggedIsWarned
<1> QED BY <1>1, <1>2 DEF IInv

\* An update of t writes its row and either history or a promise of it.
LEMMA UpdateKeeps ==
    ASSUME IInv, NEW t \in Tasks, NEW r \in Row, Update(t, r) PROVE IInv'
<1> USE DEF IInv
<1>1. /\ row' \in [Tasks -> Row] /\ \A u \in Tasks : u # t => row'[u] = row[u]
      /\ UNCHANGED <<warned, answered, scan, uptime, restarts>>
  BY DEF Update, TypeOK
<1>2. quiet' \in [Tasks -> 0..Stale] /\ unlogged' \subseteq Tasks /\ nagged' \subseteq nagged
  BY TouchedKeeps DEF Update, TypeOK
<1>3. TypeOK' BY <1>1, <1>2 DEF TypeOK
<1>4. \A u \in Tasks : \/ u \in unlogged' \/ quiet'[u] = 0
                       \/ u # t /\ quiet'[u] = quiet[u] /\ (u \in unlogged => u \in unlogged')
  BY TouchedKeeps DEF Update, TypeOK
<1>5. EntriesAreFresh'
  <2> SUFFICES ASSUME NEW p \in Ticks, NEW k \in scan[p]
               PROVE  row'[k[2]].status = "doing" \/ k[2] \in unlogged' \/ quiet'[k[2]] = 0
    BY <1>1 DEF EntriesAreFresh
  <2>1. k[2] \in Tasks BY KeyParts DEF TypeOK
  <2>2. row[k[2]].status = "doing" \/ k[2] \in unlogged \/ quiet[k[2]] = 0
    BY DEF EntriesAreFresh
  <2> QED BY <1>1, <1>4, <2>1, <2>2
<1>6. NaggedIsWarned' BY <1>1, <1>2 DEF NaggedIsWarned
<1> QED BY <1>3, <1>5, <1>6

LEMMA MoveKeeps ==
    ASSUME IInv, NEW t \in Tasks, NEW s \in {"doing", "left"}, Move(t, s) PROVE IInv'
<1>1. [status |-> s, owner |-> row[t].owner] \in Row BY DEF IInv, TypeOK, Row
<1> QED BY <1>1, UpdateKeeps DEF Move

LEMMA HandoffKeeps ==
    ASSUME IInv, NEW t \in Tasks, NEW a \in Agents, Handoff(t, a) PROVE IInv'
<1>1. [status |-> row[t].status, owner |-> a] \in Row BY DEF IInv, TypeOK, Row
<1> QED BY <1>1, UpdateKeeps DEF Handoff

LEMMA LogUpdateKeeps ==
    ASSUME IInv, NEW t \in Tasks, LogUpdate(t) PROVE IInv'
<1> USE DEF IInv
<1>1. TypeOK' BY TouchedKeeps DEF LogUpdate, TypeOK
<1>2. EntriesAreFresh'
  <2> SUFFICES ASSUME NEW p \in Ticks, NEW k \in scan[p]
               PROVE  row[k[2]].status = "doing" \/ k[2] \in unlogged' \/ quiet'[k[2]] = 0
    BY DEF EntriesAreFresh, LogUpdate
  <2>1. k[2] \in Tasks BY KeyParts DEF TypeOK
  <2>2. row[k[2]].status = "doing" \/ k[2] \in unlogged \/ quiet[k[2]] = 0
    BY DEF EntriesAreFresh
  <2> QED BY <2>1, <2>2, TouchedKeeps DEF LogUpdate
<1>3. NaggedIsWarned' BY TouchedKeeps DEF NaggedIsWarned, LogUpdate
<1> QED BY <1>1, <1>2, <1>3

LEMMA CommentKeeps ==
    ASSUME IInv, NEW t \in Tasks, NEW a \in Agents, NEW suppressed \in BOOLEAN,
           Comment(t, a, suppressed)
    PROVE  IInv'
<1> USE DEF IInv
<1>0. <<a, t>> \in Keys BY DEF Keys
<1>1. answered' \subseteq {k \in Keys : warned[k] # None}
      /\ \A k \in answered' : k \in answered \/ k[2] = t
  BY <1>0 DEF Comment, TypeOK
<1>2. TypeOK' BY <1>1, TouchedKeeps DEF Comment, TypeOK
<1>3. EntriesAreFresh'
  <2> SUFFICES ASSUME NEW p \in Ticks, NEW k \in scan[p]
               PROVE  row[k[2]].status = "doing" \/ k[2] \in unlogged \/ quiet'[k[2]] = 0
    BY DEF EntriesAreFresh, Comment
  <2>1. k[2] \in Tasks BY KeyParts DEF TypeOK
  <2>2. row[k[2]].status = "doing" \/ k[2] \in unlogged \/ quiet[k[2]] = 0
    BY DEF EntriesAreFresh
  <2> QED BY <2>1, <2>2, TouchedKeeps DEF Comment
<1>4. NaggedIsWarned'
  <2> SUFFICES ASSUME NEW k \in nagged' PROVE warned[k] # None /\ k \notin answered'
    BY DEF NaggedIsWarned, Comment
  <2>1. k \in nagged /\ k[2] # t BY TouchedKeeps DEF Comment
  <2> QED BY <1>1, <2>1 DEF NaggedIsWarned
<1> QED BY <1>2, <1>3, <1>4

LEMMA DoingFresh == ASSUME IInv PROVE Fresh(Doing)
BY DoingKeys DEF IInv, Fresh

LEMMA ScanFresh == ASSUME IInv, NEW p \in Ticks PROVE Fresh(scan[p])
BY DEF IInv, Fresh, EntriesAreFresh, TypeOK

LEMMA PassKeeps == ASSUME IInv, Pass PROVE IInv'
<1> USE DEF IInv
<1>1. TypeOK'
  <2>1. quiet' \in [Tasks -> 0..Stale]
    <3>1. \A t \in Tasks : Older(quiet[t], Stale) \in 0..Stale
      BY OlderTyped, ContractAssumption DEF TypeOK
    <3> QED BY <3>1 DEF Pass
  <2>2. /\ warned' \in [Keys -> {None} \cup 0..Grace]
        /\ answered' \subseteq {k \in Keys : warned'[k] # None}
    <3>1. \A k \in Keys : /\ Older(warned[k], Grace) \in {None} \cup 0..Grace
                          /\ warned[k] = None <=> Older(warned[k], Grace) = None
      BY OlderTyped, ContractAssumption DEF TypeOK
    <3> QED BY <3>1 DEF Pass, TypeOK
  <2>3. uptime' \in 0..Startup BY OlderTyped, ContractAssumption DEF Pass, TypeOK
  <2> QED BY <2>1, <2>2, <2>3 DEF Pass, TypeOK
<1>2. EntriesAreFresh' BY DEF Pass, EntriesAreFresh
<1>3. NaggedIsWarned'
  <2>1. \A k \in Keys : warned[k] = None <=> Older(warned[k], Grace) = None
    BY OlderTyped, ContractAssumption DEF TypeOK
  <2> QED BY <2>1 DEF Pass, NaggedIsWarned, TypeOK
<1> QED BY <1>1, <1>2, <1>3

LEMMA RestartKeeps == ASSUME IInv, Restart PROVE IInv'
<1> USE DEF IInv
<1>1. TypeOK' BY ContractAssumption DEF Restart, KeptAtRestart, TypeOK
<1>2. EntriesAreFresh' BY DEF Restart, EntriesAreFresh
<1>3. NaggedIsWarned' BY DEF Restart, KeptAtRestart, NaggedIsWarned
<1> QED BY <1>1, <1>2, <1>3

-----------------------------------------------------------------------------
(* Every step, and the theorems. *)

\* What one step may do, over an inductive invariant that every step keeps.
StepIsRight ==
    /\ \A t \in Tasks : row'[t].status = "todo" /\ row[t].status # "todo"
                           => row[t].status = "doing" \/ t \in unlogged
    /\ \A k \in Keys : warned[k] = None /\ warned'[k] = 0 => k \notin nagged

LEMMA StepKeeps == ASSUME IInv, [Next]_vars PROVE IInv' /\ StepIsRight
<1>q. \A k \in Keys : None # 0 BY DEF None
<1>r. IInv => TypeOK BY DEF IInv
<1>1. ASSUME NEW t \in Tasks, NEW s \in {"doing", "left"}, Move(t, s)
      PROVE  IInv' /\ StepIsRight
  BY <1>1, <1>q, <1>r, MoveKeeps DEF Move, Update, StepIsRight, TypeOK
<1>2. ASSUME NEW t \in Tasks, NEW a \in Agents, Handoff(t, a)
      PROVE  IInv' /\ StepIsRight
  BY <1>2, <1>q, <1>r, HandoffKeeps DEF Handoff, Update, StepIsRight, TypeOK
<1>3. ASSUME NEW t \in Tasks, NEW a \in Agents, NEW suppressed \in BOOLEAN,
             Comment(t, a, suppressed)
      PROVE  IInv' /\ StepIsRight
  BY <1>3, <1>q, CommentKeeps DEF Comment, StepIsRight
<1>4. ASSUME NEW t \in Tasks, LogUpdate(t) PROVE IInv' /\ StepIsRight
  BY <1>4, <1>q, LogUpdateKeeps DEF LogUpdate, StepIsRight
<1>5. ASSUME NEW p \in Ticks, Begin(p) PROVE IInv' /\ StepIsRight
  BY <1>5, DoingFresh, TurnKeeps DEF Begin, StepIsRight
<1>6. ASSUME NEW p \in Ticks, Resume(p) PROVE IInv' /\ StepIsRight
  BY <1>6, ScanFresh, TurnKeeps DEF Resume, StepIsRight
<1>7. CASE Pass
  <2>1. \A k \in Keys : warned[k] = None => warned'[k] = None
    BY <1>7, <1>r, OlderTyped, ContractAssumption DEF Pass, TypeOK
  <2> QED BY <1>7, <1>q, <2>1, PassKeeps DEF Pass, StepIsRight
<1>8. CASE Restart
  BY <1>8, <1>q, RestartKeeps DEF Restart, KeptAtRestart, StepIsRight
<1>9. CASE UNCHANGED vars
  BY <1>9, <1>q DEF vars, IInv, TypeOK, EntriesAreFresh, NaggedIsWarned, StepIsRight
<1> QED BY <1>1, <1>2, <1>3, <1>4, <1>5, <1>6, <1>7, <1>8, <1>9 DEF Next

\* The inductive invariant of the working contract.
THEOREM Invariance == Spec => []IInv
<1>1. IInv /\ [Next]_vars => IInv' BY StepKeeps
<1> QED BY InitEstablishes, <1>1, PTL DEF Spec

\* Rows, ages, warnings and scans keep their types, and only a warning that stands
\* is ever answered.
THEOREM TypeCorrect == Spec => []TypeOK
<1>1. IInv => TypeOK BY DEF IInv
<1> QED BY <1>1, Invariance, PTL

\* The tick puts back only what is in doing, or what is being written while the
\* cloud is awaited, however many ticks and agents interleave.
THEOREM RequeueCorrect == Spec => OnlyDoingRequeued
<1>1. IInv /\ [Next]_vars =>
        [\A t \in Tasks : row'[t].status = "todo" /\ row[t].status # "todo"
                             => row[t].status = "doing" \/ t \in unlogged]_vars
  BY StepKeeps DEF StepIsRight
<1> QED BY <1>1, Invariance, PTL DEF Spec, OnlyDoingRequeued

\* Where no cloud adapter is configured there is nothing to await, and the exception
\* is gone: only what is in doing is put back.
THEOREM RequeueCorrectOffline ==
    ASSUME ~Cloud
    PROVE  Spec => NeverRequeuesSubmitted
<1>1. Init => unlogged = {}
  BY DEF Init
<1>2. unlogged = {} /\ [Next]_vars => (unlogged = {})'
  <2> SUFFICES ASSUME unlogged = {}, [Next]_vars
               PROVE  unlogged' = {}
    OBVIOUS
  <2>1. ASSUME NEW t \in Tasks, NEW s, Move(t, s)
        PROVE  unlogged' = {}
    BY <2>1 DEF Move, Update
  <2>2. ASSUME NEW t \in Tasks, NEW a \in Agents, Handoff(t, a)
        PROVE  unlogged' = {}
    BY <2>2 DEF Handoff, Update
  <2>3. ASSUME NEW t \in Tasks, LogUpdate(t)
        PROVE  unlogged' = {}
    BY <2>3 DEF LogUpdate
  <2>4. ASSUME NEW t \in Tasks, NEW a \in Agents, NEW suppressed \in BOOLEAN,
               Comment(t, a, suppressed)
        PROVE  unlogged' = {}
    BY <2>4 DEF Comment
  <2>5. ASSUME NEW p \in Ticks, Begin(p) \/ Resume(p)
        PROVE  unlogged' = {}
    BY <2>5 DEF Begin, Resume
  <2>6. CASE Pass \/ Restart \/ UNCHANGED vars
    BY <2>6 DEF Pass, Restart, vars
  <2> QED
    BY <2>1, <2>2, <2>3, <2>4, <2>5, <2>6 DEF Next
<1>3. /\ unlogged = {}
      /\ [\A t \in Tasks : row'[t].status = "todo" /\ row[t].status # "todo"
                              => row[t].status = "doing" \/ t \in unlogged]_vars
      => [\A t \in Tasks : row'[t].status = "todo" /\ row[t].status # "todo"
                              => row[t].status = "doing"]_vars
  OBVIOUS
<1> QED
  BY <1>1, <1>2, <1>3, RequeueCorrect, PTL
  DEF Spec, OnlyDoingRequeued, NeverRequeuesSubmitted

\* One warning per agent and task between two events of the task, restarts included.
THEOREM WarningCorrect == Spec => OneWarningPerSpell
<1>1. IInv /\ [Next]_vars =>
        [\A k \in Keys : warned[k] = None /\ warned'[k] = 0 => k \notin nagged]_vars
  BY StepKeeps DEF StepIsRight
<1> QED BY <1>1, Invariance, PTL DEF Spec, OneWarningPerSpell

-----------------------------------------------------------------------------
(* The types of the sweeper, with those that TypeOK leaves implicit. *)

Partial(values) == UNION {[S -> values] : S \in SUBSET SweptTasks}
SweepType ==
    [runs : BOOLEAN, start : Time, reports : BOOLEAN, withPr : SUBSET SweptTasks,
     left : Partial(Meta), paging : Partial(Mark),
     found : SUBSET (SweptTasks \X Level)]

SweepTypes ==
    /\ rows \in [SweptTasks -> SweptRow] /\ merged \subseteq SweptTasks
    /\ escalated \in [SweptTasks -> Mark]
    /\ sweeps \in [Sweeps -> SweepType]
    /\ \A s \in Sweeps : DOMAIN sweeps[s].paging \subseteq DOMAIN sweeps[s].left
    /\ round \in [SweptTasks -> Nat] /\ \A t \in SweptTasks : round[t] <= moves
    /\ moves \in 0 .. MaxMoves /\ sweeperRestarts \in 0 .. MaxSweeperRestarts
    /\ now \in Time
    /\ pages \in [SweptTasks -> Seq(Level)]

\* A close by people is a close; a slot without a sweep holds nothing.
PeopleClose == \A t \in SweptTasks : rows[t].closer = "people" => rows[t].status \in Closed
IdleIsEmpty == \A s \in Sweeps : ~sweeps[s].runs => sweeps[s] = NoSweep

SweeperIInv == SweepTypes /\ PeopleClose /\ IdleIsEmpty

\* The assumption of ExecutionSweeper, a conjunct at a time.
LEMMA SweeperNumbers ==
    /\ Yields \in BOOLEAN
    /\ Sla \in Nat \ {0} /\ Cooldown \in Nat \ {0} /\ Critical \in Nat \ {0}
    /\ Day \in Nat \ {0}
    /\ MaxCount \in Nat /\ MaxMoves \in Nat /\ MaxTime \in Nat
    /\ MaxSweeperRestarts \in Nat
BY ConstantsAssumption

LEMMA SweepTypesSuffice ==
    ASSUME SweepTypes
    PROVE  SweeperTypeOK
<1>1. ASSUME NEW s \in Sweeps
      PROVE  /\ sweeps[s].start \in Time /\ DOMAIN sweeps[s].left \subseteq SweptTasks
             /\ DOMAIN sweeps[s].paging \subseteq DOMAIN sweeps[s].left
             /\ \A t \in DOMAIN sweeps[s].left : sweeps[s].left[t] \in Meta
             /\ sweeps[s].found \subseteq SweptTasks \X Level
  <2>1. sweeps[s] \in SweepType /\ DOMAIN sweeps[s].paging \subseteq DOMAIN sweeps[s].left
    BY DEF SweepTypes
  <2>2. PICK S \in SUBSET SweptTasks : sweeps[s].left \in [S -> Meta]
    BY <2>1 DEF SweepType, Partial
  <2> QED
    BY <2>1, <2>2 DEF SweepType
<1>2. round \in [SweptTasks -> 0 .. MaxMoves]
  <2>1. ASSUME NEW t \in SweptTasks
        PROVE  round[t] \in 0 .. MaxMoves
    <3>1. round[t] \in Nat /\ round[t] <= moves /\ moves \in 0 .. MaxMoves
      BY DEF SweepTypes
    <3> QED
      BY <3>1, SweeperNumbers
  <2> QED
    BY <2>1 DEF SweepTypes
<1>3. \A t \in SweptTasks : \A i \in DOMAIN pages[t] : pages[t][i] \in Level
  <2> SUFFICES ASSUME NEW t \in SweptTasks, NEW i \in DOMAIN pages[t]
               PROVE  pages[t][i] \in Level
    OBVIOUS
  <2>1. pages[t] \in Seq(Level)
    BY DEF SweepTypes
  <2> QED
    BY <2>1
<1> QED
  BY <1>1, <1>2, <1>3 DEF SweepTypes, SweeperTypeOK

\* A function on some tasks, with values of a set.
LEMMA PartialParts ==
    ASSUME NEW V, NEW f \in Partial(V)
    PROVE  /\ DOMAIN f \subseteq SweptTasks /\ f = [t \in DOMAIN f |-> f[t]]
           /\ \A t \in DOMAIN f : f[t] \in V
BY DEF Partial

LEMMA PartialIntro ==
    ASSUME NEW V, NEW S \in SUBSET SweptTasks, NEW f \in [S -> V]
    PROVE  f \in Partial(V)
BY DEF Partial

LEMMA NothingTyped ==
    /\ DOMAIN Nothing = {}
    /\ Nothing \in Partial(Meta) /\ Nothing \in Partial(Mark)
<1>1. Nothing \in [{} -> Meta] /\ Nothing \in [{} -> Mark]
  BY DEF Nothing
<1> QED
  BY <1>1, PartialIntro DEF Nothing

LEMMA NoSweepTyped ==
    NoSweep \in SweepType /\ ~NoSweep.runs
    /\ DOMAIN NoSweep.left = {} /\ DOMAIN NoSweep.paging = {}
BY NothingTyped, SweeperNumbers DEF NoSweep, SweepType, Time

\* Handling a task takes it off the list of its sweep, and touches nothing else there.
LEMMA HandledParts ==
    ASSUME SweepTypes, NEW s \in Sweeps, NEW t \in DOMAIN sweeps[s].left
    PROVE  /\ Handled(s, t) \in [Sweeps -> SweepType]
           /\ \A r \in Sweeps : r # s => Handled(s, t)[r] = sweeps[r]
           /\ DOMAIN Handled(s, t)[s].left = DOMAIN sweeps[s].left \ {t}
           /\ \A u \in DOMAIN sweeps[s].left \ {t} :
                 Handled(s, t)[s].left[u] = sweeps[s].left[u]
           /\ Handled(s, t)[s].paging = Nothing
           /\ Handled(s, t)[s].runs = sweeps[s].runs
<1> DEFINE rest == [u \in DOMAIN sweeps[s].left \ {t} |-> sweeps[s].left[u]]
           after == [sweeps[s] EXCEPT !.left = rest, !.paging = Nothing]
<1>1. sweeps \in [Sweeps -> SweepType] /\ sweeps[s] \in SweepType
  BY DEF SweepTypes
<1>2. sweeps[s].left \in Partial(Meta)
  BY <1>1 DEF SweepType
<1>3. rest \in Partial(Meta)
  <2>1. rest \in [DOMAIN sweeps[s].left \ {t} -> Meta]
    BY <1>2, PartialParts
  <2>2. DOMAIN sweeps[s].left \ {t} \in SUBSET SweptTasks
    BY <1>2, PartialParts
  <2> QED
    BY <2>1, <2>2, PartialIntro
<1>4. after \in SweepType /\ after.left = rest /\ after.paging = Nothing
      /\ after.runs = sweeps[s].runs
  <2> HIDE DEF rest
  <2> QED
    BY <1>1, <1>3, NothingTyped DEF SweepType
<1>5. Handled(s, t) = [sweeps EXCEPT ![s] = after]
  BY <1>1 DEF Handled, SweepType
<1>6. /\ DOMAIN rest = DOMAIN sweeps[s].left \ {t}
      /\ \A u \in DOMAIN rest : rest[u] = sweeps[s].left[u]
  OBVIOUS
<1> HIDE DEF after, rest
<1> QED
  BY <1>1, <1>4, <1>5, <1>6

LEMMA SweeperInitKeeps ==
    ASSUME SweeperInit
    PROVE  SweeperIInv
<1>1. NewMeta \in Meta /\ Unmarked \in Mark
  BY SweeperNumbers DEF NewMeta, Meta, Unmarked, Mark,
                        Level, Time
<1>2. rows \in [SweptTasks -> SweptRow] /\ \A t \in SweptTasks : rows[t].closer = "nobody"
  BY <1>1 DEF SweeperInit, SweptRow
<1>3. escalated \in [SweptTasks -> Mark] /\ merged \subseteq SweptTasks
  BY <1>1 DEF SweeperInit
<1>4. /\ sweeps \in [Sweeps -> SweepType]
      /\ \A s \in Sweeps : sweeps[s] = NoSweep
      /\ \A s \in Sweeps : DOMAIN sweeps[s].paging \subseteq DOMAIN sweeps[s].left
  BY NoSweepTyped DEF SweeperInit
<1>5. /\ round \in [SweptTasks -> Nat] /\ \A t \in SweptTasks : round[t] <= moves
      /\ moves \in 0 .. MaxMoves /\ sweeperRestarts \in 0 .. MaxSweeperRestarts
      /\ now \in Time
  BY SweeperNumbers DEF SweeperInit, Time
<1>6. pages \in [SweptTasks -> Seq(Level)]
  BY DEF SweeperInit
<1> QED
  BY <1>2, <1>3, <1>4, <1>5, <1>6 DEF SweeperIInv, SweepTypes, PeopleClose, IdleIsEmpty

\* What a write of one row leaves behind.
LEMMA ChangedRow ==
    ASSUME SweepTypes, NEW t \in SweptTasks,
           NEW status \in {"author", "validating"} \cup Closed,
           NEW closer \in {"nobody", "people", "sweep"}, NEW meta \in Meta,
           Changed(t, status, closer, meta)
    PROVE  /\ rows' \in [SweptTasks -> SweptRow]
           /\ rows'[t] = [status |-> status, closer |-> closer, meta |-> meta]
           /\ \A u \in SweptTasks : u # t => rows'[u] = rows[u]
BY DEF SweepTypes, Changed, SweptRow

\* A close by the sweep: not over one that is there.
LEMMA ClosedRow ==
    ASSUME SweepTypes, NEW t \in SweptTasks, NEW meta \in Meta,
           CloseUnlessClosed(t, meta)
    PROVE  /\ rows' \in [SweptTasks -> SweptRow]
           /\ \A u \in SweptTasks : u # t => rows'[u] = rows[u]
           /\ \/ rows[t].status \in Closed /\ rows'[t] = rows[t]
              \/ /\ rows[t].status \notin Closed
                 /\ rows'[t] = [status |-> "done", closer |-> "sweep", meta |-> meta]
<1>1. CASE rows[t].status \in Closed
  BY <1>1 DEF CloseUnlessClosed, SweepTypes
<1>2. CASE rows[t].status \notin Closed
  <2>1. Changed(t, "done", "sweep", meta)
    BY <1>2 DEF CloseUnlessClosed
  <2>2. "done" \in {"author", "validating"} \cup Closed
    BY DEF Closed
  <2> QED
    BY <1>2, <2>1, <2>2, ChangedRow
<1> QED
  BY <1>1, <1>2

\* A write of the metadata alone.
LEMMA MetaRow ==
    ASSUME SweepTypes, NEW t \in SweptTasks, NEW meta \in Meta,
           rows' = [rows EXCEPT ![t].meta = meta]
    PROVE  /\ rows' \in [SweptTasks -> SweptRow]
           /\ \A u \in SweptTasks : u # t => rows'[u] = rows[u]
           /\ rows'[t].status = rows[t].status /\ rows'[t].closer = rows[t].closer
           /\ rows'[t].meta = meta
<1>1. rows[t] \in SweptRow /\ rows \in [SweptTasks -> SweptRow]
  BY DEF SweepTypes
<1>2. rows' = [rows EXCEPT ![t] = [rows[t] EXCEPT !.meta = meta]]
  OBVIOUS
<1>3. /\ [rows[t] EXCEPT !.meta = meta] \in SweptRow
      /\ [rows[t] EXCEPT !.meta = meta].status = rows[t].status
      /\ [rows[t] EXCEPT !.meta = meta].closer = rows[t].closer
      /\ [rows[t] EXCEPT !.meta = meta].meta = meta
  BY <1>1 DEF SweptRow
<1> QED
  BY <1>1, <1>2, <1>3

\* What the gates make of a row: it stays, is handed back, or closes a task in review.
LEMMA GatedRow ==
    ASSUME NEW row1 \in SweptRow
    PROVE  /\ Gated(row1) \in SweptRow
           /\ Gated(row1).meta.level = row1.meta.level
           /\ \/ Gated(row1) = row1
              \/ /\ row1.status = "validating"
                 /\ Gated(row1).status = "author"
                 /\ Gated(row1).closer = row1.closer
              \/ /\ row1.status = "validating"
                 /\ Gated(row1).status = "done"
                 /\ Gated(row1).closer = "sweep"
<1>1. row1.meta \in Meta
  BY DEF SweptRow
<1>2. CASE row1.status # "validating" \/ ~row1.meta.approved \/ row1.meta.decided
  BY <1>2 DEF Gated
<1>3. CASE /\ row1.status = "validating" /\ row1.meta.approved /\ ~row1.meta.decided
           /\ row1.meta.duplicate
  <2>1. Gated(row1) = [row1 EXCEPT !.status = "author",
                                           !.meta = [row1.meta EXCEPT !.approved = FALSE]]
    BY <1>3 DEF Gated, SweptRow
  <2>2. /\ [row1.meta EXCEPT !.approved = FALSE] \in Meta
        /\ [row1.meta EXCEPT !.approved = FALSE].level = row1.meta.level
    BY <1>1 DEF Meta
  <2> QED
    BY <1>3, <2>1, <2>2 DEF SweptRow
<1>4. CASE /\ row1.status = "validating" /\ row1.meta.approved /\ ~row1.meta.decided
           /\ ~row1.meta.duplicate
  <2>1. Gated(row1) = [row1 EXCEPT !.status = "done", !.closer = "sweep"]
    BY <1>4 DEF Gated
  <2> QED
    BY <1>4, <2>1 DEF SweptRow, Closed
<1> QED
  BY <1>1, <1>2, <1>3, <1>4 DEF Meta

LEMMA Statuses ==
    /\ "author" \in {"author", "validating"} \cup Closed
    /\ "validating" \in {"author", "validating"} \cup Closed
    /\ "done" \in {"author", "validating"} \cup Closed
    /\ "nobody" \in {"nobody", "people", "sweep"}
BY DEF Closed

\* People and GitHub: one more move, which leaves the sweeps alone.
LEMMA MoveCounts ==
    ASSUME SweepTypes, PeopleMove
    PROVE  moves' = moves + 1 /\ moves \in Nat /\ moves' \in 0 .. MaxMoves
<1>1. moves \in 0 .. MaxMoves
  BY DEF SweepTypes
<1>2. moves < MaxMoves /\ moves' = moves + 1
  BY DEF PeopleMove
<1> QED
  BY <1>1, <1>2, SweeperNumbers

LEMMA SubmitStep ==
    ASSUME SweeperIInv, NEW t \in SweptTasks,
           NEW artifact \in {"none", "qa", "pr"}, NEW duplicate \in BOOLEAN,
           Submit(t, artifact, duplicate)
    PROVE  /\ SweeperIInv' /\ rows'[t].closer = "nobody"
           /\ \A u \in SweptTasks : u # t => rows'[u] = rows[u]
<1> DEFINE meta == [rows[t].meta EXCEPT !.entered = now, !.since = now,
                                        !.artifact = artifact, !.duplicate = duplicate]
<1>1. SweepTypes /\ PeopleClose /\ IdleIsEmpty
  BY DEF SweeperIInv
<1>2. meta \in Meta
  <2>1. rows[t].meta \in Meta /\ now \in Time
    BY <1>1 DEF SweepTypes, SweptRow
  <2> QED
    BY <2>1 DEF Meta
<1>3. /\ Changed(t, "validating", "nobody", meta)
      /\ round' = [round EXCEPT ![t] = @ + 1] /\ pages' = [pages EXCEPT ![t] = <<>>]
      /\ UNCHANGED <<merged, escalated, sweeps, sweeperRestarts, now>>
  BY DEF Submit
<1> HIDE DEF meta
<1>4. /\ rows' \in [SweptTasks -> SweptRow] /\ rows'[t].closer = "nobody"
      /\ \A u \in SweptTasks : u # t => rows'[u] = rows[u]
  <2>1. /\ rows' \in [SweptTasks -> SweptRow]
        /\ rows'[t] = [status |-> "validating", closer |-> "nobody", meta |-> meta]
        /\ \A u \in SweptTasks : u # t => rows'[u] = rows[u]
    BY <1>1, <1>2, <1>3, ChangedRow, Statuses
  <2> QED
    BY <2>1
<1>5. moves' = moves + 1 /\ moves \in Nat /\ moves' \in 0 .. MaxMoves
  BY <1>1, MoveCounts DEF Submit
<1>6. round' \in [SweptTasks -> Nat] /\ \A u \in SweptTasks : round'[u] <= moves'
  <2>1. round \in [SweptTasks -> Nat] /\ \A u \in SweptTasks : round[u] <= moves
    BY <1>1 DEF SweepTypes
  <2>2. ASSUME NEW u \in SweptTasks
        PROVE  round'[u] \in Nat /\ round'[u] <= moves'
    <3>1. /\ round[u] \in Nat /\ round[u] <= moves
          /\ round'[u] = IF u = t THEN round[u] + 1 ELSE round[u]
      BY <1>3, <2>1
    <3> QED
      BY <1>5, <3>1
  <2> QED
    BY <1>3, <2>1, <2>2
<1>7. pages' \in [SweptTasks -> Seq(Level)]
  BY <1>1, <1>3 DEF SweepTypes
<1>8. SweepTypes'
  BY <1>1, <1>3, <1>4, <1>5, <1>6, <1>7 DEF SweepTypes, Time
<1>9. PeopleClose' /\ IdleIsEmpty'
  BY <1>1, <1>3, <1>4 DEF PeopleClose, IdleIsEmpty
<1> QED
  BY <1>4, <1>8, <1>9 DEF SweeperIInv

\* A move that changes one row at most, and the clock of no review.
LEMMA RowMove ==
    ASSUME SweeperIInv, PeopleMove, NEW t \in SweptTasks,
           rows' \in [SweptTasks -> SweptRow], \A u \in SweptTasks : u # t => rows'[u] = rows[u],
           rows'[t].closer = "people" => rows'[t].status \in Closed,
           merged' \subseteq SweptTasks,
           UNCHANGED <<escalated, sweeps, round, pages, sweeperRestarts, now>>
    PROVE  SweeperIInv'
<1>1. SweepTypes /\ PeopleClose /\ IdleIsEmpty
  BY DEF SweeperIInv
<1>2. moves' = moves + 1 /\ moves \in Nat /\ moves' \in 0 .. MaxMoves
  BY <1>1, MoveCounts
<1>3. \A u \in SweptTasks : round'[u] <= moves'
  <2>1. ASSUME NEW u \in SweptTasks
        PROVE  round'[u] <= moves'
    <3>1. round[u] \in Nat /\ round[u] <= moves
      BY <1>1 DEF SweepTypes
    <3> QED
      BY <1>2, <3>1
  <2> QED
    BY <2>1
<1>4. SweepTypes'
  BY <1>1, <1>2, <1>3 DEF SweepTypes, Time
<1>5. PeopleClose' /\ IdleIsEmpty'
  BY <1>1 DEF PeopleClose, IdleIsEmpty
<1> QED
  BY <1>4, <1>5 DEF SweeperIInv

\* A review and a task that leaves: a task that was in review is written, its level stays.
LEMMA ReviewStep ==
    ASSUME SweeperIInv, NEW t \in SweptTasks,
           NEW verdict \in {"in_progress", "approve", "reject"}, Review(t, verdict)
    PROVE  /\ SweeperIInv' /\ rows[t].status = "validating"
           /\ rows'[t].meta.level = rows[t].meta.level
           /\ \A u \in SweptTasks : u # t => rows'[u] = rows[u]
<1> DEFINE m == [rows[t].meta EXCEPT !.since = now]
           meta == CASE verdict = "in_progress" -> m
                     [] verdict = "approve" -> [m EXCEPT !.approved = TRUE]
                     [] verdict = "reject" -> [m EXCEPT !.approved = FALSE, !.decided = TRUE]
<1>1. SweepTypes /\ rows[t].meta \in Meta /\ now \in Time
  BY DEF SweeperIInv, SweepTypes, SweptRow
<1>2. m \in Meta /\ m.level = rows[t].meta.level
  BY <1>1 DEF Meta
<1>3. meta \in Meta /\ meta.level = rows[t].meta.level
  <2> HIDE DEF m
  <2>1. CASE verdict = "in_progress"
    BY <1>2, <2>1
  <2>2. CASE verdict = "approve"
    BY <1>2, <2>2 DEF Meta
  <2>3. CASE verdict = "reject"
    BY <1>2, <2>3 DEF Meta
  <2> QED
    BY <2>1, <2>2, <2>3
<1>4. /\ Changed(t, "validating", "nobody", meta) /\ PeopleMove
      /\ rows[t].status = "validating"
      /\ UNCHANGED <<merged, escalated, sweeps, round, pages, sweeperRestarts, now>>
  BY DEF Review
<1> HIDE DEF meta
<1>5. /\ rows' \in [SweptTasks -> SweptRow] /\ rows'[t].closer = "nobody"
      /\ rows'[t].meta = meta /\ \A u \in SweptTasks : u # t => rows'[u] = rows[u]
  <2>1. /\ rows' \in [SweptTasks -> SweptRow]
        /\ rows'[t] = [status |-> "validating", closer |-> "nobody", meta |-> meta]
        /\ \A u \in SweptTasks : u # t => rows'[u] = rows[u]
    BY <1>1, <1>3, <1>4, ChangedRow, Statuses
  <2> QED
    BY <2>1
<1>6. SweeperIInv'
  BY <1>1, <1>4, <1>5, RowMove DEF SweepTypes
<1> QED
  BY <1>3, <1>4, <1>5, <1>6

LEMMA LeaveStep ==
    ASSUME SweeperIInv, NEW t \in SweptTasks,
           NEW status \in {"author", "done", "cancelled"}, Leave(t, status)
    PROVE  /\ SweeperIInv' /\ rows[t].status = "validating"
           /\ rows'[t].meta.level = rows[t].meta.level
           /\ rows'[t].status # "validating"
           /\ rows'[t].closer = IF status = "author" THEN "nobody" ELSE "people"
           /\ \A u \in SweptTasks : u # t => rows'[u] = rows[u]
<1> DEFINE m == rows[t].meta
           meta == CASE status = "author" -> [m EXCEPT !.since = now]
                     [] status = "done" -> [m EXCEPT !.approved = TRUE]
                     [] status = "cancelled" -> [m EXCEPT !.approved = FALSE, !.decided = FALSE]
           closer == IF status = "author" THEN "nobody" ELSE "people"
<1>1. SweepTypes /\ m \in Meta /\ now \in Time
  BY DEF SweeperIInv, SweepTypes, SweptRow
<1>2. meta \in Meta /\ meta.level = m.level
  <2> HIDE DEF m
  <2>1. CASE status = "author"
    BY <1>1, <2>1 DEF Meta
  <2>2. CASE status = "done"
    BY <1>1, <2>2 DEF Meta
  <2>3. CASE status = "cancelled"
    BY <1>1, <2>3 DEF Meta
  <2> QED
    BY <2>1, <2>2, <2>3
<1>3. /\ Changed(t, status, closer, meta) /\ PeopleMove
      /\ rows[t].status = "validating"
      /\ UNCHANGED <<merged, escalated, sweeps, round, pages, sweeperRestarts, now>>
  BY DEF Leave
<1>4. /\ closer \in {"nobody", "people", "sweep"}
      /\ status \in {"author", "validating"} \cup Closed
      /\ closer = "people" => status \in Closed
  BY DEF Closed
<1> HIDE DEF meta, closer
<1>5. /\ rows' \in [SweptTasks -> SweptRow] /\ rows'[t].closer = closer
      /\ rows'[t].status = status /\ rows'[t].meta = meta
      /\ \A u \in SweptTasks : u # t => rows'[u] = rows[u]
  <2>1. /\ rows' \in [SweptTasks -> SweptRow]
        /\ rows'[t] = [status |-> status, closer |-> closer, meta |-> meta]
        /\ \A u \in SweptTasks : u # t => rows'[u] = rows[u]
    BY <1>1, <1>2, <1>3, <1>4, ChangedRow
  <2> QED
    BY <2>1
<1>6. SweeperIInv'
  BY <1>1, <1>3, <1>4, <1>5, RowMove DEF SweepTypes
<1> QED
  <2>1. rows'[t].meta.level = rows[t].meta.level
    BY <1>2, <1>5
  <2>2. rows'[t].status # "validating"
    BY <1>5
  <2>3. rows'[t].closer = IF status = "author" THEN "nobody" ELSE "people"
    BY <1>5 DEF closer
  <2> QED
    BY <1>3, <1>5, <1>6, <2>1, <2>2, <2>3

LEMMA MergeStep ==
    ASSUME SweeperIInv, NEW t \in SweptTasks,
           NEW told \in BOOLEAN, Merge(t, told)
    PROVE  /\ SweeperIInv' /\ rows'[t].meta.level = rows[t].meta.level
           /\ (rows'[t] = rows[t] \/ rows[t].status = "validating")
           /\ (rows'[t].status = "validating" => rows[t].status = "validating")
           /\ \A u \in SweptTasks : u # t => rows'[u] = rows[u]
<1>1. SweepTypes /\ rows \in [SweptTasks -> SweptRow] /\ PeopleClose
  BY DEF SweeperIInv, SweepTypes
<1>2. /\ PeopleMove /\ merged' = merged \cup {t}
      /\ rows' = IF told THEN [rows EXCEPT ![t] = Gated(rows[t])] ELSE rows
      /\ UNCHANGED <<escalated, sweeps, round, pages, sweeperRestarts, now>>
  BY DEF Merge
<1>3. /\ Gated(rows[t]) \in SweptRow
      /\ Gated(rows[t]).meta.level = rows[t].meta.level
      /\ \/ Gated(rows[t]) = rows[t]
         \/ /\ rows[t].status = "validating"
            /\ Gated(rows[t]).status = "author"
            /\ Gated(rows[t]).closer = rows[t].closer
         \/ /\ rows[t].status = "validating"
            /\ Gated(rows[t]).status = "done"
            /\ Gated(rows[t]).closer = "sweep"
  BY <1>1, GatedRow
<1>4. /\ rows' \in [SweptTasks -> SweptRow]
      /\ \A u \in SweptTasks : u # t => rows'[u] = rows[u]
      /\ rows'[t] = rows[t] \/ rows'[t] = Gated(rows[t])
  BY <1>1, <1>2, <1>3
<1>5. rows'[t].closer = "people" => rows'[t].status \in Closed
  BY <1>1, <1>3, <1>4 DEF PeopleClose, Closed
<1>6. merged' \subseteq SweptTasks
  BY <1>1, <1>2 DEF SweepTypes
<1>7. SweeperIInv'
  BY <1>2, <1>4, <1>5, <1>6, RowMove
<1> QED
  BY <1>3, <1>4, <1>7

-----------------------------------------------------------------------------
(* The sweep.  First what it makes of a row, whatever its reason. *)

\* A task that stays as it was for all but its metadata, or is taken out of review by
\* the sweep, which closes nothing that is closed.
RowEffect(t) ==
    /\ rows' \in [SweptTasks -> SweptRow]
    /\ \A u \in SweptTasks : u # t => rows'[u] = rows[u]
    /\ \/ rows'[t].status = rows[t].status /\ rows'[t].closer = rows[t].closer
       \/ /\ rows'[t].status # "validating" /\ rows'[t].closer # "people"
          /\ rows'[t].status \in Closed => rows[t].status \notin Closed

Read(s, t) == sweeps[s].left[t]
MarkRead(s, t) ==
    IF t \in DOMAIN sweeps[s].paging THEN sweeps[s].paging[t]
    ELSE MarkOf(t, Read(s, t))

LEMMA LeftTyped ==
    ASSUME SweepTypes, NEW s \in Sweeps
    PROVE  /\ sweeps[s] \in SweepType
           /\ DOMAIN sweeps[s].left \subseteq SweptTasks
           /\ DOMAIN sweeps[s].paging \subseteq DOMAIN sweeps[s].left
           /\ \A t \in DOMAIN sweeps[s].left : sweeps[s].left[t] \in Meta
           /\ \A t \in DOMAIN sweeps[s].paging : sweeps[s].paging[t] \in Mark
<1>1. /\ sweeps[s] \in SweepType
      /\ DOMAIN sweeps[s].paging \subseteq DOMAIN sweeps[s].left
  BY DEF SweepTypes
<1>2. sweeps[s].left \in Partial(Meta) /\ sweeps[s].paging \in Partial(Mark)
  BY <1>1 DEF SweepType
<1> QED
  BY <1>1, <1>2, PartialParts

LEMMA MarksTyped ==
    ASSUME SweepTypes, NEW s \in Sweeps, NEW t \in DOMAIN sweeps[s].left
    PROVE  /\ MarkOf(t, Read(s, t)) \in Mark
           /\ MarkRead(s, t) \in Mark
<1>1. escalated[t] \in Mark
  BY LeftTyped DEF SweepTypes
<1>2. Read(s, t) \in Meta
  BY LeftTyped DEF Read
<1>3. [level |-> Read(s, t).level, at |-> Read(s, t).at] \in Mark
  BY <1>2 DEF Meta, Mark
<1>4. MarkOf(t, Read(s, t)) \in Mark
  BY <1>1, <1>3 DEF MarkOf
<1> QED
  BY <1>4, LeftTyped DEF MarkRead

LEMMA UnmarkedTyped ==
    Unmarked \in Mark
BY SweeperNumbers DEF Unmarked, Mark, Level, Time

\* The steps by which a task is done with unpaged.
LEMMA SettledEffect ==
    ASSUME SweepTypes, NEW s \in Sweeps,
           NEW t \in DOMAIN sweeps[s].left,
           \/ RejectArtifacts(s, t, Read(s, t))
           \/ RepairApproved(s, t, Read(s, t))
           \/ SkipDecided(s, t, Read(s, t))
    PROVE  /\ RowEffect(t) /\ (rows'[t] = rows[t] \/ rows'[t].status # "validating")
           /\ sweeps' = Handled(s, t) /\ pages' = pages
           /\ escalated' = escalated \/ escalated' = Unescalated(t)
<1> DEFINE m == Read(s, t)
<1>1. m \in Meta /\ t \in SweptTasks /\ rows \in [SweptTasks -> SweptRow]
  BY LeftTyped DEF Read, SweepTypes
<1>2. CASE RejectArtifacts(s, t, m)
  <2> DEFINE meta == [m EXCEPT !.approved = FALSE]
  <2>1. meta \in Meta
    BY <1>1 DEF Meta
  <2>2. Changed(t, "author", "nobody", meta)
    BY <1>2 DEF RejectArtifacts
  <2> HIDE DEF meta
  <2>3. /\ rows' \in [SweptTasks -> SweptRow]
        /\ \A u \in SweptTasks : u # t => rows'[u] = rows[u]
        /\ rows'[t] = [status |-> "author", closer |-> "nobody", meta |-> meta]
    BY <1>1, <2>1, <2>2, ChangedRow, Statuses
  <2>4. RowEffect(t) /\ rows'[t].status # "validating"
    BY <2>3 DEF RowEffect, Closed
  <2> QED
    BY <1>2, <2>4 DEF RejectArtifacts
<1>3. CASE RepairApproved(s, t, m)
  <2>1. CASE m.duplicate
    <3> DEFINE meta == [m EXCEPT !.approved = FALSE, !.decided = FALSE]
    <3>1. meta \in Meta
      BY <1>1 DEF Meta
    <3>2. Changed(t, "author", "nobody", meta) /\ escalated' = escalated
      BY <1>3, <2>1 DEF RepairApproved
    <3> HIDE DEF meta
    <3>3. /\ rows' \in [SweptTasks -> SweptRow]
          /\ \A u \in SweptTasks : u # t => rows'[u] = rows[u]
          /\ rows'[t] = [status |-> "author", closer |-> "nobody", meta |-> meta]
      BY <1>1, <3>1, <3>2, ChangedRow, Statuses
    <3>4. RowEffect(t) /\ rows'[t].status # "validating"
      BY <3>3 DEF RowEffect, Closed
    <3> QED
      BY <1>3, <3>2, <3>4 DEF RepairApproved
  <2>2. CASE ~m.duplicate
    <3>1. CloseUnlessClosed(t, m) /\ escalated' = Unescalated(t)
      BY <1>3, <2>2 DEF RepairApproved
    <3>2. /\ rows' \in [SweptTasks -> SweptRow]
          /\ \A u \in SweptTasks : u # t => rows'[u] = rows[u]
          /\ \/ rows[t].status \in Closed /\ rows'[t] = rows[t]
             \/ /\ rows[t].status \notin Closed
                /\ rows'[t] = [status |-> "done", closer |-> "sweep", meta |-> m]
      BY <1>1, <3>1, ClosedRow
    <3>3. RowEffect(t) /\ (rows'[t] = rows[t] \/ rows'[t].status # "validating")
      BY <3>2 DEF RowEffect
    <3> QED
      BY <1>3, <3>1, <3>3 DEF RepairApproved
  <2> QED
    BY <2>1, <2>2
<1>4. CASE SkipDecided(s, t, m)
  BY <1>1, <1>4 DEF SkipDecided, RowEffect
<1> QED
  BY <1>2, <1>3, <1>4

\* The sweep replaces the reviewer and goes on with the mark it has read.
LEMMA ReassignEffect ==
    ASSUME SweepTypes, NEW s \in Sweeps,
           NEW t \in DOMAIN sweeps[s].left, Reassign(s, t, Read(s, t))
    PROVE  /\ RowEffect(t) /\ rows'[t].status = rows[t].status
           /\ rows'[t].meta.level = Read(s, t).level
           /\ sweeps' \in [Sweeps -> SweepType]
           /\ \A r \in Sweeps : r # s => sweeps'[r] = sweeps[r]
           /\ sweeps'[s].left = sweeps[s].left /\ sweeps'[s].runs = sweeps[s].runs
           /\ sweeps'[s].paging = [u \in {t} |-> MarkOf(t, Read(s, t))]
           /\ escalated' = [escalated EXCEPT ![t] = MarkOf(t, Read(s, t))]
           /\ pages' = pages
<1> DEFINE m == Read(s, t)
           meta == [m EXCEPT !.reassigned = TRUE, !.since = sweeps[s].start]
           paging == [u \in {t} |-> MarkOf(t, m)]
<1>1. m \in Meta /\ t \in SweptTasks /\ sweeps[s] \in SweepType
      /\ sweeps[s].start \in Time /\ sweeps \in [Sweeps -> SweepType]
  BY LeftTyped DEF Read, SweepTypes, SweepType
<1>2. meta \in Meta /\ meta.level = m.level
  BY <1>1 DEF Meta
<1>3. /\ rows' = [rows EXCEPT ![t].meta = meta]
      /\ sweeps' = [sweeps EXCEPT ![s].paging = paging] /\ pages' = pages
      /\ escalated' = [escalated EXCEPT ![t] = MarkOf(t, m)]
  BY DEF Reassign
<1>4. /\ RowEffect(t) /\ rows'[t].status = rows[t].status /\ rows'[t].meta = meta
  <2> HIDE DEF meta
  <2> QED
    BY <1>1, <1>2, <1>3, MetaRow DEF RowEffect
<1>5. paging \in Partial(Mark)
  <2>1. paging \in [{t} -> Mark] /\ {t} \in SUBSET SweptTasks
    BY <1>1, MarksTyped
  <2> QED
    BY <2>1, PartialIntro
<1>6. /\ sweeps' \in [Sweeps -> SweepType]
      /\ \A r \in Sweeps : r # s => sweeps'[r] = sweeps[r]
      /\ sweeps'[s].left = sweeps[s].left /\ sweeps'[s].runs = sweeps[s].runs
      /\ sweeps'[s].paging = paging
  <2> HIDE DEF paging
  <2>1. sweeps' = [sweeps EXCEPT ![s] = [sweeps[s] EXCEPT !.paging = paging]]
    BY <1>3
  <2>2. /\ [sweeps[s] EXCEPT !.paging = paging] \in SweepType
        /\ [sweeps[s] EXCEPT !.paging = paging].left = sweeps[s].left
        /\ [sweeps[s] EXCEPT !.paging = paging].runs = sweeps[s].runs
        /\ [sweeps[s] EXCEPT !.paging = paging].paging = paging
    BY <1>1, <1>5 DEF SweepType
  <2> QED
    BY <1>1, <2>1, <2>2
<1> QED
  BY <1>2, <1>3, <1>4, <1>6

\* Nothing is due, or the pull request is merged: no page, and no level but the one the
\* row has.
LEMMA UnpagedEffect ==
    ASSUME SweepTypes, NEW s \in Sweeps,
           NEW t \in DOMAIN sweeps[s].left,
           \/ /\ escalated' = [escalated EXCEPT ![t] = MarkRead(s, t)]
              /\ sweeps' = Handled(s, t) /\ UNCHANGED <<rows, pages>>
           \/ SettleMerged(s, t, Read(s, t), MarkRead(s, t))
    PROVE  /\ RowEffect(t)
           /\ \/ rows'[t].status # "validating"
              \/ rows'[t].status = rows[t].status /\ rows'[t].meta.level = rows[t].meta.level
           /\ sweeps' = Handled(s, t) /\ pages' = pages
           /\ escalated' = [escalated EXCEPT ![t] = MarkRead(s, t)]
<1> DEFINE m == Read(s, t)
<1>1. m \in Meta /\ t \in SweptTasks /\ rows \in [SweptTasks -> SweptRow]
      /\ rows[t] \in SweptRow
  BY LeftTyped DEF Read, SweepTypes
<1>2. CASE /\ escalated' = [escalated EXCEPT ![t] = MarkRead(s, t)]
           /\ sweeps' = Handled(s, t) /\ UNCHANGED <<rows, pages>>
  BY <1>1, <1>2 DEF RowEffect
<1>3. CASE SettleMerged(s, t, m, MarkRead(s, t))
  <2>1. /\ sweeps' = Handled(s, t) /\ pages' = pages
        /\ escalated' = [escalated EXCEPT ![t] = MarkRead(s, t)]
    BY <1>3 DEF SettleMerged
  <2>2. CASE CriticalDue(s, m, MarkRead(s, t)) /\ m.duplicate
    <3>1. rows' = rows
      BY <1>3, <2>2 DEF SettleMerged
    <3> QED
      BY <1>1, <2>1, <3>1 DEF RowEffect
  <2>3. CASE CriticalDue(s, m, MarkRead(s, t)) /\ ~m.duplicate
    <3> DEFINE meta == [m EXCEPT !.level = "none", !.at = 0, !.count = 0]
    <3>1. meta \in Meta
      <4>1. "none" \in Level /\ 0 \in Time /\ 0 \in 0 .. MaxCount
        BY SweeperNumbers DEF Level, Time
      <4> QED
        BY <1>1, <4>1 DEF Meta
    <3>2. CloseUnlessClosed(t, meta)
      BY <1>3, <2>3 DEF SettleMerged
    <3> HIDE DEF meta
    <3>3. /\ rows' \in [SweptTasks -> SweptRow]
          /\ \A u \in SweptTasks : u # t => rows'[u] = rows[u]
          /\ \/ rows[t].status \in Closed /\ rows'[t] = rows[t]
             \/ /\ rows[t].status \notin Closed
                /\ rows'[t] = [status |-> "done", closer |-> "sweep", meta |-> meta]
      BY <1>1, <3>1, <3>2, ClosedRow
    <3> QED
      BY <2>1, <3>3 DEF RowEffect
  <2>4. CASE ~CriticalDue(s, m, MarkRead(s, t))
    <3> DEFINE meta == [rows[t].meta EXCEPT !.nudged = TRUE]
    <3>1. rows[t].meta \in Meta
      BY <1>1 DEF SweptRow
    <3>2. meta \in Meta /\ meta.level = rows[t].meta.level
      BY <3>1 DEF Meta
    <3>3. rows' = rows \/ rows' = [rows EXCEPT ![t].meta = meta]
      BY <1>3, <2>4 DEF SettleMerged
    <3> HIDE DEF meta
    <3>4. CASE rows' = rows
      BY <1>1, <2>1, <3>4 DEF RowEffect
    <3>5. CASE rows' = [rows EXCEPT ![t].meta = meta]
      BY <1>1, <2>1, <3>2, <3>5, MetaRow DEF RowEffect
    <3> QED
      BY <3>3, <3>4, <3>5
  <2> QED
    BY <2>2, <2>3, <2>4
<1> QED
  BY <1>2, <1>3

\* A page: its level is put down in the row, in memory and for the digest.
LEMMA PagedEffect ==
    ASSUME SweepTypes, NEW s \in Sweeps,
           NEW t \in DOMAIN sweeps[s].left, NEW level \in {"warning", "critical"},
           ~Silenced(s, Read(s, t), MarkRead(s, t)),
           Paged(s, t, Read(s, t), level)
    PROVE  /\ RowEffect(t) /\ rows'[t].status = rows[t].status
           /\ rows'[t].meta.level = level
           /\ sweeps' \in [Sweeps -> SweepType]
           /\ \A r \in Sweeps : r # s => sweeps'[r] = sweeps[r]
           /\ sweeps'[s].left = Handled(s, t)[s].left
           /\ sweeps'[s].paging = Nothing /\ sweeps'[s].runs = sweeps[s].runs
           /\ escalated' \in [SweptTasks -> Mark] /\ escalated'[t].level = level
           /\ \A u \in SweptTasks : u # t => escalated'[u] = escalated[u]
           /\ pages' = [pages EXCEPT ![t] = Append(@, level)]
<1> DEFINE m == Read(s, t)
           mark == [level |-> level, at |-> sweeps[s].start]
           meta == [rows[t].meta EXCEPT !.level = level, !.at = sweeps[s].start,
                                        !.count = m.count + 1]
           found == sweeps[s].found \cup {<<t, level>>}
           handled == Handled(s, t)
<1>1. /\ m \in Meta /\ t \in SweptTasks /\ rows \in [SweptTasks -> SweptRow]
      /\ rows[t].meta \in Meta /\ sweeps[s].start \in Time
      /\ sweeps[s].found \in SUBSET (SweptTasks \X Level)
      /\ level \in Level /\ sweeps \in [Sweeps -> SweepType]
      /\ escalated \in [SweptTasks -> Mark]
  BY LeftTyped DEF Read, SweepTypes, SweepType, SweptRow, Level
<1>2. m.count + 1 \in 0 .. MaxCount
  <2>1. m.count \in 0 .. MaxCount /\ ~(m.count >= MaxCount)
    BY <1>1 DEF Silenced, Meta
  <2> QED
    BY <2>1, SweeperNumbers
<1>3. meta \in Meta /\ meta.level = level
  BY <1>1, <1>2 DEF Meta
<1>4. /\ rows' = [rows EXCEPT ![t].meta.level = level, ![t].meta.at = sweeps[s].start,
                              ![t].meta.count = m.count + 1]
      /\ sweeps' = [handled EXCEPT ![s].found = @ \cup {<<t, level>>}]
      /\ escalated' = [escalated EXCEPT ![t] = mark]
      /\ pages' = [pages EXCEPT ![t] = Append(@, level)]
  BY DEF Paged
<1>5. rows' = [rows EXCEPT ![t].meta = meta]
  <2>1. rows[t] \in SweptRow
    BY <1>1
  <2> QED
    BY <1>1, <1>4, <2>1 DEF SweptRow, Meta
<1>6. /\ RowEffect(t) /\ rows'[t].status = rows[t].status /\ rows'[t].meta = meta
  <2> HIDE DEF meta
  <2> QED
    BY <1>1, <1>3, <1>5, MetaRow DEF RowEffect
<1>7. /\ handled \in [Sweeps -> SweepType]
      /\ \A r \in Sweeps : r # s => handled[r] = sweeps[r]
      /\ handled[s].paging = Nothing /\ handled[s].runs = sweeps[s].runs
  BY HandledParts
<1>8. /\ sweeps' \in [Sweeps -> SweepType]
      /\ \A r \in Sweeps : r # s => sweeps'[r] = sweeps[r]
      /\ sweeps'[s].left = handled[s].left
      /\ sweeps'[s].paging = Nothing /\ sweeps'[s].runs = sweeps[s].runs
  <2> HIDE DEF handled
  <2> DEFINE after == [handled[s] EXCEPT !.found = @ \cup {<<t, level>>}]
  <2>1. handled[s] \in SweepType
    BY <1>7
  <2>2. /\ after \in SweepType /\ after.left = handled[s].left
        /\ after.paging = handled[s].paging /\ after.runs = handled[s].runs
    BY <1>1, <2>1 DEF SweepType
  <2>3. sweeps' = [handled EXCEPT ![s] = after]
    BY <1>4
  <2> HIDE DEF after
  <2> QED
    BY <1>7, <2>2, <2>3
<1>9. /\ escalated' \in [SweptTasks -> Mark] /\ escalated'[t].level = level
      /\ \A u \in SweptTasks : u # t => escalated'[u] = escalated[u]
  <2>1. mark \in Mark
    BY <1>1 DEF Mark
  <2> QED
    BY <1>1, <1>4, <2>1
<1> QED
  BY <1>3, <1>4, <1>6, <1>8, <1>9

\* Of a task that is handled one of three things is true: it is done with, its reviewer
\* was replaced, or its reviewer is paged.
LEMMA HandleCases ==
    ASSUME NEW s \in Sweeps, NEW t \in SweptTasks, Handle(s, t)
    PROVE  /\ t \in DOMAIN sweeps[s].left
           /\ UNCHANGED <<merged, round, moves, sweeperRestarts, now>>
           /\ \/ \/ RejectArtifacts(s, t, Read(s, t))
                 \/ RepairApproved(s, t, Read(s, t))
                 \/ SkipDecided(s, t, Read(s, t))
              \/ Reassign(s, t, Read(s, t))
              \/ \/ /\ escalated' = [escalated EXCEPT ![t] = MarkRead(s, t)]
                    /\ sweeps' = Handled(s, t) /\ UNCHANGED <<rows, pages>>
                 \/ SettleMerged(s, t, Read(s, t), MarkRead(s, t))
              \/ \E level \in {"warning", "critical"} :
                    /\ ~Silenced(s, Read(s, t), MarkRead(s, t))
                    /\ level = "warning" =>
                          WarningDue(s, Read(s, t), MarkRead(s, t))
                    /\ level = "critical" =>
                          CriticalDue(s, Read(s, t), MarkRead(s, t))
                    /\ Paged(s, t, Read(s, t), level)
<1>1. /\ t \in DOMAIN sweeps[s].left
      /\ UNCHANGED <<merged, round, moves, sweeperRestarts, now>>
      /\ \/ RejectArtifacts(s, t, Read(s, t))
         \/ RepairApproved(s, t, Read(s, t))
         \/ SkipDecided(s, t, Read(s, t))
         \/ Reassign(s, t, Read(s, t))
         \/ \E asMerged \in BOOLEAN : PageReviewer(s, t, Read(s, t), asMerged)
  BY DEF Handle, Read
<1>2. ASSUME NEW asMerged \in BOOLEAN, PageReviewer(s, t, Read(s, t), asMerged)
      PROVE  \/ /\ escalated' = [escalated EXCEPT ![t] = MarkRead(s, t)]
                /\ sweeps' = Handled(s, t) /\ UNCHANGED <<rows, pages>>
             \/ SettleMerged(s, t, Read(s, t), MarkRead(s, t))
             \/ \E level \in {"warning", "critical"} :
                   /\ ~Silenced(s, Read(s, t), MarkRead(s, t))
                   /\ level = "warning" =>
                         WarningDue(s, Read(s, t), MarkRead(s, t))
                   /\ level = "critical" =>
                         CriticalDue(s, Read(s, t), MarkRead(s, t))
                   /\ Paged(s, t, Read(s, t), level)
  <2> DEFINE m == Read(s, t)
             mark == MarkRead(s, t)
             due == /\ ~Silenced(s, m, mark)
                    /\ CriticalDue(s, m, mark) \/ WarningDue(s, m, mark)
  <2>1. \/ /\ escalated' = [escalated EXCEPT ![t] = mark]
           /\ sweeps' = Handled(s, t) /\ UNCHANGED <<rows, pages>>
        \/ SettleMerged(s, t, m, mark)
        \/ due /\ Paged(s, t, m, IF CriticalDue(s, m, mark)
                                         THEN "critical" ELSE "warning")
    BY <1>2 DEF PageReviewer, MarkRead
  <2>2. CASE due /\ Paged(s, t, m, IF CriticalDue(s, m, mark)
                                           THEN "critical" ELSE "warning")
    <3>1. CASE CriticalDue(s, m, mark)
      BY <2>2, <3>1
    <3>2. CASE ~CriticalDue(s, m, mark)
      BY <2>2, <3>2
    <3> QED
      BY <3>1, <3>2
  <2> QED
    BY <2>1, <2>2
<1> QED
  BY <1>1, <1>2

LEMMA HandledTypes ==
    ASSUME SweeperIInv, NEW s \in Sweeps,
           NEW t \in DOMAIN sweeps[s].left, RowEffect(t),
           UNCHANGED <<merged, round, moves, sweeperRestarts, now>>,
           escalated' \in [SweptTasks -> Mark],
           pages' \in [SweptTasks -> Seq(Level)],
           sweeps' \in [Sweeps -> SweepType],
           \A r \in Sweeps : r # s => sweeps'[r] = sweeps[r],
           sweeps'[s].runs = sweeps[s].runs,
           DOMAIN sweeps'[s].paging \subseteq DOMAIN sweeps'[s].left
    PROVE  SweeperIInv'
<1>1. SweepTypes /\ PeopleClose /\ IdleIsEmpty
  BY DEF SweeperIInv
<1>2. \A r \in Sweeps : DOMAIN sweeps'[r].paging \subseteq DOMAIN sweeps'[r].left
  BY <1>1 DEF SweepTypes
<1>3. SweepTypes'
  BY <1>1, <1>2 DEF SweepTypes, RowEffect, Time
<1>4. PeopleClose'
  BY <1>1 DEF PeopleClose, RowEffect
<1>5. IdleIsEmpty'
  <2>1. sweeps[s].runs
    BY <1>1, NoSweepTyped DEF IdleIsEmpty
  <2> QED
    BY <1>1, <2>1 DEF IdleIsEmpty
<1> QED
  BY <1>3, <1>4, <1>5 DEF SweeperIInv

LEMMA HandleStep ==
    ASSUME SweeperIInv, NEW s \in Sweeps, NEW t \in SweptTasks,
           Handle(s, t)
    PROVE  SweeperIInv' /\ RowEffect(t)
<1>1. /\ t \in DOMAIN sweeps[s].left
      /\ UNCHANGED <<merged, round, moves, sweeperRestarts, now>>
  BY HandleCases
<1>2. /\ SweepTypes /\ escalated \in [SweptTasks -> Mark]
      /\ pages \in [SweptTasks -> Seq(Level)]
  BY DEF SweeperIInv, SweepTypes
<1>3. /\ Handled(s, t) \in [Sweeps -> SweepType]
      /\ \A r \in Sweeps : r # s => Handled(s, t)[r] = sweeps[r]
      /\ Handled(s, t)[s].runs = sweeps[s].runs
      /\ DOMAIN Handled(s, t)[s].paging = {}
  BY <1>1, <1>2, HandledParts, NothingTyped
<1>4. CASE \/ RejectArtifacts(s, t, Read(s, t))
           \/ RepairApproved(s, t, Read(s, t))
           \/ SkipDecided(s, t, Read(s, t))
  <2>1. /\ RowEffect(t) /\ sweeps' = Handled(s, t) /\ pages' = pages
        /\ escalated' = escalated \/ escalated' = Unescalated(t)
    BY <1>1, <1>2, <1>4, SettledEffect
  <2>2. escalated' \in [SweptTasks -> Mark]
    BY <1>2, <2>1, UnmarkedTyped DEF Unescalated
  <2> QED
    BY <1>1, <1>2, <1>3, <2>1, <2>2, HandledTypes
<1>5. CASE Reassign(s, t, Read(s, t))
  <2>1. /\ RowEffect(t) /\ sweeps' \in [Sweeps -> SweepType] /\ pages' = pages
        /\ \A r \in Sweeps : r # s => sweeps'[r] = sweeps[r]
        /\ sweeps'[s].left = sweeps[s].left /\ sweeps'[s].runs = sweeps[s].runs
        /\ sweeps'[s].paging = [u \in {t} |-> MarkOf(t, Read(s, t))]
        /\ escalated' = [escalated EXCEPT ![t] = MarkOf(t, Read(s, t))]
    BY <1>1, <1>2, <1>5, ReassignEffect
  <2>2. escalated' \in [SweptTasks -> Mark]
    BY <1>1, <1>2, <2>1, MarksTyped
  <2>3. DOMAIN sweeps'[s].paging \subseteq DOMAIN sweeps'[s].left
    BY <1>1, <2>1
  <2> QED
    BY <1>1, <1>2, <2>1, <2>2, <2>3, HandledTypes
<1>6. CASE \/ /\ escalated' = [escalated EXCEPT ![t] = MarkRead(s, t)]
              /\ sweeps' = Handled(s, t) /\ UNCHANGED <<rows, pages>>
           \/ SettleMerged(s, t, Read(s, t), MarkRead(s, t))
  <2>1. /\ RowEffect(t) /\ sweeps' = Handled(s, t) /\ pages' = pages
        /\ escalated' = [escalated EXCEPT ![t] = MarkRead(s, t)]
    BY <1>1, <1>2, <1>6, UnpagedEffect
  <2>2. escalated' \in [SweptTasks -> Mark]
    BY <1>1, <1>2, <2>1, MarksTyped
  <2> QED
    BY <1>1, <1>2, <1>3, <2>1, <2>2, HandledTypes
<1>7. CASE \E level \in {"warning", "critical"} :
              /\ ~Silenced(s, Read(s, t), MarkRead(s, t))
              /\ Paged(s, t, Read(s, t), level)
  <2>1. PICK level \in {"warning", "critical"} :
              /\ ~Silenced(s, Read(s, t), MarkRead(s, t))
              /\ Paged(s, t, Read(s, t), level)
    BY <1>7
  <2>2. /\ RowEffect(t) /\ sweeps' \in [Sweeps -> SweepType]
        /\ \A r \in Sweeps : r # s => sweeps'[r] = sweeps[r]
        /\ sweeps'[s].paging = Nothing /\ sweeps'[s].runs = sweeps[s].runs
        /\ escalated' \in [SweptTasks -> Mark]
        /\ pages' = [pages EXCEPT ![t] = Append(@, level)]
    BY <1>1, <1>2, <2>1, PagedEffect
  <2>3. pages' \in [SweptTasks -> Seq(Level)]
    <3>1. level \in Level /\ pages[t] \in Seq(Level)
      BY <1>1, <1>2 DEF Level
    <3>2. Append(pages[t], level) \in Seq(Level)
      BY <3>1
    <3> QED
      BY <1>2, <2>2, <3>2
  <2>4. DOMAIN sweeps'[s].paging \subseteq DOMAIN sweeps'[s].left
    BY <2>2, NothingTyped
  <2> QED
    BY <1>1, <2>2, <2>3, <2>4, HandledTypes
<1> QED
  BY <1>4, <1>5, <1>6, <1>7, HandleCases

\* A sweep starts with what the tasks in review say.
LEMMA BegunSweep ==
    ASSUME SweepTypes, NEW s \in Sweeps, NEW reports \in BOOLEAN, BeginSweep(s, reports)
    PROVE  /\ sweeps' \in [Sweeps -> SweepType]
           /\ \A r \in Sweeps : r # s => sweeps'[r] = sweeps[r]
           /\ sweeps'[s].runs /\ DOMAIN sweeps'[s].paging = {}
           /\ \A t \in DOMAIN sweeps'[s].left :
                 /\ t \in SweptTasks /\ rows[t].status = "validating"
                 /\ sweeps'[s].left[t] = rows[t].meta
           /\ UNCHANGED <<rows, merged, escalated, round, pages, moves, sweeperRestarts, now>>
<1> DEFINE validating == {t \in SweptTasks : rows[t].status = "validating"}
           left == [t \in validating |-> rows[t].meta]
           withPr == {t \in validating : rows[t].meta.artifact = "pr"}
           begun == [runs |-> TRUE, start |-> now, reports |-> reports, withPr |-> withPr,
                     left |-> left, paging |-> Nothing, found |-> {}]
<1>1. /\ sweeps \in [Sweeps -> SweepType] /\ now \in Time
      /\ \A t \in SweptTasks : rows[t].meta \in Meta
  BY DEF SweepTypes, SweptRow
<1>2. left \in Partial(Meta)
  <2>1. left \in [validating -> Meta] /\ validating \in SUBSET SweptTasks
    BY <1>1
  <2> HIDE DEF left, validating
  <2> QED
    BY <2>1, PartialIntro
<1>3. withPr \in SUBSET SweptTasks
  OBVIOUS
<1>4. /\ sweeps' = [sweeps EXCEPT ![s] = begun]
      /\ UNCHANGED <<rows, merged, escalated, round, pages, moves, sweeperRestarts, now>>
  BY DEF BeginSweep
<1>5. begun \in SweepType /\ begun.runs /\ begun.left = left
      /\ DOMAIN begun.paging = {}
  <2> HIDE DEF left, withPr
  <2> QED
    BY <1>1, <1>2, <1>3, NothingTyped DEF SweepType
<1>6. sweeps' \in [Sweeps -> SweepType] /\ sweeps'[s] = begun
      /\ \A r \in Sweeps : r # s => sweeps'[r] = sweeps[r]
  <2> HIDE DEF begun
  <2> QED
    BY <1>1, <1>4, <1>5
<1>7. \A t \in DOMAIN left :
          t \in SweptTasks /\ rows[t].status = "validating" /\ left[t] = rows[t].meta
  OBVIOUS
<1> HIDE DEF begun, left
<1> QED
  BY <1>4, <1>5, <1>6, <1>7

LEMMA BeginStep ==
    ASSUME SweeperIInv, NEW s \in Sweeps,
           NEW reports \in BOOLEAN, BeginSweep(s, reports)
    PROVE  SweeperIInv'
<1>1. SweepTypes /\ PeopleClose /\ IdleIsEmpty
  BY DEF SweeperIInv
<1>2. /\ sweeps' \in [Sweeps -> SweepType]
      /\ \A r \in Sweeps : r # s => sweeps'[r] = sweeps[r]
      /\ sweeps'[s].runs /\ DOMAIN sweeps'[s].paging = {}
      /\ UNCHANGED <<rows, merged, escalated, round, pages, moves, sweeperRestarts, now>>
  BY <1>1, BegunSweep
<1>3. \A r \in Sweeps : DOMAIN sweeps'[r].paging \subseteq DOMAIN sweeps'[r].left
  BY <1>1, <1>2 DEF SweepTypes
<1>4. SweepTypes'
  BY <1>1, <1>2, <1>3 DEF SweepTypes, Time
<1>5. PeopleClose' /\ IdleIsEmpty'
  BY <1>1, <1>2 DEF PeopleClose, IdleIsEmpty
<1> QED
  BY <1>4, <1>5 DEF SweeperIInv

\* Clearing a mark leaves the status, and what is in review.
LEMMA ClearedRow ==
    ASSUME SweepTypes, NEW t \in SweptTasks
    PROVE  /\ Cleared(t) \in SweptRow
           /\ Cleared(t).status = rows[t].status
           /\ Cleared(t).closer = rows[t].closer
           /\ rows[t].status = "validating" => Cleared(t) = rows[t]
<1>1. rows[t] \in SweptRow /\ rows[t].meta \in Meta
  BY DEF SweepTypes, SweptRow
<1>2. CASE t \in Gone
  <2> DEFINE meta == [rows[t].meta EXCEPT !.level = "none", !.at = 0, !.count = 0]
  <2>1. "none" \in Level /\ 0 \in Time /\ 0 \in 0 .. MaxCount
    BY SweeperNumbers DEF Level, Time
  <2>2. meta \in Meta
    BY <1>1, <2>1 DEF Meta
  <2>3. Cleared(t) = [rows[t] EXCEPT !.meta = meta]
    BY <1>1, <1>2 DEF Cleared, SweptRow, Meta
  <2>4. rows[t].status # "validating"
    BY <1>2 DEF Gone
  <2> HIDE DEF meta
  <2> QED
    BY <1>1, <2>2, <2>3, <2>4 DEF SweptRow
<1>3. CASE t \notin Gone
  BY <1>1, <1>3 DEF Cleared
<1> QED
  BY <1>2, <1>3

\* At the end of a sweep a task that is in review was, and keeps its level; one that
\* people have closed stays closed by them.
LEMMA FinishedRows ==
    ASSUME SweepTypes, NEW s \in Sweeps, Finish(s)
    PROVE  /\ rows' \in [SweptTasks -> SweptRow]
           /\ \A t \in SweptTasks :
                 /\ rows'[t].status = "validating" =>
                       /\ rows[t].status = "validating"
                       /\ rows'[t].meta.level = rows[t].meta.level
                 /\ \/ rows'[t].status = rows[t].status /\ rows'[t].closer = rows[t].closer
                    \/ /\ rows[t].status = "validating" /\ rows'[t].status = "author"
                       /\ rows'[t].closer = rows[t].closer
                    \/ /\ rows[t].status = "validating" /\ rows'[t].status = "done"
                       /\ rows'[t].closer = "sweep"
<1>1. PICK asMerged \in SUBSET (sweeps[s].withPr \cap merged) :
         rows' = [t \in SweptTasks |-> IF t \in asMerged THEN Gated(Cleared(t))
                                  ELSE Cleared(t)]
  BY DEF Finish
<1>2. ASSUME NEW t \in SweptTasks
      PROVE  /\ rows'[t] \in SweptRow
             /\ rows'[t].status = "validating" =>
                   /\ rows[t].status = "validating"
                   /\ rows'[t].meta.level = rows[t].meta.level
             /\ \/ rows'[t].status = rows[t].status /\ rows'[t].closer = rows[t].closer
                \/ /\ rows[t].status = "validating" /\ rows'[t].status = "author"
                   /\ rows'[t].closer = rows[t].closer
                \/ /\ rows[t].status = "validating" /\ rows'[t].status = "done"
                   /\ rows'[t].closer = "sweep"
  <2> DEFINE cleared == Cleared(t)
  <2>1. /\ cleared \in SweptRow /\ cleared.status = rows[t].status
        /\ cleared.closer = rows[t].closer
        /\ rows[t].status = "validating" => cleared = rows[t]
    BY ClearedRow
  <2>2. rows'[t] = Gated(cleared) \/ rows'[t] = cleared
    BY <1>1
  <2> HIDE DEF cleared
  <2>3. CASE rows'[t] = cleared
    BY <2>1, <2>3
  <2>4. CASE rows'[t] = Gated(cleared)
    BY <2>1, <2>4, GatedRow
  <2> QED
    BY <2>2, <2>3, <2>4
<1>3. rows' \in [SweptTasks -> SweptRow]
  <2>1. rows' = [t \in SweptTasks |-> rows'[t]]
    BY <1>1
  <2> QED
    BY <1>2, <2>1
<1> QED
  BY <1>2, <1>3

LEMMA FinishStep ==
    ASSUME SweeperIInv, NEW s \in Sweeps, Finish(s)
    PROVE  SweeperIInv'
<1>1. SweepTypes /\ PeopleClose /\ IdleIsEmpty
  BY DEF SweeperIInv
<1>2. /\ escalated' = [t \in SweptTasks |-> IF t \in Gone THEN Unmarked
                                       ELSE escalated[t]]
      /\ sweeps' = [sweeps EXCEPT ![s] = NoSweep]
      /\ UNCHANGED <<merged, round, pages, moves, sweeperRestarts, now>>
  BY DEF Finish
<1>3. escalated' \in [SweptTasks -> Mark]
  BY <1>1, <1>2, UnmarkedTyped DEF SweepTypes
<1>4. /\ sweeps' \in [Sweeps -> SweepType] /\ sweeps'[s] = NoSweep
      /\ \A r \in Sweeps : r # s => sweeps'[r] = sweeps[r]
      /\ \A r \in Sweeps : DOMAIN sweeps'[r].paging \subseteq DOMAIN sweeps'[r].left
  BY <1>1, <1>2, NoSweepTyped DEF SweepTypes
<1>5. SweepTypes'
  BY <1>1, <1>2, <1>3, <1>4, FinishedRows DEF SweepTypes, Time
<1>6. PeopleClose'
  BY <1>1, FinishedRows DEF PeopleClose, Closed
<1>7. IdleIsEmpty'
  BY <1>1, <1>4 DEF IdleIsEmpty
<1> QED
  BY <1>5, <1>6, <1>7 DEF SweeperIInv

LEMMA SweeperOutsideStep ==
    ASSUME SweeperIInv, SweeperRestart \/ Tick
    PROVE  SweeperIInv'
<1>1. SweepTypes /\ PeopleClose /\ IdleIsEmpty
  BY DEF SweeperIInv
<1>2. CASE SweeperRestart
  <2>1. /\ escalated' = [t \in SweptTasks |-> Unmarked]
        /\ sweeps' = [s \in Sweeps |-> NoSweep]
        /\ sweeperRestarts < MaxSweeperRestarts /\ sweeperRestarts' = sweeperRestarts + 1
        /\ UNCHANGED <<rows, merged, round, pages, moves, now>>
    BY <1>2 DEF SweeperRestart
  <2>2. sweeperRestarts' \in 0 .. MaxSweeperRestarts
    <3>1. sweeperRestarts \in 0 .. MaxSweeperRestarts
      BY <1>1 DEF SweepTypes
    <3> QED
      BY <2>1, <3>1, SweeperNumbers
  <2>3. escalated' \in [SweptTasks -> Mark]
    BY <2>1, UnmarkedTyped
  <2>4. /\ sweeps' \in [Sweeps -> SweepType]
        /\ \A s \in Sweeps : DOMAIN sweeps'[s].paging \subseteq DOMAIN sweeps'[s].left
    BY <2>1, NoSweepTyped
  <2>5. SweepTypes'
    BY <1>1, <2>1, <2>2, <2>3, <2>4 DEF SweepTypes, Time
  <2> QED
    BY <1>1, <2>1, <2>5 DEF SweeperIInv, PeopleClose, IdleIsEmpty
<1>3. CASE Tick
  <2>1. /\ now < MaxTime /\ now' = now + 1
        /\ UNCHANGED <<rows, merged, escalated, sweeps, round, pages, moves, sweeperRestarts>>
    BY <1>3 DEF Tick
  <2>2. now' \in Time
    <3>1. now \in 0 .. MaxTime
      BY <1>1 DEF SweepTypes, Time
    <3>2. now' \in 0 .. MaxTime
      BY <2>1, <3>1, SweeperNumbers
    <3> QED
      BY <3>2 DEF Time
  <2>3. SweepTypes'
    BY <1>1, <2>1, <2>2 DEF SweepTypes, Time
  <2> QED
    BY <1>1, <2>1, <2>3 DEF SweeperIInv, PeopleClose, IdleIsEmpty
<1> QED
  BY <1>2, <1>3

LEMMA SweeperStutter ==
    ASSUME SweeperIInv, UNCHANGED sweeperVars
    PROVE  SweeperIInv'
BY DEF sweeperVars, SweeperIInv, SweepTypes, PeopleClose, IdleIsEmpty, Time

LEMMA SweeperStep ==
    ASSUME SweeperIInv, [SweeperNext]_sweeperVars
    PROVE  SweeperIInv'
<1>1. CASE UNCHANGED sweeperVars
  BY <1>1, SweeperStutter
<1>2. CASE \E t \in SweptTasks, artifact \in {"none", "qa", "pr"}, duplicate \in BOOLEAN :
              Submit(t, artifact, duplicate)
  BY <1>2, SubmitStep
<1>3. CASE \E t \in SweptTasks, verdict \in {"in_progress", "approve", "reject"} :
              Review(t, verdict)
  BY <1>3, ReviewStep
<1>4. CASE \E t \in SweptTasks, status \in {"author", "done", "cancelled"} : Leave(t, status)
  BY <1>4, LeaveStep
<1>5. CASE \E t \in SweptTasks, told \in BOOLEAN : Merge(t, told)
  BY <1>5, MergeStep
<1>6. CASE \E s \in Sweeps, reports \in BOOLEAN : BeginSweep(s, reports)
  BY <1>6, BeginStep
<1>7. CASE \E s \in Sweeps, t \in SweptTasks : Handle(s, t)
  BY <1>7, HandleStep
<1>8. CASE \E s \in Sweeps : Finish(s)
  BY <1>8, FinishStep
<1>9. CASE SweeperRestart \/ Tick
  BY <1>9, SweeperOutsideStep
<1> QED
  BY <1>1, <1>2, <1>3, <1>4, <1>5, <1>6, <1>7, <1>8, <1>9 DEF SweeperNext

-----------------------------------------------------------------------------
(* The levels.  Of a task in review, or one a sweep still has on its list, every place *)
(* that remembers a level (the row, the memory, what the sweep has read) has the last  *)
(* level that was paged: a place that had less would make the sweep page twice.        *)

Covers(level, levels) ==
    \/ levels = <<>>
    \/ level = "warning" /\ levels = <<"warning">>
    \/ level = "critical" /\ levels \in {<<"warning">>, <<"critical">>, <<"warning", "critical">>}

Listed(t) == \E s \in Sweeps : t \in DOMAIN sweeps[s].left

MarksCover ==
    \A t \in SweptTasks : rows[t].status = "validating" \/ Listed(t) =>
        /\ Covers(rows[t].meta.level, pages[t])
        /\ escalated[t] # Unmarked => Covers(escalated[t].level, pages[t])

ReadingsCover ==
    \A s \in Sweeps : \A t \in DOMAIN sweeps[s].left :
        /\ Covers(Read(s, t).level, pages[t])
        /\ t \in DOMAIN sweeps[s].paging => Covers(sweeps[s].paging[t].level, pages[t])

OneAtATime == \A s, r \in Sweeps : sweeps[s].runs /\ sweeps[r].runs => s = r

LadderIInv ==
    SweeperIInv /\ OneAtATime /\ MarksCover /\ ReadingsCover /\ OncePerLevel

\* Sweeps do not overlap: without the cloud a sweep never waits, and else only one is started.
NoOverlap == ~Yields \/ \A s, r \in Sweeps : s = r

\* Pages come one behind the other.
LEMMA OnePage ==
    ASSUME NEW a PROVE Append(<<>>, a) = <<a>>
OBVIOUS

LEMMA TwoPages ==
    ASSUME NEW S, NEW a \in S, NEW b \in S PROVE Append(<<a>>, b) = <<a, b>>
<1> DEFINE grown == Append(<<a>>, b)
           both == <<a, b>>
<1>1. grown \in Seq(S) /\ both \in Seq(S)
  OBVIOUS
<1>2. Len(grown) = 2 /\ Len(both) = 2
  OBVIOUS
<1>3. grown[1] = both[1] /\ grown[2] = both[2]
  OBVIOUS
<1>4. \A i \in 1..Len(grown) : grown[i] = both[i]
  BY <1>2, <1>3
<1> QED
  BY <1>1, <1>2, <1>4, SeqEqual

LEMMA Rungs ==
    /\ Append(<<>>, "warning") = <<"warning">>
    /\ Append(<<>>, "critical") = <<"critical">>
    /\ Append(<<"warning">>, "critical") = <<"warning", "critical">>
<1>1. Append(<<"warning">>, "critical") = <<"warning", "critical">>
  <2>1. "warning" \in {"warning", "critical"} /\ "critical" \in {"warning", "critical"}
    OBVIOUS
  <2> QED
    BY <2>1, TwoPages, Zenon
<1> QED
  BY <1>1, OnePage, Zenon

\* A level above the last mark is the next one.
LEMMA NextRung ==
    ASSUME NEW mark, NEW levels, Covers(mark, levels), NEW level \in {"warning", "critical"},
           level = "warning" => mark = "none", level = "critical" => mark # "critical"
    PROVE  /\ Covers(level, Append(levels, level))
           /\ Append(levels, level)
                 \in {<<>>, <<"warning">>, <<"critical">>, <<"warning", "critical">>}
<1>1. CASE level = "warning"
  <2>1. levels = <<>>
    BY <1>1 DEF Covers
  <2> QED
    BY <1>1, <2>1, Rungs DEF Covers
<1>2. CASE level = "critical"
  <2>1. levels = <<>> \/ levels = <<"warning">>
    BY <1>2 DEF Covers
  <2>2. Append(levels, level) \in {<<"critical">>, <<"warning", "critical">>}
    BY <1>2, <2>1, Rungs
  <2> QED
    BY <1>2, <2>2 DEF Covers
<1> QED
  BY <1>1, <1>2

LEMMA LadderInit ==
    ASSUME SweeperInit
    PROVE  LadderIInv
<1>1. SweeperIInv
  BY SweeperInitKeeps
<1>2. /\ \A t \in SweptTasks : pages[t] = <<>>
      /\ \A s \in Sweeps : sweeps[s] = NoSweep
  BY DEF SweeperInit
<1> QED
  BY <1>1, <1>2, NoSweepTyped
  DEF LadderIInv, OneAtATime, MarksCover, ReadingsCover, Covers, OncePerLevel

\* A step of people leaves memory and sweeps alone; it keeps the level of the row, or
\* begins a new review, of which no level has been paged.
LEMMA PeopleLadder ==
    ASSUME LadderIInv, NEW t \in SweptTasks, UNCHANGED <<escalated, sweeps>>,
           \A u \in SweptTasks : u # t => rows'[u] = rows[u] /\ pages'[u] = pages[u],
           \/ pages'[t] = <<>>
           \/ /\ pages'[t] = pages[t] /\ rows'[t].meta.level = rows[t].meta.level
              /\ rows'[t].status = "validating" => rows[t].status = "validating"
    PROVE  OneAtATime' /\ MarksCover' /\ ReadingsCover' /\ OncePerLevel'
<1>1. OneAtATime'
  BY DEF LadderIInv, OneAtATime
<1>2. \A u \in SweptTasks : Listed(u)' <=> Listed(u)
  BY DEF Listed
<1>3. MarksCover'
  BY <1>2 DEF LadderIInv, MarksCover, Covers
<1>4. ReadingsCover'
  <2> SUFFICES ASSUME NEW s \in Sweeps, NEW u \in DOMAIN sweeps[s].left
               PROVE  /\ Covers(Read(s, u).level, pages'[u])
                      /\ u \in DOMAIN sweeps[s].paging =>
                            Covers(sweeps[s].paging[u].level, pages'[u])
    BY DEF ReadingsCover, Read
  <2>1. u \in SweptTasks
    BY LeftTyped DEF LadderIInv, SweeperIInv
  <2> QED
    BY <2>1 DEF LadderIInv, ReadingsCover, Covers
<1>5. OncePerLevel'
  BY DEF LadderIInv, OncePerLevel
<1> QED
  BY <1>1, <1>3, <1>4, <1>5

\* While a sweep has tasks on its list, no other has.
LEMMA OnlyListed ==
    ASSUME LadderIInv, NEW s \in Sweeps, sweeps[s].runs
    PROVE  \A r \in Sweeps : r # s => DOMAIN sweeps[r].left = {} /\ DOMAIN sweeps[r].paging = {}
BY NoSweepTyped DEF LadderIInv, SweeperIInv, IdleIsEmpty, OneAtATime

LEMMA ListedRuns ==
    ASSUME LadderIInv, NEW s \in Sweeps,
           NEW t \in DOMAIN sweeps[s].left
    PROVE  sweeps[s].runs
BY NoSweepTyped DEF LadderIInv, SweeperIInv, IdleIsEmpty

\* What the sweep takes for the last page covers the pages.
LEMMA MarkCovers ==
    ASSUME LadderIInv, NEW s \in Sweeps, NEW t \in DOMAIN sweeps[s].left
    PROVE  /\ Covers(MarkOf(t, Read(s, t)).level, pages[t])
           /\ Covers(MarkRead(s, t).level, pages[t])
<1>1. t \in SweptTasks /\ Listed(t)
  BY LeftTyped DEF LadderIInv, SweeperIInv, Listed
<1>2. Covers(MarkOf(t, Read(s, t)).level, pages[t])
  <2>1. CASE escalated[t] = Unmarked
    <3>1. MarkOf(t, Read(s, t)).level = Read(s, t).level
      BY <2>1 DEF MarkOf
    <3> QED
      BY <3>1 DEF LadderIInv, ReadingsCover
  <2>2. CASE escalated[t] # Unmarked
    BY <1>1, <2>2 DEF MarkOf, LadderIInv, MarksCover
  <2> QED
    BY <2>1, <2>2
<1> QED
  BY <1>2 DEF MarkRead, LadderIInv, ReadingsCover

\* What a step makes of one listed task; the others, their marks and pages stay.
LEMMA OneTaskLadder ==
    ASSUME LadderIInv, NEW s \in Sweeps,
           NEW t \in DOMAIN sweeps[s].left, RowEffect(t),
           \A r \in Sweeps : r # s => sweeps'[r] = sweeps[r],
           sweeps'[s].runs = sweeps[s].runs,
           DOMAIN sweeps'[s].left \subseteq DOMAIN sweeps[s].left,
           DOMAIN sweeps'[s].paging \subseteq {t},
           \A u \in DOMAIN sweeps'[s].left : sweeps'[s].left[u] = sweeps[s].left[u],
           \A u \in SweptTasks : u # t => escalated'[u] = escalated[u] /\ pages'[u] = pages[u],
           \* of t:
           rows'[t].status = "validating" \/ t \in DOMAIN sweeps'[s].left =>
               /\ Covers(rows'[t].meta.level, pages'[t])
               /\ escalated'[t] # Unmarked => Covers(escalated'[t].level, pages'[t]),
           t \in DOMAIN sweeps'[s].left =>
               /\ pages'[t] = pages[t]
               /\ t \in DOMAIN sweeps'[s].paging =>
                     Covers(sweeps'[s].paging[t].level, pages[t]),
           pages'[t] \in {<<>>, <<"warning">>, <<"critical">>, <<"warning", "critical">>}
    PROVE  OneAtATime' /\ MarksCover' /\ ReadingsCover' /\ OncePerLevel'
<1>1. sweeps[s].runs /\ t \in SweptTasks /\ DOMAIN sweeps[s].left \subseteq SweptTasks
  BY ListedRuns, LeftTyped DEF LadderIInv, SweeperIInv
<1>2. \A r \in Sweeps : r # s => DOMAIN sweeps[r].left = {} /\ DOMAIN sweeps[r].paging = {}
  BY <1>1, OnlyListed
<1>3. OneAtATime'
  BY DEF LadderIInv, OneAtATime
<1>4. OncePerLevel'
  BY DEF LadderIInv, OncePerLevel
<1>5. \A u \in SweptTasks : Listed(u)' => u \in DOMAIN sweeps'[s].left /\ Listed(u)
  BY <1>2 DEF Listed
<1>6. MarksCover'
  <2> SUFFICES ASSUME NEW u \in SweptTasks, rows'[u].status = "validating" \/ Listed(u)'
               PROVE  /\ Covers(rows'[u].meta.level, pages'[u])
                      /\ escalated'[u] # Unmarked =>
                            Covers(escalated'[u].level, pages'[u])
    BY DEF MarksCover
  <2>1. CASE u = t
    BY <1>5, <2>1
  <2>2. CASE u # t
    <3>1. rows'[u] = rows[u] /\ escalated'[u] = escalated[u] /\ pages'[u] = pages[u]
      BY <2>2 DEF RowEffect
    <3> QED
      BY <1>5, <3>1 DEF LadderIInv, MarksCover
  <2> QED
    BY <2>1, <2>2
<1>7. ReadingsCover'
  <2> SUFFICES ASSUME NEW r \in Sweeps, NEW u \in DOMAIN sweeps'[r].left
               PROVE  /\ Covers(sweeps'[r].left[u].level, pages'[u])
                      /\ u \in DOMAIN sweeps'[r].paging =>
                            Covers(sweeps'[r].paging[u].level, pages'[u])
    BY DEF ReadingsCover, Read
  <2>1. r = s
    BY <1>2
  <2>2. u \in DOMAIN sweeps[s].left /\ sweeps'[s].left[u] = sweeps[s].left[u]
    BY <2>1
  <2>3. Covers(sweeps[s].left[u].level, pages[u])
    BY <2>2 DEF LadderIInv, ReadingsCover, Read
  <2>4. pages'[u] = pages[u]
    BY <1>1, <2>1, <2>2
  <2>5. u \in DOMAIN sweeps'[s].paging => Covers(sweeps'[s].paging[u].level, pages'[u])
    BY <2>1, <2>4
  <2> QED
    BY <2>1, <2>2, <2>3, <2>4, <2>5
<1> QED
  BY <1>3, <1>4, <1>6, <1>7

LEMMA HandleLadder ==
    ASSUME LadderIInv, NEW s \in Sweeps, NEW t \in SweptTasks,
           Handle(s, t)
    PROVE  OneAtATime' /\ MarksCover' /\ ReadingsCover' /\ OncePerLevel'
<1>1. t \in DOMAIN sweeps[s].left
  BY HandleCases
<1>2. /\ SweepTypes /\ escalated \in [SweptTasks -> Mark]
      /\ pages \in [SweptTasks -> Seq(Level)] /\ Listed(t)
      /\ pages[t] \in {<<>>, <<"warning">>, <<"critical">>, <<"warning", "critical">>}
  BY <1>1 DEF LadderIInv, SweeperIInv, SweepTypes, Listed, OncePerLevel
<1>3. /\ \A r \in Sweeps : r # s => Handled(s, t)[r] = sweeps[r]
      /\ DOMAIN Handled(s, t)[s].left = DOMAIN sweeps[s].left \ {t}
      /\ \A u \in DOMAIN sweeps[s].left \ {t} :
            Handled(s, t)[s].left[u] = sweeps[s].left[u]
      /\ DOMAIN Handled(s, t)[s].paging = {}
      /\ Handled(s, t)[s].runs = sweeps[s].runs
  BY <1>1, <1>2, HandledParts, NothingTyped
<1>4. /\ Covers(rows[t].meta.level, pages[t])
      /\ escalated[t] # Unmarked => Covers(escalated[t].level, pages[t])
      /\ Covers(Read(s, t).level, pages[t])
      /\ Covers(MarkOf(t, Read(s, t)).level, pages[t])
      /\ Covers(MarkRead(s, t).level, pages[t])
  BY <1>1, <1>2, MarkCovers DEF LadderIInv, MarksCover, ReadingsCover
<1>5. CASE \/ RejectArtifacts(s, t, Read(s, t))
           \/ RepairApproved(s, t, Read(s, t))
           \/ SkipDecided(s, t, Read(s, t))
  <2>1. /\ RowEffect(t) /\ (rows'[t] = rows[t] \/ rows'[t].status # "validating")
        /\ sweeps' = Handled(s, t) /\ pages' = pages
        /\ escalated' = escalated \/ escalated' = Unescalated(t)
    BY <1>1, <1>2, <1>5, SettledEffect
  <2>2. /\ \A u \in SweptTasks : u # t => escalated'[u] = escalated[u]
        /\ escalated'[t] = escalated[t] \/ escalated'[t] = Unmarked
    BY <1>2, <2>1 DEF Unescalated
  <2> QED
    BY <1>1, <1>2, <1>3, <1>4, <2>1, <2>2, OneTaskLadder
<1>6. CASE Reassign(s, t, Read(s, t))
  <2>1. /\ RowEffect(t) /\ rows'[t].meta.level = Read(s, t).level
        /\ \A r \in Sweeps : r # s => sweeps'[r] = sweeps[r]
        /\ sweeps'[s].left = sweeps[s].left /\ sweeps'[s].runs = sweeps[s].runs
        /\ sweeps'[s].paging = [u \in {t} |-> MarkOf(t, Read(s, t))]
        /\ escalated' = [escalated EXCEPT ![t] = MarkOf(t, Read(s, t))]
        /\ pages' = pages
    BY <1>1, <1>2, <1>6, ReassignEffect
  <2>2. /\ \A u \in SweptTasks : u # t => escalated'[u] = escalated[u]
        /\ escalated'[t] = MarkOf(t, Read(s, t))
        /\ DOMAIN sweeps'[s].paging \subseteq {t}
        /\ sweeps'[s].paging[t] = MarkOf(t, Read(s, t))
    BY <1>2, <2>1
  <2> QED
    BY <1>1, <1>2, <1>4, <2>1, <2>2, OneTaskLadder
<1>7. CASE \/ /\ escalated' = [escalated EXCEPT ![t] = MarkRead(s, t)]
              /\ sweeps' = Handled(s, t) /\ UNCHANGED <<rows, pages>>
           \/ SettleMerged(s, t, Read(s, t), MarkRead(s, t))
  <2>1. /\ RowEffect(t)
        /\ \/ rows'[t].status # "validating"
           \/ rows'[t].status = rows[t].status /\ rows'[t].meta.level = rows[t].meta.level
        /\ sweeps' = Handled(s, t) /\ pages' = pages
        /\ escalated' = [escalated EXCEPT ![t] = MarkRead(s, t)]
    BY <1>1, <1>2, <1>7, UnpagedEffect
  <2>2. /\ \A u \in SweptTasks : u # t => escalated'[u] = escalated[u]
        /\ escalated'[t] = MarkRead(s, t)
    BY <1>2, <2>1
  <2> QED
    BY <1>1, <1>2, <1>3, <1>4, <2>1, <2>2, OneTaskLadder
<1>8. CASE \E level \in {"warning", "critical"} :
              /\ ~Silenced(s, Read(s, t), MarkRead(s, t))
              /\ level = "warning" => WarningDue(s, Read(s, t), MarkRead(s, t))
              /\ level = "critical" => CriticalDue(s, Read(s, t), MarkRead(s, t))
              /\ Paged(s, t, Read(s, t), level)
  <2>1. PICK level \in {"warning", "critical"} :
              /\ ~Silenced(s, Read(s, t), MarkRead(s, t))
              /\ level = "warning" => WarningDue(s, Read(s, t), MarkRead(s, t))
              /\ level = "critical" => CriticalDue(s, Read(s, t), MarkRead(s, t))
              /\ Paged(s, t, Read(s, t), level)
    BY <1>8
  <2>2. /\ RowEffect(t) /\ rows'[t].meta.level = level
        /\ \A r \in Sweeps : r # s => sweeps'[r] = sweeps[r]
        /\ sweeps'[s].left = Handled(s, t)[s].left
        /\ sweeps'[s].paging = Nothing /\ sweeps'[s].runs = sweeps[s].runs
        /\ escalated'[t].level = level
        /\ \A u \in SweptTasks : u # t => escalated'[u] = escalated[u]
        /\ pages' = [pages EXCEPT ![t] = Append(@, level)]
    BY <1>1, <1>2, <2>1, PagedEffect
  <2>3. /\ level = "warning" => MarkRead(s, t).level = "none"
        /\ level = "critical" => MarkRead(s, t).level # "critical"
    BY <2>1 DEF WarningDue, CriticalDue
  <2>4. /\ Covers(level, Append(pages[t], level))
        /\ Append(pages[t], level)
              \in {<<>>, <<"warning">>, <<"critical">>, <<"warning", "critical">>}
    BY <1>4, <2>3, NextRung
  <2>5. /\ pages'[t] = Append(pages[t], level)
        /\ \A u \in SweptTasks : u # t => pages'[u] = pages[u]
    BY <1>2, <2>2
  <2>6. DOMAIN sweeps'[s].paging = {}
    BY <2>2, NothingTyped
  <2>7. /\ t \notin DOMAIN sweeps'[s].left
        /\ DOMAIN sweeps'[s].left \subseteq DOMAIN sweeps[s].left
        /\ \A u \in DOMAIN sweeps'[s].left : sweeps'[s].left[u] = sweeps[s].left[u]
    BY <1>3, <2>2
  <2>8. /\ Covers(rows'[t].meta.level, pages'[t]) /\ Covers(escalated'[t].level, pages'[t])
        /\ pages'[t] \in {<<>>, <<"warning">>, <<"critical">>, <<"warning", "critical">>}
    BY <2>2, <2>4, <2>5
  <2> QED
    BY <1>1, <2>2, <2>5, <2>6, <2>7, <2>8, OneTaskLadder
<1> QED
  BY <1>5, <1>6, <1>7, <1>8, HandleCases

LEMMA BeginLadder ==
    ASSUME NoOverlap, LadderIInv, NEW s \in Sweeps,
           NEW reports \in BOOLEAN, BeginSweep(s, reports)
    PROVE  OneAtATime' /\ MarksCover' /\ ReadingsCover' /\ OncePerLevel'
<1>1. /\ \A r \in Sweeps : r # s => sweeps'[r] = sweeps[r]
      /\ DOMAIN sweeps'[s].paging = {}
      /\ \A t \in DOMAIN sweeps'[s].left :
            /\ t \in SweptTasks /\ rows[t].status = "validating"
            /\ sweeps'[s].left[t] = rows[t].meta
      /\ UNCHANGED <<rows, escalated, pages>>
  BY BegunSweep DEF LadderIInv, SweeperIInv
<1>2. OneAtATime'
  <2>1. \A r \in Sweeps : r # s => ~sweeps[r].runs
    BY SweeperNumbers DEF NoOverlap, BeginSweep, Free
  <2> QED
    BY <1>1, <2>1 DEF OneAtATime
<1>3. \A t \in SweptTasks : Listed(t)' => Listed(t) \/ rows[t].status = "validating"
  BY <1>1 DEF Listed
<1>4. MarksCover'
  BY <1>1, <1>3 DEF LadderIInv, MarksCover
<1>5. ReadingsCover'
  <2> SUFFICES ASSUME NEW r \in Sweeps, NEW t \in DOMAIN sweeps'[r].left
               PROVE  /\ Covers(sweeps'[r].left[t].level, pages[t])
                      /\ t \in DOMAIN sweeps'[r].paging =>
                            Covers(sweeps'[r].paging[t].level, pages[t])
    BY <1>1 DEF ReadingsCover, Read
  <2>1. CASE r = s
    BY <1>1, <2>1 DEF LadderIInv, MarksCover
  <2>2. CASE r # s
    BY <1>1, <2>2 DEF LadderIInv, ReadingsCover, Read
  <2> QED
    BY <2>1, <2>2
<1>6. OncePerLevel'
  BY <1>1 DEF LadderIInv, OncePerLevel
<1> QED
  BY <1>2, <1>4, <1>5, <1>6

LEMMA FinishLadder ==
    ASSUME LadderIInv, NEW s \in Sweeps, Finish(s)
    PROVE  OneAtATime' /\ MarksCover' /\ ReadingsCover' /\ OncePerLevel'
<1>1. /\ sweeps[s].runs /\ sweeps' = [sweeps EXCEPT ![s] = NoSweep]
      /\ escalated' = [t \in SweptTasks |-> IF t \in Gone THEN Unmarked
                                       ELSE escalated[t]]
      /\ pages' = pages
  BY DEF Finish
<1>2. SweepTypes /\ sweeps \in [Sweeps -> SweepType]
  BY DEF LadderIInv, SweeperIInv, SweepTypes
<1>3. \A r \in Sweeps : DOMAIN sweeps'[r].left = {} /\ ~sweeps'[r].runs
  <2>1. \A r \in Sweeps : r # s => DOMAIN sweeps[r].left = {} /\ ~sweeps[r].runs
    BY <1>1, OnlyListed DEF LadderIInv, OneAtATime
  <2> QED
    BY <1>1, <1>2, <2>1, NoSweepTyped
<1>4. OneAtATime' /\ ReadingsCover' /\ \A t \in SweptTasks : ~Listed(t)'
  BY <1>3 DEF OneAtATime, ReadingsCover, Listed
<1>5. MarksCover'
  <2> SUFFICES ASSUME NEW t \in SweptTasks, rows'[t].status = "validating"
               PROVE  /\ Covers(rows'[t].meta.level, pages[t])
                      /\ escalated'[t] # Unmarked => Covers(escalated'[t].level, pages[t])
    BY <1>1, <1>4 DEF MarksCover
  <2>1. rows[t].status = "validating" /\ rows'[t].meta.level = rows[t].meta.level
    BY <1>2, FinishedRows
  <2>2. escalated'[t] = escalated[t] \/ escalated'[t] = Unmarked
    BY <1>1
  <2> QED
    BY <2>1, <2>2 DEF LadderIInv, MarksCover
<1>6. OncePerLevel'
  BY <1>1 DEF LadderIInv, OncePerLevel
<1> QED
  BY <1>4, <1>5, <1>6

\* A restart forgets what is in memory; the rows cover the pages by themselves.
LEMMA RestartLadder ==
    ASSUME LadderIInv, SweeperRestart
    PROVE  OneAtATime' /\ MarksCover' /\ ReadingsCover' /\ OncePerLevel'
<1>1. /\ escalated' = [t \in SweptTasks |-> Unmarked]
      /\ sweeps' = [s \in Sweeps |-> NoSweep] /\ UNCHANGED <<rows, pages>>
  BY DEF SweeperRestart
<1>2. \A s \in Sweeps : DOMAIN sweeps'[s].left = {} /\ ~sweeps'[s].runs
  BY <1>1, NoSweepTyped
<1>3. OneAtATime' /\ ReadingsCover' /\ \A t \in SweptTasks : ~Listed(t)'
  BY <1>2 DEF OneAtATime, ReadingsCover, Listed
<1>4. MarksCover'
  BY <1>1, <1>3 DEF LadderIInv, MarksCover
<1>5. OncePerLevel'
  BY <1>1 DEF LadderIInv, OncePerLevel
<1> QED
  BY <1>3, <1>4, <1>5

LEMMA QuietLadder ==
    ASSUME LadderIInv, UNCHANGED <<rows, escalated, sweeps, pages>>
    PROVE  OneAtATime' /\ MarksCover' /\ ReadingsCover' /\ OncePerLevel'
BY DEF LadderIInv, OneAtATime, MarksCover, ReadingsCover, OncePerLevel, Listed, Read

LEMMA LadderStep ==
    ASSUME NoOverlap, LadderIInv,
           [SweeperNext]_sweeperVars
    PROVE  LadderIInv'
<1> SUFFICES OneAtATime' /\ MarksCover' /\ ReadingsCover' /\ OncePerLevel'
  BY SweeperStep DEF LadderIInv
<1>0. SweeperIInv /\ pages \in [SweptTasks -> Seq(Level)]
  BY DEF LadderIInv, SweeperIInv, SweepTypes
<1>1. CASE UNCHANGED sweeperVars \/ Tick
  BY <1>1, QuietLadder DEF sweeperVars, Tick
<1>2. ASSUME NEW t \in SweptTasks, NEW artifact \in {"none", "qa", "pr"},
             NEW duplicate \in BOOLEAN, Submit(t, artifact, duplicate)
      PROVE  OneAtATime' /\ MarksCover' /\ ReadingsCover' /\ OncePerLevel'
  <2>1. UNCHANGED <<escalated, sweeps>> /\ pages' = [pages EXCEPT ![t] = <<>>]
    BY <1>2 DEF Submit
  <2>2. \A u \in SweptTasks : u # t => rows'[u] = rows[u]
    BY <1>0, <1>2, SubmitStep
  <2>3. pages'[t] = <<>> /\ \A u \in SweptTasks : u # t => pages'[u] = pages[u]
    BY <1>0, <2>1
  <2> QED
    BY <2>1, <2>2, <2>3, PeopleLadder
<1>3. ASSUME NEW t \in SweptTasks, NEW verdict \in {"in_progress", "approve", "reject"},
             Review(t, verdict)
      PROVE  OneAtATime' /\ MarksCover' /\ ReadingsCover' /\ OncePerLevel'
  <2>1. UNCHANGED <<escalated, sweeps, pages>>
    BY <1>3 DEF Review
  <2> QED
    BY <1>0, <1>3, <2>1, ReviewStep, PeopleLadder
<1>4. ASSUME NEW t \in SweptTasks, NEW status \in {"author", "done", "cancelled"},
             Leave(t, status)
      PROVE  OneAtATime' /\ MarksCover' /\ ReadingsCover' /\ OncePerLevel'
  <2>1. UNCHANGED <<escalated, sweeps, pages>>
    BY <1>4 DEF Leave
  <2> QED
    BY <1>0, <1>4, <2>1, LeaveStep, PeopleLadder
<1>5. ASSUME NEW t \in SweptTasks, NEW told \in BOOLEAN, Merge(t, told)
      PROVE  OneAtATime' /\ MarksCover' /\ ReadingsCover' /\ OncePerLevel'
  <2>1. UNCHANGED <<escalated, sweeps, pages>>
    BY <1>5 DEF Merge
  <2> QED
    BY <1>0, <1>5, <2>1, MergeStep, PeopleLadder
<1>6. CASE \E s \in Sweeps, reports \in BOOLEAN : BeginSweep(s, reports)
  BY <1>6, BeginLadder
<1>7. CASE \E s \in Sweeps, t \in SweptTasks : Handle(s, t)
  BY <1>7, HandleLadder
<1>8. CASE \E s \in Sweeps : Finish(s)
  BY <1>8, FinishLadder
<1>9. CASE SweeperRestart
  BY <1>9, RestartLadder
<1> QED
  BY <1>1, <1>2, <1>3, <1>4, <1>5, <1>6, <1>7, <1>8, <1>9 DEF SweeperNext

-----------------------------------------------------------------------------
(* The theorems about the sweeper. *)

\* The inductive invariant of the sweeper, with any number of sweeps that overlap.
THEOREM SweeperInvariance == SweeperSpec => []SweeperIInv
<1>1. SweeperInit => SweeperIInv
  BY SweeperInitKeeps
<1>2. SweeperIInv /\ [SweeperNext]_sweeperVars => SweeperIInv'
  BY SweeperStep
<1> QED
  BY <1>1, <1>2, PTL DEF SweeperSpec

\* The table, the marks and the lists keep their types; in particular no reviewer is
\* counted more pages than the limit.
THEOREM SweeperTypeCorrect == SweeperSpec => []SweeperTypeOK
<1>1. SweeperIInv => SweeperTypeOK
  BY SweepTypesSuffice DEF SweeperIInv
<1> QED
  BY <1>1, SweeperInvariance, PTL

\* A task that people closed is not closed by a sweep again, however old the list of the
\* sweep is and however many sweeps overlap.
THEOREM CloseCorrect == SweeperSpec => CloseStands
<1>1. ASSUME SweeperIInv, [SweeperNext]_sweeperVars, NEW t \in SweptTasks,
             rows[t].closer = "people", rows'[t].status \in Closed
      PROVE  rows'[t].closer = "people"
  <2>1. rows[t].status \in Closed /\ rows[t].status # "validating"
    BY <1>1 DEF SweeperIInv, PeopleClose, Closed
  <2>2. CASE UNCHANGED rows
    BY <1>1, <2>2
  <2>3. ASSUME NEW u \in SweptTasks, NEW artifact \in {"none", "qa", "pr"},
               NEW duplicate \in BOOLEAN, Submit(u, artifact, duplicate)
        PROVE  rows'[t].closer = "people"
    <3>1. u # t
      BY <2>1, <2>3 DEF Submit, Closed
    <3> QED
      BY <1>1, <2>3, <3>1, SubmitStep
  <2>4. ASSUME NEW u \in SweptTasks, NEW verdict \in {"in_progress", "approve", "reject"},
               Review(u, verdict)
        PROVE  rows'[t].closer = "people"
    BY <1>1, <2>1, <2>4, ReviewStep
  <2>5. ASSUME NEW u \in SweptTasks, NEW status \in {"author", "done", "cancelled"},
               Leave(u, status)
        PROVE  rows'[t].closer = "people"
    BY <1>1, <2>1, <2>5, LeaveStep
  <2>6. ASSUME NEW u \in SweptTasks, NEW told \in BOOLEAN, Merge(u, told)
        PROVE  rows'[t].closer = "people"
    BY <1>1, <2>1, <2>6, MergeStep
  <2>7. ASSUME NEW s \in Sweeps, NEW u \in SweptTasks, Handle(s, u)
        PROVE  rows'[t].closer = "people"
    <3>1. RowEffect(u)
      BY <1>1, <2>7, HandleStep
    <3> QED
      BY <1>1, <2>1, <3>1 DEF RowEffect
  <2>8. ASSUME NEW s \in Sweeps, Finish(s)
        PROVE  rows'[t].closer = "people"
    BY <1>1, <2>1, <2>8, FinishedRows DEF SweeperIInv
  <2>9. ASSUME \/ UNCHANGED sweeperVars \/ SweeperRestart \/ Tick
               \/ \E s \in Sweeps, reports \in BOOLEAN : BeginSweep(s, reports)
        PROVE  rows'[t].closer = "people"
    BY <1>1, <2>2, <2>9 DEF sweeperVars, SweeperRestart, Tick, BeginSweep
  <2> QED
    BY <1>1, <2>3, <2>4, <2>5, <2>6, <2>7, <2>8, <2>9 DEF SweeperNext
<1>2. SweeperIInv /\ [SweeperNext]_sweeperVars
      => [\A t \in SweptTasks : rows[t].closer = "people" /\ rows'[t].status \in Closed
             => rows'[t].closer = "people"]_sweeperVars
  BY <1>1
<1> QED
  BY <1>2, SweeperInvariance, PTL DEF SweeperSpec, CloseStands

\* A reviewer is paged once per level in each review, through restarts at any point, if
\* sweeps do not overlap: with one at a time in a node that is mirrored in the cloud, with
\* any number in one that is not.
THEOREM LadderCorrect ==
    ASSUME NoOverlap
    PROVE  SweeperSpec => []OncePerLevel
<1>1. SweeperInit => LadderIInv
  BY LadderInit
<1>2. LadderIInv /\ [SweeperNext]_sweeperVars => LadderIInv'
  BY LadderStep
<1>3. LadderIInv => OncePerLevel
  BY DEF LadderIInv
<1> QED
  BY <1>1, <1>2, <1>3, PTL DEF SweeperSpec

===============================================================================
