---------------------------- MODULE CloudSyncProofs ---------------------------
(*****************************************************************************)
(* Theorems about the two syncs of cloud.ts that post what the node stores:  *)
(* the cursor over the chat (ChatSync) and the ledger of the tasks           *)
(* (TaskLedger), for any sizes and bounds.                                   *)
(*                                                                           *)
(* ChatSync: the page under way is the next piece of the log (BatchIsNext),  *)
(* which grows only behind it (Sorted), so that moving the cursor to its end *)
(* skips nothing.  TaskLedger: see where its part begins.                    *)
(*****************************************************************************)
EXTENDS ChatSync, TaskLedger, TLAPS

\* Later entries have later times.
Sorted == \A i, j \in DOMAIN log : i < j => log[i].at < log[j].at

\* A message between the cursor and one that is being sent is sent with it.
BatchIsNext ==
    \A i \in Local, last \in batch :
        cursor < log[i].at /\ i <= last => i \in batch

\* The cursor is where the process started or at a message.
CursorAtMessage == cursor = floor \/ \E i \in DOMAIN log : log[i].at = cursor

IInv == TypeOK /\ Sorted /\ BatchIsNext /\ CursorAtMessage /\ NoneSkipped

-----------------------------------------------------------------------------
LEMMA LogParts ==
    ASSUME log \in Seq(Message)
    PROVE  /\ Len(log) \in Nat /\ DOMAIN log = 1 .. Len(log)
           /\ \A i \in DOMAIN log : log[i].at \in Int /\ i \in Int
           /\ Local \subseteq DOMAIN log
<1>1. Len(log) \in Nat /\ DOMAIN log = 1 .. Len(log)
  OBVIOUS
<1>2. \A i \in 1 .. Len(log) : log[i] \in Message
  OBVIOUS
<1> QED
  BY <1>1, <1>2 DEF Message, Local

LEMMA InitIInv == ASSUME Init PROVE IInv
<1>1. log = <<>> /\ DOMAIN log = {} /\ Local = {} /\ batch = {} /\ received = {}
  BY DEF Init, Local
<1>2. TypeOK
  <2>1. log \in Seq(Message) /\ -Window \in Int
    BY <1>1, NumbersAssumption
  <2>2. /\ pending \in 0 .. MaxRelayed /\ (pending > 0 <=> phase = "relay")
        /\ restarts \in 0 .. MaxRestarts /\ now \in 0 .. MaxTime
    BY NumbersAssumption DEF Init
  <2>3. /\ queued \in BOOLEAN /\ waiting \in BOOLEAN
        /\ timer \in BOOLEAN /\ debounce \in BOOLEAN
        /\ queued => phase # "idle"
    BY DEF Init
  <2> QED
    BY <1>1, <2>1, <2>2, <2>3 DEF Init, TypeOK
<1>3. Sorted /\ BatchIsNext /\ CursorAtMessage /\ NoneSkipped
  BY <1>1 DEF Init, Sorted, BatchIsNext, CursorAtMessage, NoneSkipped
<1> QED
  BY <1>2, <1>3 DEF IInv

\* A stored message comes last, with a time of its own.
LEMMA Stored ==
    ASSUME TypeOK, Sorted, NEW relayed \in BOOLEAN, Store(relayed)
    PROVE  /\ log' \in Seq(Message) /\ Len(log') = Len(log) + 1
           /\ \A i \in DOMAIN log : i \in DOMAIN log' /\ log'[i] = log[i]
           /\ \A i \in DOMAIN log' : i \in DOMAIN log \/ i = Len(log')
           /\ \A i \in DOMAIN log : log[i].at < log'[Len(log')].at
           /\ \A i \in DOMAIN log : i < Len(log')
           /\ Local \subseteq Local'
<1>1. NextTime \in Int /\ \A i \in DOMAIN log : log[i].at < NextTime
  <2>1. CASE log = <<>>
    BY <2>1 DEF NextTime, TypeOK
  <2>2. CASE log # <<>>
    <3>1. Len(log) \in DOMAIN log /\ now \in Int
      BY <2>2, LogParts DEF TypeOK
    <3>2. \A i \in DOMAIN log : log[i].at <= log[Len(log)].at
      BY <3>1, LogParts DEF TypeOK, Sorted
    <3> QED
      BY <2>2, <3>1, <3>2, LogParts DEF NextTime, TypeOK
  <2> QED
    BY <2>1, <2>2
<1> DEFINE m == [at |-> NextTime, relayed |-> relayed]
<1>2. m \in Message /\ m.at = NextTime /\ log' = Append(log, m)
  BY <1>1 DEF Message, Store
<1> HIDE DEF m
<1>3. /\ log' \in Seq(Message) /\ Len(log') = Len(log) + 1
      /\ log'[Len(log')] = m
      /\ \A i \in 1 .. Len(log) : log'[i] = log[i]
  BY <1>2 DEF TypeOK
<1>4. DOMAIN log = 1 .. Len(log) /\ DOMAIN log' = 1 .. Len(log) + 1 /\ Len(log) \in Nat
  BY <1>3, LogParts DEF TypeOK
<1>5. Local \subseteq Local'
  BY <1>3, <1>4 DEF Local
<1> QED
  BY <1>1, <1>2, <1>3, <1>4, <1>5

\* Storing keeps what the invariant says of the log, the page and the cursor.
LEMMA StoreKeeps ==
    ASSUME IInv, NEW relayed \in BOOLEAN, Store(relayed),
           cursor' = cursor, floor' = floor, received' = received,
           batch' = batch \/ batch' = {}
    PROVE  Sorted' /\ BatchIsNext' /\ CursorAtMessage' /\ NoneSkipped'
<1>1. TypeOK /\ Sorted /\ BatchIsNext /\ CursorAtMessage /\ NoneSkipped
  BY DEF IInv
<1>2. /\ log' \in Seq(Message) /\ Len(log') = Len(log) + 1
      /\ \A i \in DOMAIN log : i \in DOMAIN log' /\ log'[i] = log[i]
      /\ \A i \in DOMAIN log' : i \in DOMAIN log \/ i = Len(log')
      /\ \A i \in DOMAIN log : log[i].at < log'[Len(log')].at
      /\ \A i \in DOMAIN log : i < Len(log')
  BY <1>1, Stored
<1>3. /\ \A i \in DOMAIN log : log[i].at \in Int /\ i \in Int
      /\ \A i \in DOMAIN log' : log'[i].at \in Int /\ i \in Int
      /\ Len(log') \in DOMAIN log'
      /\ cursor \in Int /\ floor \in Int /\ batch \subseteq DOMAIN log
      /\ \A i \in Local' : i \in DOMAIN log' /\ (i \in Local \/ i = Len(log'))
  <2>1. /\ \A i \in DOMAIN log : log[i].at \in Int /\ i \in Int
        /\ cursor \in Int /\ floor \in Int /\ batch \subseteq DOMAIN log
    BY <1>1, LogParts DEF TypeOK
  <2>2. DOMAIN log' = 1 .. Len(log') /\ \A i \in 1 .. Len(log') : log'[i] \in Message
    BY <1>2
  <2>3. Len(log') \in DOMAIN log'
    BY <1>1, <1>2, <2>2, LogParts DEF TypeOK
  <2>4. \A i \in DOMAIN log' : log'[i].at \in Int /\ i \in Int
    BY <2>2 DEF Message
  <2>5. \A i \in Local' : i \in DOMAIN log' /\ (i \in Local \/ i = Len(log'))
    BY <1>2 DEF Local
  <2> QED
    BY <2>1, <2>3, <2>4, <2>5
<1>4. Sorted'
  BY <1>2, <1>3, <1>1 DEF Sorted
<1>5. BatchIsNext'
  BY <1>2, <1>3, <1>1 DEF BatchIsNext
<1>6. CursorAtMessage'
  BY <1>2, <1>1 DEF CursorAtMessage
<1>7. NoneSkipped'
  <2> SUFFICES ASSUME NEW i \in Local', floor < log'[i].at, log'[i].at <= cursor
               PROVE  i \in received
    BY DEF NoneSkipped
  <2>1. CASE i \in Local
    BY <1>1, <1>2, <1>3, <2>1 DEF NoneSkipped, Local
  <2>2. CASE i = Len(log')
    <3>1. cursor # floor
      BY <1>3, <2>2
    <3>2. PICK j \in DOMAIN log : log[j].at = cursor
      BY <1>1, <3>1 DEF CursorAtMessage
    <3> QED
      BY <1>2, <1>3, <2>2, <3>2
  <2> QED
    BY <1>3, <2>1, <2>2
<1> QED
  BY <1>4, <1>5, <1>6, <1>7

\* So does a step that leaves the log and the cursor alone.
LEMMA QuietKeeps ==
    ASSUME IInv, UNCHANGED <<log, cursor, floor>>, received \subseteq received',
           BatchIsNext'
    PROVE  Sorted' /\ BatchIsNext' /\ CursorAtMessage' /\ NoneSkipped'
BY DEF IInv, Sorted, CursorAtMessage, NoneSkipped, Local

\* A page is the next piece of the log.
LEMMA PageIsNext ==
    ASSUME IInv, UNCHANGED <<log, cursor>>, batch' = Outgoing
    PROVE  BatchIsNext' /\ batch' \subseteq Local
<1>1. \A i \in DOMAIN log : i \in Int /\ log[i].at \in Int
  BY LogParts DEF IInv, TypeOK
<1>2. Limit \in Int
  BY NumbersAssumption
<1>3. ASSUME NEW i \in Local, NEW last \in Outgoing, cursor < log[i].at, i <= last
      PROVE  i \in Outgoing
  <2>1. i \in Behind /\ last \in Behind /\ Behind \subseteq DOMAIN log
    BY <1>3 DEF Behind, Local, Outgoing, Page
  <2>2. \A j \in Behind : i - j < Limit
    BY <1>1, <1>2, <1>3, <2>1 DEF Outgoing, Page
  <2> QED
    BY <2>1, <2>2 DEF Outgoing, Page
<1> QED
  BY <1>3 DEF BatchIsNext, Local, Outgoing

LEMMA RequestStep ==
    ASSUME IInv, NEW armed \in BOOLEAN, Request(armed),
           UNCHANGED <<log, cursor, pending, waiting, received, floor, restarts, now>>,
           debounce' \in BOOLEAN
    PROVE  IInv'
<1>1. batch' = batch \/ (batch' = Outgoing /\ phase = "idle" /\ phase' = "post")
  BY DEF Request
<1>2. BatchIsNext' /\ batch' \subseteq Local'
  <2>1. CASE batch' = batch
    BY <2>1 DEF IInv, TypeOK, BatchIsNext, Local
  <2>2. CASE batch' = Outgoing
    BY <2>2, PageIsNext DEF Local
  <2> QED
    BY <1>1, <2>1, <2>2
<1>3. Sorted' /\ CursorAtMessage' /\ NoneSkipped'
  BY <1>2, QuietKeeps
<1>4. /\ queued' \in BOOLEAN /\ timer' \in BOOLEAN /\ (queued' => phase' # "idle")
      /\ phase' \in {"idle", "post", "relay"} /\ (phase' = "relay" <=> phase = "relay")
      /\ batch' # {} => phase' = "post"
  <2>1. TypeOK
    BY DEF IInv
  <2>2. CASE phase # "idle" /\ queued' = TRUE /\ timer' = armed /\ UNCHANGED <<phase, batch>>
    BY <2>1, <2>2 DEF TypeOK
  <2>3. CASE phase = "idle" /\ timer' = TRUE /\ UNCHANGED <<phase, batch, queued>>
    BY <2>1, <2>3 DEF TypeOK
  <2>4. CASE phase = "idle" /\ phase' = "post" /\ timer' = armed /\ UNCHANGED queued
    BY <2>1, <2>4 DEF TypeOK
  <2> QED
    BY <2>2, <2>3, <2>4 DEF Request
<1>5. TypeOK'
  BY <1>2, <1>4 DEF IInv, TypeOK, Local
<1> QED
  BY <1>2, <1>3, <1>5 DEF IInv

\* What Finish leaves behind has its types.
LEMMA Finished ==
    ASSUME TypeOK, Finish
    PROVE  /\ phase' = "idle" /\ batch' = {} /\ queued' = FALSE
           /\ waiting' \in BOOLEAN /\ timer' \in BOOLEAN
BY DEF TypeOK, Finish

LEMMA SucceedStep ==
    ASSUME IInv, NEW relayed \in 0 .. MaxRelayed, Succeed(relayed)
    PROVE  IInv'
<1>1. /\ phase = "post" /\ MoveTo(batch) /\ received' = received \cup batch
      /\ pending' = relayed /\ batch' = {}
      /\ UNCHANGED <<log, debounce, floor, restarts, now>>
  BY DEF Succeed, Finish
<1>2. /\ \A i \in DOMAIN log : i \in Int /\ log[i].at \in Int
      /\ Local \subseteq DOMAIN log /\ batch \subseteq Local
      /\ cursor \in Int /\ floor \in Int
  BY LogParts DEF IInv, TypeOK
<1>3. /\ phase' \in {"idle", "post", "relay"} /\ (pending' > 0 <=> phase' = "relay")
      /\ queued' \in BOOLEAN /\ waiting' \in BOOLEAN /\ timer' \in BOOLEAN
      /\ queued' => phase' # "idle"
  <2>1. CASE relayed = 0
    BY <2>1, <1>1, Finished DEF Succeed, IInv
  <2>2. CASE relayed # 0
    <3>1. phase' = "relay" /\ waiting' = TRUE /\ UNCHANGED <<queued, timer>>
      BY <2>2 DEF Succeed
    <3>2. pending' > 0
      BY <1>1, <2>2, NumbersAssumption
    <3> QED
      BY <3>1, <3>2 DEF IInv, TypeOK
  <2> QED
    BY <2>1, <2>2
<1>4. cursor' \in Int /\ CursorAtMessage' /\ NoneSkipped'
  <2>1. CASE batch = {}
    <3>1. cursor' = cursor
      BY <1>1, <2>1 DEF MoveTo
    <3> QED
      BY <1>1, <1>2, <2>1, <3>1 DEF IInv, CursorAtMessage, NoneSkipped, Local
  <2>2. CASE batch # {}
    <3>1. PICK last \in batch : cursor' = log[last].at
      BY <1>1, <2>2 DEF MoveTo
    <3>2. ASSUME NEW i \in Local, floor < log[i].at, log[i].at <= cursor'
          PROVE  i \in received'
      <4>1. CASE log[i].at <= cursor
        BY <1>1, <3>2, <4>1 DEF IInv, NoneSkipped
      <4>2. CASE cursor < log[i].at
        <5>1. i <= last
          BY <1>2, <3>1, <3>2 DEF IInv, Sorted
        <5> QED
          BY <1>1, <4>2, <5>1 DEF IInv, BatchIsNext
      <4> QED
        BY <1>2, <4>1, <4>2
    <3> QED
      BY <1>1, <1>2, <3>1, <3>2 DEF CursorAtMessage, NoneSkipped, Local
  <2> QED
    BY <2>1, <2>2
<1>5. Sorted' /\ BatchIsNext'
  BY <1>1 DEF IInv, Sorted, BatchIsNext
<1>6. TypeOK'
  BY <1>1, <1>2, <1>3, <1>4 DEF IInv, TypeOK, Local
<1> QED
  BY <1>4, <1>5, <1>6 DEF IInv

LEMMA FailStep ==
    ASSUME IInv, NEW delivered \in BOOLEAN, Fail(delivered)
    PROVE  IInv'
<1>1. /\ received' \subseteq received \cup batch /\ received \subseteq received'
      /\ phase = "post"
      /\ UNCHANGED <<log, cursor, pending, debounce, floor, restarts, now>>
  BY DEF Fail
<1>2. /\ phase' = "idle" /\ batch' = {} /\ queued' = FALSE
      /\ waiting' \in BOOLEAN /\ timer' \in BOOLEAN
  BY Finished DEF Fail, IInv
<1>3. TypeOK'
  BY <1>1, <1>2 DEF IInv, TypeOK, Local
<1>4. BatchIsNext'
  BY <1>2 DEF BatchIsNext
<1> QED
  BY <1>1, <1>3, <1>4, QuietKeeps DEF IInv

LEMMA SendStep == ASSUME IInv, Send PROVE IInv'
<1>1. /\ Store(FALSE)
      /\ UNCHANGED <<cursor, phase, batch, pending, queued, waiting, timer,
                     received, floor, restarts, now>>
  BY DEF Send
<1>2. log' \in Seq(Message) /\ Local \subseteq Local' /\ debounce' \in BOOLEAN
  BY <1>1, Stored DEF IInv, Store
<1>3. TypeOK'
  BY <1>1, <1>2 DEF IInv, TypeOK
<1> QED
  BY <1>1, <1>3, StoreKeeps DEF IInv

LEMMA RelayStep ==
    ASSUME IInv, NEW taken \in BOOLEAN, Relay(taken)
    PROVE  IInv'
<1>1. /\ phase = "relay" /\ pending' = pending - 1
      /\ UNCHANGED <<cursor, received, floor, restarts, now>>
      /\ batch = {} /\ pending \in 0 .. MaxRelayed /\ pending > 0
  BY DEF Relay, IInv, TypeOK
<1>2. /\ batch' = {} /\ phase' \in {"idle", "relay"}
      /\ pending' > 0 <=> phase' = "relay"
      /\ queued' \in BOOLEAN /\ waiting' \in BOOLEAN /\ timer' \in BOOLEAN
      /\ queued' => phase' # "idle"
  <2>1. CASE pending = 1
    <3>1. Finish
      BY <2>1 DEF Relay
    <3>2. ~(pending' > 0)
      BY <1>1, <2>1
    <3> QED
      BY <3>1, <3>2, Finished DEF IInv
  <2>2. CASE pending # 1
    <3>1. UNCHANGED <<phase, batch, queued, waiting, timer>>
      BY <2>2 DEF Relay
    <3>2. pending' > 0
      BY <1>1, <2>2, NumbersAssumption
    <3> QED
      BY <1>1, <3>1, <3>2 DEF IInv, TypeOK
  <2> QED
    BY <2>1, <2>2
<1>3. pending' \in 0 .. MaxRelayed
  BY <1>1, NumbersAssumption
<1>4. CASE taken
  <2>1. Store(TRUE)
    BY <1>4 DEF Relay
  <2>2. log' \in Seq(Message) /\ Local \subseteq Local' /\ debounce' \in BOOLEAN
    BY <2>1, Stored DEF IInv, Store
  <2>3. TypeOK'
    BY <1>1, <1>2, <1>3, <2>2 DEF IInv, TypeOK
  <2> QED
    BY <1>1, <1>2, <2>1, <2>3, StoreKeeps DEF IInv
<1>5. CASE ~taken
  <2>1. UNCHANGED <<log, debounce>>
    BY <1>5 DEF Relay
  <2>2. TypeOK'
    BY <1>1, <1>2, <1>3, <2>1 DEF IInv, TypeOK, Local
  <2>3. BatchIsNext'
    BY <1>2 DEF BatchIsNext
  <2> QED
    BY <1>1, <2>1, <2>2, <2>3, QuietKeeps DEF IInv
<1> QED
  BY <1>4, <1>5

LEMMA TimeStep ==
    ASSUME IInv, WindowEnds \/ Tick
    PROVE  IInv'
<1>1. /\ UNCHANGED <<log, cursor, phase, batch, pending, queued, timer, debounce,
                     received, floor, restarts>>
      /\ waiting' \in BOOLEAN
  BY DEF WindowEnds, Tick, IInv, TypeOK
<1>2. now' \in 0 .. MaxTime
  BY NumbersAssumption DEF WindowEnds, Tick, IInv, TypeOK
<1>3. TypeOK'
  BY <1>1, <1>2 DEF IInv, TypeOK, Local
<1>4. BatchIsNext'
  BY <1>1 DEF IInv, BatchIsNext, Local
<1> QED
  BY <1>1, <1>3, <1>4, QuietKeeps DEF IInv

LEMMA RestartStep == ASSUME IInv, Restart PROVE IInv'
<1>1. /\ cursor' = now - Window /\ floor' = cursor' /\ phase' = "idle"
      /\ batch' = {} /\ pending' = 0 /\ queued' = FALSE /\ waiting' = FALSE
      /\ timer' = FALSE /\ debounce' = FALSE /\ UNCHANGED <<log, received, now>>
  BY DEF Restart
<1>2. cursor' \in Int /\ restarts' \in 0 .. MaxRestarts
  BY <1>1, NumbersAssumption DEF Restart, IInv, TypeOK
<1>3. pending' \in 0 .. MaxRelayed /\ ~(pending' > 0)
  BY <1>1, NumbersAssumption
<1>4. TypeOK'
  BY <1>1, <1>2, <1>3 DEF IInv, TypeOK, Local
<1>5. \A i \in DOMAIN log : log[i].at \in Int
  BY LogParts DEF IInv, TypeOK
<1>6. Sorted' /\ BatchIsNext' /\ CursorAtMessage'
  BY <1>1 DEF IInv, Sorted, BatchIsNext, CursorAtMessage
<1>7. NoneSkipped'
  BY <1>1, <1>2, <1>5 DEF NoneSkipped, Local
<1> QED
  BY <1>4, <1>6, <1>7 DEF IInv

LEMMA StepIInv == ASSUME IInv, [Next]_vars PROVE IInv'
<1>1. CASE UNCHANGED vars
  BY <1>1 DEF vars, IInv, TypeOK, Sorted, BatchIsNext, CursorAtMessage,
              NoneSkipped, Local
<1>2. CASE Poll \/ Event \/ Fire
  <2>1. UNCHANGED <<log, cursor, pending, waiting, received, floor, restarts, now>>
    BY <1>2 DEF Poll, Event, Fire
  <2>2. debounce' \in BOOLEAN
    BY <1>2 DEF Poll, Event, Fire, IInv, TypeOK
  <2>3. \E armed \in BOOLEAN : Request(armed)
    BY <1>2 DEF Poll, Event, Fire, IInv, TypeOK
  <2> QED
    BY <2>1, <2>2, <2>3, RequestStep
<1>3. CASE Send
  BY <1>3, SendStep
<1>4. CASE WindowEnds \/ Tick
  BY <1>4, TimeStep
<1>5. CASE Restart
  BY <1>5, RestartStep
<1>6. CASE \E relayed \in 0 .. MaxRelayed : Succeed(relayed)
  BY <1>6, SucceedStep
<1>7. CASE \E delivered \in BOOLEAN : Fail(delivered)
  BY <1>7, FailStep
<1>8. CASE \E taken \in BOOLEAN : Relay(taken)
  BY <1>8, RelayStep
<1> QED
  BY <1>1, <1>2, <1>3, <1>4, <1>5, <1>6, <1>7, <1>8 DEF Next

-----------------------------------------------------------------------------
(* The theorems. *)

\* The inductive invariant holds in every reachable state.
THEOREM Invariance == Spec => []IInv
<1>1. Init => IInv
  BY InitIInv
<1>2. IInv /\ [Next]_vars => IInv'
  BY StepIInv
<1> QED
  BY <1>1, <1>2, PTL DEF Spec

\* The variables keep their types; in particular nothing that came from the cloud
\* is ever sent back to it.
THEOREM TypeCorrect == Spec => []TypeOK
<1>1. IInv => TypeOK
  BY DEF IInv
<1> QED
  BY <1>1, Invariance, PTL

\* The cursor never passes a message of the node the cloud does not have, for any
\* page size and however messages, answers and failures interleave.
THEOREM CursorCorrect == Spec => []NoneSkipped
<1>1. IInv => NoneSkipped
  BY DEF IInv
<1> QED
  BY <1>1, Invariance, PTL

-----------------------------------------------------------------------------
(***************************************************************************)
(* The task ledger.  Its rows are never behind the tasks they stand for    *)
(* (RowsFollowed), so that an answer which finds the time it sent finds    *)
(* the version it sent, if a task changes once in a millisecond.           *)
(***************************************************************************)

CurrentVersion(t) == [task |-> t, what |-> rows[t].what, at |-> rows[t].at]

\* What the table holds, and what the POSTs carry, was written here.
VersionsWritten ==
    /\ \A t \in DOMAIN rows : CurrentVersion(t) \in written
    /\ \A p \in Posts : posts[p] \subseteq written

ArrivedIsReceived == \A p \in arrived : posts[p] \subseteq mirrored

RowsFollowed == \A t \in DOMAIN ledger : ledger[t].at = rows[t].at

\* A synced row stands for a version the cloud has, to the millisecond.
SyncedAtItsTime ==
    \A t \in DOMAIN ledger : ledger[t].status = "synced" =>
        \E v \in mirrored : v.task = t /\ v.at = rows[t].at

OnePerMillisecond ==
    ~SameMillisecond =>
        \A v, w \in written : v.task = w.task /\ v.at = w.at => v = w

LedgerIInv ==
    /\ LedgerTypeOK /\ VersionsWritten /\ ArrivedIsReceived
    /\ RowsFollowed /\ SyncedAtItsTime /\ OnePerMillisecond

\* The assumption of TaskLedger, a conjunct at a time.
LEMMA LedgerNumbers ==
    /\ Hidden \subseteq Tasks
    /\ MaxChanges \in Nat /\ LedgerTime \in Nat /\ MaxFaults \in Nat
BY ConstantsAssumption

\* TypeOK, task by task.
LEMMA LedgerTypes ==
    ASSUME LedgerTypeOK
    PROVE  /\ \A t \in DOMAIN rows : t \in Tasks /\ rows[t] \in Row
           /\ \A t \in DOMAIN ledger : t \in DOMAIN rows /\ ledger[t] \in Entry
BY DEF LedgerTypeOK, Range

LEMMA LedgerTypesBack ==
    ASSUME \A t \in DOMAIN rows : t \in Tasks /\ rows[t] \in Row,
           \A t \in DOMAIN ledger : t \in DOMAIN rows /\ ledger[t] \in Entry
    PROVE  /\ DOMAIN rows \subseteq Tasks /\ Range(rows) \subseteq Row
           /\ DOMAIN ledger \subseteq DOMAIN rows
           /\ Range(ledger) \subseteq Entry
BY DEF Range

LEMMA LedgerInitKeeps ==
    ASSUME LedgerInit
    PROVE  LedgerIInv
<1>1. LedgerTypeOK
  BY LedgerNumbers DEF LedgerInit, LedgerTypeOK, Range
<1>2. /\ VersionsWritten /\ ArrivedIsReceived /\ RowsFollowed
      /\ SyncedAtItsTime /\ OnePerMillisecond
  BY DEF LedgerInit, VersionsWritten, ArrivedIsReceived, RowsFollowed,
         SyncedAtItsTime, OnePerMillisecond
<1> QED
  BY <1>1, <1>2 DEF LedgerIInv

\* A row that is put, by a change or by a pull, is in the ledger as unsent; whatever
\* else the ledger says stays.
LEMMA PutKeeps ==
    ASSUME LedgerIInv,
           NEW t \in Tasks, NEW row \in Row, Put(t, row),
           [task |-> t, what |-> row.what, at |-> row.at] \in written',
           written \subseteq written', UNCHANGED <<posts, arrived, mirrored>>
    PROVE  /\ \A u \in DOMAIN rows' : u \in Tasks /\ rows'[u] \in Row
           /\ \A u \in DOMAIN ledger' : u \in DOMAIN rows' /\ ledger'[u] \in Entry
           /\ VersionsWritten' /\ ArrivedIsReceived' /\ RowsFollowed' /\ SyncedAtItsTime'
<1>1. /\ \A u \in DOMAIN rows : u \in Tasks /\ rows[u] \in Row
      /\ \A u \in DOMAIN ledger : u \in DOMAIN rows /\ ledger[u] \in Entry
  BY LedgerTypes DEF LedgerIInv
<1>2. /\ DOMAIN rows' = DOMAIN rows \cup {t} /\ rows'[t] = row
      /\ \A u \in DOMAIN rows' : u # t => rows'[u] = rows[u]
  BY DEF Put, With
<1>3. /\ DOMAIN ledger' = DOMAIN ledger \cup {t}
      /\ \A u \in DOMAIN ledger' : u # t => ledger'[u] = ledger[u]
      /\ ledger'[t] = [at |-> row.at, status |-> "pending",
                       synced |-> IF t \in DOMAIN ledger THEN ledger[t].synced
                                  ELSE Never]
  BY DEF Put, Touched, With
<1>4. ledger'[t] \in Entry
  BY <1>1, <1>3 DEF Entry, Row
<1>5. /\ \A u \in DOMAIN rows' : u \in Tasks /\ rows'[u] \in Row
      /\ \A u \in DOMAIN ledger' : u \in DOMAIN rows' /\ ledger'[u] \in Entry
  BY <1>1, <1>2, <1>3, <1>4
<1>6. VersionsWritten'
  BY <1>2 DEF LedgerIInv, VersionsWritten, CurrentVersion
<1>7. ArrivedIsReceived' /\ RowsFollowed'
  BY <1>1, <1>2, <1>3 DEF LedgerIInv, ArrivedIsReceived, RowsFollowed
<1>8. SyncedAtItsTime'
  <2>1. ledger'[t].status # "synced"
    BY <1>3
  <2> QED
    BY <1>1, <1>2, <1>3, <2>1 DEF LedgerIInv, SyncedAtItsTime
<1> QED
  BY <1>5, <1>6, <1>7, <1>8

LEMMA WriteStep ==
    ASSUME LedgerIInv, NEW t \in Tasks, Write(t)
    PROVE  LedgerIInv'
<1> DEFINE row == [what |-> changes + 1, at |-> ledgerNow]
           version == [task |-> t, what |-> changes + 1, at |-> ledgerNow]
<1>1. changes' \in 0 .. MaxChanges /\ row \in Row /\ version \in Version
  BY LedgerNumbers DEF Write, LedgerIInv, LedgerTypeOK, Row, Version
<1>2. /\ Put(t, row) /\ written' = written \cup {version}
      /\ UNCHANGED <<posts, arrived, mirrored, faults, ledgerNow>>
  BY DEF Write
<1>3. version = [task |-> t, what |-> row.what, at |-> row.at]
  OBVIOUS
<1>4. /\ \A u \in DOMAIN rows' : u \in Tasks /\ rows'[u] \in Row
      /\ \A u \in DOMAIN ledger' : u \in DOMAIN rows' /\ ledger'[u] \in Entry
      /\ VersionsWritten' /\ ArrivedIsReceived' /\ RowsFollowed' /\ SyncedAtItsTime'
  <2> HIDE DEF row, version
  <2> QED
    BY <1>1, <1>2, <1>3, PutKeeps
<1>5. OnePerMillisecond'
  <2> SUFFICES ASSUME ~SameMillisecond, NEW v \in written', NEW w \in written',
                      v.task = w.task, v.at = w.at
               PROVE  v = w
    BY DEF OnePerMillisecond
  <2>1. \A x \in written : x.task = t => x.at # ledgerNow
    BY DEF Write
  <2> QED
    BY <1>2, <2>1 DEF LedgerIInv, OnePerMillisecond
<1>6. LedgerTypeOK'
  BY <1>1, <1>2, <1>4, LedgerTypesBack DEF LedgerIInv, LedgerTypeOK, Range
<1> QED
  BY <1>4, <1>5, <1>6 DEF LedgerIInv

LEMMA PullBackStep ==
    ASSUME LedgerIInv, NEW v \in written, PullBack(v)
    PROVE  LedgerIInv'
<1> DEFINE row == [what |-> v.what, at |-> v.at]
<1>1. /\ v \in Version /\ v.task \in Tasks /\ row \in Row
      /\ v = [task |-> v.task, what |-> row.what, at |-> row.at]
  BY DEF LedgerIInv, LedgerTypeOK, Version, Row
<1>2. /\ Put(v.task, row)
      /\ UNCHANGED <<posts, arrived, mirrored, written, changes, faults, ledgerNow>>
  BY DEF PullBack
<1>3. /\ \A u \in DOMAIN rows' : u \in Tasks /\ rows'[u] \in Row
      /\ \A u \in DOMAIN ledger' : u \in DOMAIN rows' /\ ledger'[u] \in Entry
      /\ VersionsWritten' /\ ArrivedIsReceived' /\ RowsFollowed' /\ SyncedAtItsTime'
  <2> HIDE DEF row
  <2> QED
    BY <1>1, <1>2, PutKeeps
<1>4. OnePerMillisecond'
  BY <1>2 DEF LedgerIInv, OnePerMillisecond
<1>5. LedgerTypeOK'
  BY <1>2, <1>3 DEF LedgerIInv, LedgerTypeOK, Range
<1> QED
  BY <1>3, <1>4, <1>5 DEF LedgerIInv

LEMMA DeleteStep ==
    ASSUME LedgerIInv, NEW t \in Tasks, Delete(t)
    PROVE  LedgerIInv'
<1>1. /\ DOMAIN rows' = DOMAIN rows \ {t} /\ \A u \in DOMAIN rows' : rows'[u] = rows[u]
      /\ DOMAIN ledger' = DOMAIN ledger \ {t}
      /\ \A u \in DOMAIN ledger' : ledger'[u] = ledger[u]
  BY DEF Delete, Without, Forgotten, Restrict
<1>2. /\ changes' \in 0 .. MaxChanges
      /\ UNCHANGED <<posts, arrived, mirrored, written, faults, ledgerNow>>
  BY LedgerNumbers DEF Delete, LedgerIInv, LedgerTypeOK
<1>3. /\ \A u \in DOMAIN rows : u \in Tasks /\ rows[u] \in Row
      /\ \A u \in DOMAIN ledger : u \in DOMAIN rows /\ ledger[u] \in Entry
  BY LedgerTypes DEF LedgerIInv
<1>4. LedgerTypeOK'
  BY <1>1, <1>2, <1>3 DEF LedgerIInv, LedgerTypeOK, Range
<1>5. VersionsWritten' /\ ArrivedIsReceived' /\ OnePerMillisecond'
  BY <1>1, <1>2 DEF LedgerIInv, VersionsWritten, CurrentVersion, ArrivedIsReceived,
                    OnePerMillisecond
<1>6. RowsFollowed' /\ SyncedAtItsTime'
  BY <1>1, <1>2, <1>3 DEF LedgerIInv, RowsFollowed, SyncedAtItsTime
<1> QED
  BY <1>4, <1>5, <1>6 DEF LedgerIInv

\* Bringing the ledger in line with the tasks adds rows that are unsent and drops
\* others; no row that is kept changes.
LEMMA RefreshedRows ==
    ASSUME LedgerIInv
    PROVE  /\ DOMAIN Refreshed = DOMAIN rows \ Hidden
           /\ \A t \in DOMAIN Refreshed :
                 /\ Refreshed[t] \in Entry
                 /\ Refreshed[t].at = rows[t].at
                 /\ Refreshed[t].status = "synced" =>
                       t \in DOMAIN ledger /\ ledger[t].status = "synced"
<1>1. DOMAIN Refreshed = DOMAIN rows \ Hidden
  BY DEF Refreshed, Snapshot
<1>2. ASSUME NEW t \in DOMAIN rows \ Hidden
      PROVE  /\ Refreshed[t] \in Entry
             /\ Refreshed[t].at = rows[t].at
             /\ Refreshed[t].status = "synced" =>
                   t \in DOMAIN ledger /\ ledger[t].status = "synced"
  <2>1. CASE t \in DOMAIN ledger
    <3>1. ledger[t].at = rows[t].at /\ ledger[t] \in Entry
      BY <2>1, LedgerTypes DEF LedgerIInv, RowsFollowed
    <3>2. Refreshed[t] = ledger[t]
      BY <2>1, <3>1 DEF Refreshed, Snapshot
    <3> QED
      BY <2>1, <3>1, <3>2
  <2>2. CASE t \notin DOMAIN ledger
    <3>1. rows[t] \in Row
      BY LedgerTypes DEF LedgerIInv
    <3>2. Refreshed[t] = [at |-> rows[t].at, status |-> "pending",
                                 synced |-> Never]
      BY <2>2 DEF Refreshed, Snapshot, Touched, With
    <3> QED
      BY <3>1, <3>2 DEF Entry, Row
  <2> QED
    BY <2>1, <2>2
<1> QED
  BY <1>1, <1>2

LEMMA SyncStep ==
    ASSUME LedgerIInv, NEW p \in Posts, Sync(p)
    PROVE  LedgerIInv'
<1>1. /\ ledger' = Refreshed /\ posts[p] = {}
      /\ UNCHANGED <<rows, arrived, mirrored, written, changes, faults, ledgerNow>>
  BY DEF Sync
<1>2. PICK page \in SUBSET DOMAIN ledger' : posts' = [posts EXCEPT ![p] = Sent(page)]
  BY DEF Sync
<1>3. /\ DOMAIN ledger' = DOMAIN rows \ Hidden
      /\ \A t \in DOMAIN ledger' :
            /\ ledger'[t] \in Entry /\ ledger'[t].at = rows[t].at
            /\ ledger'[t].status = "synced" => t \in DOMAIN ledger /\ ledger[t].status = "synced"
  BY <1>1, RefreshedRows
<1>4. Sent(page) \subseteq written
  <2> SUFFICES ASSUME NEW v \in Sent(page)
               PROVE  v \in written
    OBVIOUS
  <2>1. PICK t \in page \cap Snapshot :
           v = [task |-> t, what |-> rows[t].what, at |-> ledger'[t].at]
    BY DEF Sent
  <2>2. t \in DOMAIN rows /\ v = CurrentVersion(t)
    BY <1>3, <2>1 DEF Snapshot, CurrentVersion
  <2> QED
    BY <2>2 DEF LedgerIInv, VersionsWritten
<1>5. /\ posts' \in [Posts -> SUBSET Version] /\ p \notin arrived
      /\ \A q \in Posts : posts'[q] \subseteq written
      /\ \A q \in arrived : q \in Posts /\ posts'[q] = posts[q]
  BY <1>1, <1>2, <1>4 DEF LedgerIInv, LedgerTypeOK, VersionsWritten
<1>6. LedgerTypeOK'
  <2>1. /\ DOMAIN ledger' \subseteq DOMAIN rows'
        /\ Range(ledger)' \subseteq Entry
    BY <1>1, <1>3 DEF Range
  <2>2. arrived' \subseteq {q \in Posts : posts'[q] # {}}
    BY <1>1, <1>5 DEF LedgerIInv, LedgerTypeOK
  <2> QED
    BY <1>1, <1>5, <2>1, <2>2 DEF LedgerIInv, LedgerTypeOK, Range
<1>7. VersionsWritten' /\ ArrivedIsReceived' /\ OnePerMillisecond'
  BY <1>1, <1>5 DEF LedgerIInv, VersionsWritten, CurrentVersion, ArrivedIsReceived,
                    OnePerMillisecond
<1>8. RowsFollowed' /\ SyncedAtItsTime'
  BY <1>1, <1>3 DEF LedgerIInv, RowsFollowed, SyncedAtItsTime
<1> QED
  BY <1>6, <1>7, <1>8 DEF LedgerIInv

LEMMA ArriveStep ==
    ASSUME LedgerIInv, NEW p \in Posts, Arrive(p)
    PROVE  LedgerIInv'
<1>1. /\ arrived' = arrived \cup {p} /\ mirrored' = mirrored \cup posts[p]
      /\ posts[p] # {}
      /\ UNCHANGED <<rows, ledger, posts, written, changes, faults, ledgerNow>>
  BY DEF Arrive
<1>2. posts[p] \subseteq written
  BY DEF LedgerIInv, VersionsWritten
<1>3. LedgerTypeOK'
  BY <1>1, <1>2 DEF LedgerIInv, LedgerTypeOK, Range
<1>4. /\ VersionsWritten' /\ ArrivedIsReceived' /\ RowsFollowed'
      /\ SyncedAtItsTime' /\ OnePerMillisecond'
  BY <1>1 DEF LedgerIInv, VersionsWritten, CurrentVersion, ArrivedIsReceived,
              RowsFollowed, SyncedAtItsTime, OnePerMillisecond
<1> QED
  BY <1>3, <1>4 DEF LedgerIInv

\* An answer of either kind changes no time in the ledger, and calls a row synced only
\* if the POST that succeeded carried the time it has.
LEMMA MarkedRows ==
    ASSUME LedgerIInv, NEW vs, NEW success \in BOOLEAN
    PROVE  /\ DOMAIN Marked(vs, success) = DOMAIN ledger
           /\ \A t \in DOMAIN ledger :
                 /\ Marked(vs, success)[t] \in Entry
                 /\ Marked(vs, success)[t].at = ledger[t].at
                 /\ Marked(vs, success)[t].status = "synced" =>
                       \/ ledger[t].status = "synced"
                       \/ success /\ \E v \in vs : v.task = t /\ v.at = ledger[t].at
<1> DEFINE marked == {v.task : v \in {w \in vs : StillAsSent(w)}}
           result == Marked(vs, success)
<1>1. DOMAIN result = DOMAIN ledger
  BY DEF Marked
<1>2. ASSUME NEW t \in DOMAIN ledger
      PROVE  /\ result[t] \in Entry /\ result[t].at = ledger[t].at
             /\ result[t].status = "synced" =>
                   \/ ledger[t].status = "synced"
                   \/ success /\ \E v \in vs : v.task = t /\ v.at = ledger[t].at
  <2>1. ledger[t] \in Entry /\ ledgerNow \in 0 .. LedgerTime
    BY LedgerTypes DEF LedgerIInv, LedgerTypeOK
  <2>2. CASE t \notin marked
    BY <2>1, <2>2 DEF Marked
  <2>3. CASE t \in marked
    <3>1. PICK v \in vs : v.task = t /\ v.at = ledger[t].at
      BY <2>3 DEF StillAsSent
    <3>2. CASE success
      <4>1. result[t] = [ledger[t] EXCEPT !.synced = ledgerNow, !.status = "synced"]
        BY <2>3, <3>2 DEF Marked
      <4> QED
        BY <2>1, <3>1, <3>2, <4>1 DEF Entry
    <3>3. CASE ~success
      <4>1. result[t] = [ledger[t] EXCEPT !.status = "error"]
        BY <2>3, <3>3 DEF Marked
      <4> QED
        BY <2>1, <4>1 DEF Entry
    <3> QED
      BY <3>2, <3>3
  <2> QED
    BY <2>2, <2>3
<1> QED
  BY <1>1, <1>2

LEMMA AnsweredStep ==
    ASSUME LedgerIInv, NEW p \in Posts,
           NEW success \in BOOLEAN, Answered(p, success),
           success => p \in arrived, faults' \in 0 .. MaxFaults
    PROVE  LedgerIInv'
<1>1. /\ ledger' = Marked(posts[p], success)
      /\ posts' = [posts EXCEPT ![p] = {}] /\ arrived' = arrived \ {p}
      /\ UNCHANGED <<rows, mirrored, written, changes, ledgerNow>>
  BY DEF Answered
<1>2. /\ DOMAIN ledger' = DOMAIN ledger
      /\ \A t \in DOMAIN ledger :
            /\ ledger'[t] \in Entry /\ ledger'[t].at = ledger[t].at
            /\ ledger'[t].status = "synced" =>
                  \/ ledger[t].status = "synced"
                  \/ success /\ \E v \in posts[p] : v.task = t /\ v.at = ledger[t].at
  BY <1>1, MarkedRows
<1>3. /\ posts' \in [Posts -> SUBSET Version]
      /\ \A q \in Posts : posts'[q] \subseteq written
      /\ \A q \in arrived' : q \in Posts /\ posts'[q] = posts[q] /\ q \in arrived
  BY <1>1 DEF LedgerIInv, LedgerTypeOK, VersionsWritten
<1>4. LedgerTypeOK'
  <2>1. /\ DOMAIN ledger' \subseteq DOMAIN rows'
        /\ Range(ledger)' \subseteq Entry
    BY <1>1, <1>2 DEF LedgerIInv, LedgerTypeOK, Range
  <2>2. arrived' \subseteq {q \in Posts : posts'[q] # {}}
    BY <1>3 DEF LedgerIInv, LedgerTypeOK
  <2> QED
    BY <1>1, <1>3, <2>1, <2>2 DEF LedgerIInv, LedgerTypeOK, Range
<1>5. VersionsWritten' /\ ArrivedIsReceived' /\ OnePerMillisecond'
  BY <1>1, <1>3 DEF LedgerIInv, VersionsWritten, CurrentVersion, ArrivedIsReceived,
                    OnePerMillisecond
<1>6. RowsFollowed'
  BY <1>1, <1>2 DEF LedgerIInv, RowsFollowed
<1>7. SyncedAtItsTime'
  <2> SUFFICES ASSUME NEW t \in DOMAIN ledger, ledger'[t].status = "synced"
               PROVE  \E v \in mirrored : v.task = t /\ v.at = rows[t].at
    BY <1>1, <1>2 DEF SyncedAtItsTime
  <2>1. CASE ledger[t].status = "synced"
    BY <2>1 DEF LedgerIInv, SyncedAtItsTime
  <2>2. CASE success /\ \E v \in posts[p] : v.task = t /\ v.at = ledger[t].at
    <3>1. posts[p] \subseteq mirrored
      BY <2>2 DEF LedgerIInv, ArrivedIsReceived
    <3>2. ledger[t].at = rows[t].at
      BY DEF LedgerIInv, RowsFollowed
    <3> QED
      BY <2>2, <3>1, <3>2
  <2> QED
    BY <1>2, <2>1, <2>2
<1> QED
  BY <1>4, <1>5, <1>6, <1>7 DEF LedgerIInv

\* The process dies, or time passes.
LEMMA OutsideStep ==
    ASSUME LedgerIInv, LedgerRestart \/ LedgerTick
    PROVE  LedgerIInv'
<1>1. /\ UNCHANGED <<rows, ledger, mirrored, written, changes>>
      /\ \/ posts' = [p \in Posts |-> {}] /\ arrived' = {}
         \/ UNCHANGED <<posts, arrived>>
  BY DEF LedgerRestart, LedgerTick
<1>2. faults' \in 0 .. MaxFaults /\ ledgerNow' \in 0 .. LedgerTime
  BY LedgerNumbers DEF LedgerRestart, LedgerTick, LedgerIInv, LedgerTypeOK
<1>3. LedgerTypeOK'
  BY <1>1, <1>2 DEF LedgerIInv, LedgerTypeOK, Range
<1>4. /\ VersionsWritten' /\ ArrivedIsReceived' /\ RowsFollowed'
      /\ SyncedAtItsTime' /\ OnePerMillisecond'
  BY <1>1 DEF LedgerIInv, VersionsWritten, CurrentVersion, ArrivedIsReceived,
              RowsFollowed, SyncedAtItsTime, OnePerMillisecond
<1> QED
  BY <1>3, <1>4 DEF LedgerIInv

LEMMA LedgerStep ==
    ASSUME LedgerIInv, [LedgerNext]_ledgerVars
    PROVE  LedgerIInv'
<1>1. CASE UNCHANGED ledgerVars
  BY <1>1 DEF ledgerVars, LedgerIInv, LedgerTypeOK, Range, VersionsWritten,
              CurrentVersion, ArrivedIsReceived, RowsFollowed, SyncedAtItsTime,
              OnePerMillisecond
<1>2. CASE \E t \in Tasks : Write(t)
  BY <1>2, WriteStep
<1>3. CASE \E t \in Tasks : Delete(t)
  BY <1>3, DeleteStep
<1>4. CASE \E v \in written : PullBack(v)
  BY <1>4, PullBackStep
<1>5. CASE \E p \in Posts : Sync(p)
  BY <1>5, SyncStep
<1>6. CASE \E p \in Posts : Arrive(p)
  BY <1>6, ArriveStep
<1>7. CASE \E p \in Posts : SyncSucceeds(p) \/ SyncFails(p)
  <2>1. PICK p \in Posts : SyncSucceeds(p) \/ SyncFails(p)
    BY <1>7
  <2>2. faults' \in 0 .. MaxFaults
    <3>1. faults \in 0 .. MaxFaults /\ MaxFaults \in Nat
      BY LedgerNumbers DEF LedgerIInv, LedgerTypeOK
    <3>2. faults' = faults \/ (faults < MaxFaults /\ faults' = faults + 1)
      BY <2>1 DEF SyncSucceeds, SyncFails
    <3> QED
      BY <3>1, <3>2
  <2>3. CASE SyncSucceeds(p)
    BY <2>2, <2>3, AnsweredStep DEF SyncSucceeds
  <2>4. CASE SyncFails(p)
    BY <2>2, <2>4, AnsweredStep DEF SyncFails
  <2> QED
    BY <2>1, <2>3, <2>4
<1>8. CASE LedgerRestart \/ LedgerTick
  BY <1>8, OutsideStep
<1> QED
  BY <1>1, <1>2, <1>3, <1>4, <1>5, <1>6, <1>7, <1>8 DEF LedgerNext

\* The inductive invariant of the ledger holds in every reachable state.
THEOREM LedgerInvariance == LedgerSpec => []LedgerIInv
<1>1. LedgerInit => LedgerIInv
  BY LedgerInitKeeps
<1>2. LedgerIInv /\ [LedgerNext]_ledgerVars => LedgerIInv'
  BY LedgerStep
<1> QED
  BY <1>1, <1>2, PTL DEF LedgerSpec

\* The tables and the POSTs keep their types: no ledger row without its task (a delete
\* takes it along), and the cloud has only what was written here.
THEOREM LedgerTypeCorrect == LedgerSpec => []LedgerTypeOK
<1>1. LedgerIInv => LedgerTypeOK
  BY DEF LedgerIInv
<1> QED
  BY <1>1, LedgerInvariance, PTL

\* Without any assumption on how often a task changes: a row that says synced has a
\* counterpart in the cloud that is not older, whatever answers overtake each other.
THEOREM SyncedCorrectToTheMillisecond == LedgerSpec => []SyncedAtItsTime
<1>1. LedgerIInv => SyncedAtItsTime
  BY DEF LedgerIInv
<1> QED
  BY <1>1, LedgerInvariance, PTL

\* If no task changes twice in a millisecond, a row that says synced stands for the very
\* version the cloud has, for any page size and any number of POSTs that overlap.
THEOREM SyncedCorrect ==
    ASSUME ~SameMillisecond
    PROVE  LedgerSpec => []SyncedMeansReceived
<1>1. ASSUME LedgerIInv
      PROVE  SyncedMeansReceived
  <2> SUFFICES ASSUME NEW t \in DOMAIN ledger, ledger[t].status = "synced"
               PROVE  CurrentVersion(t) \in mirrored
    BY DEF SyncedMeansReceived, CurrentVersion
  <2>1. PICK v \in mirrored : v.task = t /\ v.at = rows[t].at
    BY <1>1 DEF LedgerIInv, SyncedAtItsTime
  <2>2. v \in written /\ CurrentVersion(t) \in written
    BY <1>1, LedgerTypes DEF LedgerIInv, LedgerTypeOK, VersionsWritten
  <2>3. v = CurrentVersion(t)
    BY <1>1, <2>1, <2>2 DEF LedgerIInv, OnePerMillisecond, CurrentVersion
  <2> QED
    BY <2>1, <2>3
<1> QED
  BY <1>1, LedgerInvariance, PTL

===============================================================================
