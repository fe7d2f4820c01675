------------------------ MODULE WebhookDeliveryProofs ------------------------
(***************************************************************************)
(* Proofs about WebhookDelivery for every set of keys and every            *)
(* configuration: deliveries are counted exactly, rows are sent no more    *)
(* often than they may be, and every step is one of AtLeastOnce.           *)
(***************************************************************************)
EXTENDS WebhookDelivery, FiniteSetTheorems, TLAPS

\* What the row of a key and its request have to do with each other: a row that
\* rests has not used up its attempts.
KeyInv(k) ==
    /\ row[k].attempts <= row[k].max \/ row[k].attempts = 1
    /\ flight[k] # 0 => row[k].status = "delivering" /\ flight[k] = row[k].attempts
    /\ row[k].status = "pending" => row[k].attempts = 0
    /\ row[k].status = "retrying" => row[k].attempts < row[k].max

IInv == TypeOK /\ ActiveCounted /\ \A k \in Keys : KeyInv(k)

\* The counted requests are among the keys.
LEMMA InFlightFinite == IsFiniteSet(InFlight) /\ Cardinality(InFlight) \in Nat
<1>1. InFlight \in SUBSET Keys
  BY DEF InFlight
<1>2. IsFiniteSet(InFlight)
  BY <1>1, KeysAssumption, FS_Subset
<1> QED
  BY <1>2, FS_CardinalityType

\* What marking a row for delivery leaves of it.
LEMMA MarkedRow ==
    ASSUME NEW r \in Row
    PROVE  /\ Marked(r) \in Row
           /\ Marked(r).status = "delivering" /\ Marked(r).attempts = r.attempts + 1
           /\ Marked(r).max = r.max
<1>1. /\ r.attempts \in Nat /\ r.max \in Attempts \cup {0}
      /\ r.retry \in {"none", "waiting", "due"}
  BY DEF Row
<1> QED
  BY <1>1 DEF Row, Marked

\* What a failed attempt leaves of its row.
LEMMA FailedRow ==
    ASSUME NEW r \in Row, NEW n \in Nat
    PROVE  /\ Failed(r, n) \in Row
           /\ Failed(r, n).attempts = r.attempts /\ Failed(r, n).max = r.max
           /\ Failed(r, n).status = IF n >= r.max THEN "dead_letter" ELSE "retrying"
  BY DEF Row, Failed

\* A row fresh from enqueue.
LEMMA FreshRow ==
    ASSUME NEW max \in Attempts
    PROVE  LET r == [NoRow EXCEPT !.status = "pending", !.max = max]
           IN  r \in Row /\ r.status = "pending" /\ r.attempts = 0 /\ r.max = max
  BY ConfigAssumption DEF Row, NoRow

LEMMA InitInv == Init => IInv
<1> SUFFICES ASSUME Init PROVE IInv
  OBVIOUS
<1>1. TypeOK
  BY ConfigAssumption DEF Init, TypeOK, Row, NoRow
<1>2. InFlight = {}
  BY DEF Init, InFlight
<1>3. ActiveCounted
  BY <1>2, FS_EmptySet DEF Init, ActiveCounted
<1>4. \A k \in Keys : KeyInv(k)
  BY DEF Init, KeyInv, NoRow
<1> QED
  BY <1>1, <1>3, <1>4 DEF IInv

\* One more request in flight.
LEMMA OneMoreInFlight ==
    ASSUME TypeOK, ActiveCounted, NEW k \in Keys, flight[k] = 0,
           NEW n \in Nat \ {0}, flight' = [flight EXCEPT ![k] = n],
           active' = active + 1
    PROVE  ActiveCounted'
<1>1. InFlight' = InFlight \cup {k}
  BY DEF InFlight, TypeOK
<1>2. k \notin InFlight
  BY DEF InFlight
<1>3. Cardinality(InFlight \cup {k}) = Cardinality(InFlight) + 1
  BY <1>2, InFlightFinite, FS_AddElement
<1> QED
  BY <1>1, <1>3 DEF ActiveCounted

\* An event that enters the table.
LEMMA EnqueueInv ==
    ASSUME IInv, NEW k \in Keys, NEW max \in Attempts, Enqueue(k, max)
    PROVE  IInv'
<1> DEFINE r == [NoRow EXCEPT !.status = "pending", !.max = max]
<1>1. /\ r \in Row /\ r.status = "pending" /\ r.attempts = 0 /\ r.max = max
      /\ max \in Nat
  BY FreshRow, ConfigAssumption
<1>2. /\ row \in [Keys -> Row] /\ flight \in [Keys -> Nat] /\ flight[k] = 0
      /\ active \in Nat
  BY DEF IInv, TypeOK, KeyInv, Enqueue
<1>3. Marked(r) \in Row /\ Marked(r).status = "delivering" /\ Marked(r).attempts = 1
      /\ Marked(r).max = max
  <2> HIDE DEF r
  <2> QED
    BY <1>1, MarkedRow
<1>4. CASE active < limit
  <2>1. /\ row' = [row EXCEPT ![k] = Marked(r)] /\ flight' = [flight EXCEPT ![k] = 1]
        /\ active' = active + 1 /\ UNCHANGED <<limit, purges, crashes>>
    BY <1>4 DEF Enqueue
  <2> HIDE DEF r
  <2>2. TypeOK'
    BY <1>1, <1>2, <1>3, <2>1 DEF IInv, TypeOK
  <2>3. ActiveCounted'
    <3>1. 1 \in Nat \ {0}
      OBVIOUS
    <3> QED
      BY <1>2, <2>1, <3>1, OneMoreInFlight DEF IInv
  <2>4. ASSUME NEW j \in Keys PROVE KeyInv(j)'
    BY <1>1, <1>2, <1>3, <2>1 DEF IInv, KeyInv
  <2> QED
    BY <2>2, <2>3, <2>4 DEF IInv
<1>5. CASE ~(active < limit)
  <2>1. row' = [row EXCEPT ![k] = r]
        /\ UNCHANGED <<flight, active, limit, purges, crashes>>
    BY <1>5 DEF Enqueue
  <2> HIDE DEF r
  <2>2. TypeOK'
    BY <1>1, <1>2, <2>1 DEF IInv, TypeOK
  <2>3. ActiveCounted'
    BY <2>1 DEF IInv, ActiveCounted, InFlight
  <2>4. ASSUME NEW j \in Keys PROVE KeyInv(j)'
    BY <1>1, <1>2, <2>1 DEF IInv, KeyInv
  <2> QED
    BY <2>2, <2>3, <2>4 DEF IInv
<1> QED
  BY <1>4, <1>5

\* The rows a batch takes are at rest.
LEMMA BatchAtRest ==
    ASSUME IInv, NEW batch \in Batches
    PROVE  /\ batch \in SUBSET Keys
           /\ \A k \in batch : /\ row[k].status \in {"pending", "retrying"}
                               /\ flight[k] = 0
<1>1. /\ batch \in SUBSET Keys
      /\ \A k \in batch : row[k].status \in {"pending", "retrying"}
  BY DEF Batches, Retryable
<1> QED
  BY <1>1 DEF IInv, KeyInv

\* A turn of the retry loop.
LEMMA ProcessRetriesInv == ASSUME IInv, ProcessRetries PROVE IInv'
<1>1. PICK batch \in Batches :
          /\ row' = [k \in Keys |-> IF k \in batch THEN Marked(row[k]) ELSE row[k]]
          /\ flight' = [k \in Keys |-> IF k \in batch THEN row[k].attempts + 1
                                                      ELSE flight[k]]
          /\ active' = active + Cardinality(batch)
          /\ UNCHANGED <<limit, purges, crashes>>
  BY DEF ProcessRetries
<1>2. /\ batch \in SUBSET Keys
      /\ \A k \in batch : /\ row[k].status \in {"pending", "retrying"}
                          /\ flight[k] = 0
  BY BatchAtRest
<1>3. \A k \in Keys : row[k] \in Row /\ row[k].attempts \in Nat /\ row[k].max \in Nat
                      /\ flight[k] \in Nat
  <2>1. \A n \in Row : n.attempts \in Nat /\ n.max \in Nat
    <3>1. \A n \in Row : n.attempts \in Nat /\ n.max \in Attempts \cup {0}
      BY DEF Row
    <3>2. Attempts \cup {0} \subseteq Nat
      BY ConfigAssumption
    <3> QED
      BY <3>1, <3>2
  <2>2. row \in [Keys -> Row] /\ flight \in [Keys -> Nat]
    BY DEF IInv, TypeOK
  <2> QED
    BY <2>1, <2>2
<1>4. \A k \in Keys : /\ Marked(row[k]) \in Row
                      /\ Marked(row[k]).status = "delivering"
                      /\ Marked(row[k]).attempts = row[k].attempts + 1
                      /\ Marked(row[k]).max = row[k].max
  BY <1>3, MarkedRow
<1>5. IsFiniteSet(batch) /\ Cardinality(batch) \in Nat
  BY <1>2, KeysAssumption, FS_Subset, FS_CardinalityType
<1>6. TypeOK'
  <2>1. row' \in [Keys -> Row] /\ flight' \in [Keys -> Nat]
    BY <1>1, <1>3, <1>4
  <2>2. \A k \in Keys : row'[k].status # "absent" => row'[k].max \in Attempts
    BY <1>1, <1>2, <1>4 DEF IInv, TypeOK
  <2> QED
    BY <1>1, <1>5, <2>1, <2>2 DEF IInv, TypeOK
<1>7. ActiveCounted'
  <2>1. InFlight' = InFlight \cup batch
    BY <1>1, <1>2, <1>3 DEF InFlight
  <2>2. InFlight \cap batch = {}
    BY <1>2 DEF InFlight
  <2>3. Cardinality(InFlight \cup batch) = Cardinality(InFlight) + Cardinality(batch)
    <3>1. Cardinality(InFlight \cup batch)
            = Cardinality(InFlight) + Cardinality(batch) - Cardinality({})
      BY <1>5, <2>2, InFlightFinite, FS_Union
    <3> QED
      BY <3>1, <1>5, InFlightFinite, FS_EmptySet
  <2> QED
    BY <1>1, <2>1, <2>3 DEF IInv, ActiveCounted
<1>8. ASSUME NEW j \in Keys PROVE KeyInv(j)'
  <2>1. KeyInv(j) /\ row[j].attempts \in Nat /\ row[j].max \in Nat
    BY <1>3 DEF IInv
  <2>2. CASE j \in batch
    BY <1>1, <1>2, <1>4, <2>1, <2>2 DEF KeyInv
  <2>3. CASE j \notin batch
    BY <1>1, <2>1, <2>3 DEF KeyInv
  <2> QED
    BY <2>2, <2>3
<1> QED
  BY <1>6, <1>7, <1>8 DEF IInv

\* The end of a request.
LEMMA AnswerInv ==
    ASSUME IInv, NEW k \in Keys, NEW ok \in BOOLEAN, Answer(k, ok)
    PROVE  IInv'
<1> DEFINE r == IF ok THEN [row[k] EXCEPT !.status = "delivered"]
                      ELSE Failed(row[k], flight[k])
<1>1. /\ row' = [row EXCEPT ![k] = r] /\ flight' = [flight EXCEPT ![k] = 0]
      /\ active' = active - 1 /\ UNCHANGED <<limit, purges, crashes>>
      /\ flight[k] # 0
  BY DEF Answer, Released
<1>2. /\ row \in [Keys -> Row] /\ row[k] \in Row /\ row[k].attempts \in Nat
      /\ row[k].max \in Nat /\ flight[k] \in Nat /\ flight \in [Keys -> Nat]
      /\ row[k].status = "delivering" /\ flight[k] = row[k].attempts
      /\ row[k].max \in Attempts
  BY <1>1, ConfigAssumption DEF IInv, TypeOK, Row, KeyInv
<1>3. /\ r \in Row /\ r.attempts = row[k].attempts /\ r.max = row[k].max
      /\ r.status \in {"delivered", "dead_letter", "retrying"}
      /\ r.status = "retrying" => flight[k] < row[k].max
  <2>1. CASE ok
    BY <1>2, <2>1 DEF Row
  <2>2. CASE ~ok
    BY <1>2, <2>2, FailedRow
  <2> QED
    BY <2>1, <2>2
<1> HIDE DEF r
<1>4. ActiveCounted'
  <2>1. InFlight' = InFlight \ {k}
    BY <1>1, <1>2 DEF InFlight
  <2>2. k \in InFlight
    BY <1>1 DEF InFlight
  <2> QED
    BY <1>1, <2>1, <2>2, InFlightFinite, FS_RemoveElement DEF IInv, ActiveCounted
<1>5. TypeOK'
  <2>1. active' \in Nat
    BY <1>4, InFlightFinite, <1>1, FS_EmptySet DEF ActiveCounted, IInv, TypeOK, InFlight
  <2> QED
    BY <1>1, <1>2, <1>3, <2>1 DEF IInv, TypeOK
<1>6. ASSUME NEW j \in Keys PROVE KeyInv(j)'
  BY <1>1, <1>2, <1>3 DEF IInv, KeyInv
<1> QED
  BY <1>4, <1>5, <1>6 DEF IInv

\* The clock, the purge and the configuration touch no request.
LEMMA BackoffInv ==
    ASSUME IInv, NEW k \in Keys, BackoffElapses(k)
    PROVE  IInv'
<1> DEFINE r == [row[k] EXCEPT !.retry = "due"]
<1>1. row' = [row EXCEPT ![k] = r] /\ UNCHANGED <<flight, active, limit, purges, crashes>>
  BY DEF BackoffElapses
<1>2. /\ row \in [Keys -> Row] /\ r \in Row /\ r.attempts = row[k].attempts
      /\ r.max = row[k].max /\ r.status = row[k].status
  BY DEF IInv, TypeOK, Row
<1> HIDE DEF r
<1>3. TypeOK'
  BY <1>1, <1>2 DEF IInv, TypeOK
<1>4. ActiveCounted'
  BY <1>1 DEF IInv, ActiveCounted, InFlight
<1>5. ASSUME NEW j \in Keys PROVE KeyInv(j)'
  BY <1>1, <1>2 DEF IInv, KeyInv
<1> QED
  BY <1>3, <1>4, <1>5 DEF IInv

LEMMA PurgeInv == ASSUME IInv, NEW k \in Keys, Purge(k) PROVE IInv'
<1>1. /\ row' = [row EXCEPT ![k] = NoRow] /\ UNCHANGED <<flight, active, limit, crashes>>
      /\ purges' = purges + 1 /\ row[k].status = "delivered"
  BY DEF Purge
<1>2. /\ NoRow \in Row /\ NoRow.status = "absent" /\ NoRow.attempts = 0 /\ NoRow.max = 0
      /\ row \in [Keys -> Row] /\ flight[k] = 0
  BY <1>1 DEF IInv, TypeOK, KeyInv, NoRow, Row
<1>3. TypeOK'
  BY <1>1, <1>2 DEF IInv, TypeOK
<1>4. ActiveCounted'
  BY <1>1 DEF IInv, ActiveCounted, InFlight
<1>5. ASSUME NEW j \in Keys PROVE KeyInv(j)'
  BY <1>1, <1>2 DEF IInv, KeyInv
<1> QED
  BY <1>3, <1>4, <1>5 DEF IInv

LEMMA UpdateConfigInv ==
    ASSUME IInv, NEW n \in Concurrency, UpdateConfig(n)
    PROVE  IInv'
  BY DEF IInv, TypeOK, ActiveCounted, InFlight, KeyInv, UpdateConfig

LEMMA CrashInv == ASSUME IInv, Crash PROVE IInv'
<1>1. /\ flight' = [k \in Keys |-> 0] /\ active' = 0 /\ crashes' = crashes + 1
      /\ UNCHANGED <<row, limit, purges>>
  BY DEF Crash
<1>2. InFlight' = {}
  BY <1>1 DEF InFlight
<1>3. ActiveCounted'
  BY <1>1, <1>2, FS_EmptySet DEF ActiveCounted
<1> QED
  BY <1>1, <1>3 DEF IInv, TypeOK, KeyInv

LEMMA NextInv == ASSUME IInv, [Next]_vars PROVE IInv'
<1>1. CASE UNCHANGED vars
  BY <1>1 DEF IInv, TypeOK, ActiveCounted, InFlight, KeyInv, vars
<1> QED
  BY <1>1, EnqueueInv, ProcessRetriesInv, AnswerInv, BackoffInv, PurgeInv,
     UpdateConfigInv, CrashInv DEF Next

LEMMA Invariance == Spec => []IInv
<1> QED
  BY InitInv, NextInv, PTL DEF Spec

-----------------------------------------------------------------------------
\* The table, the requests in flight and the counter keep their types: the counter
\* is never negative.
THEOREM TypeCorrect == Spec => []TypeOK
<1>1. IInv => TypeOK
  BY DEF IInv
<1> QED
  BY <1>1, Invariance, PTL

\* activeDeliveries counts the requests in flight exactly, for every number of
\* events and every change of maxConcurrent under way.
THEOREM DeliveriesCounted == Spec => []ActiveCounted
<1>1. IInv => ActiveCounted
  BY DEF IInv
<1> QED
  BY <1>1, Invariance, PTL

\* No row is sent more often than its maxAttempts allows, whatever crashes.
THEOREM AttemptsAreBounded == Spec => []AttemptsBounded
<1>1. IInv => AttemptsBounded
  BY DEF IInv, KeyInv, AttemptsBounded
<1> QED
  BY <1>1, Invariance, PTL

-----------------------------------------------------------------------------
(***************** every step is one of AtLeastOnce, or none ***************)

Phases == [k \in Keys |-> PhaseOf(k)]

\* A step that leaves the phase of each key but one, k, maps to a move of k.
LEMMA PhaseMove ==
    ASSUME NEW k \in Keys, NEW p, PhaseOf(k)' = p,
           \A j \in Keys \ {k} : PhaseOf(j)' = PhaseOf(j)
    PROVE  Phases' = [Phases EXCEPT ![k] = p]
<1>1. \A j \in Keys : Phases'[j] = IF j = k THEN p ELSE Phases[j]
  BY DEF Phases
<1> QED
  BY <1>1 DEF Phases

\* The phase of a key depends on its row's status and its request alone.
LEMMA PhaseKept ==
    ASSUME NEW j \in Keys, row'[j].status = row[j].status,
           (flight'[j] = 0) <=> (flight[j] = 0)
    PROVE  PhaseOf(j)' = PhaseOf(j)
  BY DEF PhaseOf

LEMMA InitContract == Init => Contract!Init
  BY DEF Init, Contract!Init, PhaseOf, NoRow

\* A key whose row rests is accepted or has no row.
LEMMA PhaseAtRest ==
    ASSUME NEW k \in Keys
    PROVE  /\ row[k].status = "absent" => PhaseOf(k) = "none"
           /\ row[k].status \in {"pending", "retrying"} => PhaseOf(k) = "accepted"
           /\ row[k].status = "delivering" /\ flight[k] # 0 => PhaseOf(k) = "accepted"
           /\ row[k].status = "delivering" /\ flight[k] = 0 => PhaseOf(k) = "lost"
           /\ row[k].status = "delivered" => PhaseOf(k) = "delivered"
           /\ row[k].status = "dead_letter" => PhaseOf(k) = "dead"
  BY DEF PhaseOf

\* A step that moves one key along an edge of AtLeastOnce.
LEMMA MoveStep ==
    ASSUME NEW k \in Keys, NEW p, PhaseOf(k)' = p,
           \A j \in Keys \ {k} : PhaseOf(j)' = PhaseOf(j),
           \/ PhaseOf(k) = "none" /\ p = "accepted"
           \/ PhaseOf(k) = "accepted" /\ p \in {"accepted", "delivered", "dead"}
           \/ PhaseOf(k) = "delivered" /\ p = "none"
    PROVE  Contract!Next \/ Phases' = Phases
<1>1. Phases' = [Phases EXCEPT ![k] = p] /\ Phases[k] = PhaseOf(k)
  BY PhaseMove DEF Phases
<1>2. CASE p = PhaseOf(k)
  BY <1>1, <1>2 DEF Phases
<1>3. CASE p # PhaseOf(k)
  BY <1>1, <1>3 DEF Contract!Next, Contract!Accept, Contract!Deliver, Contract!GiveUp,
                    Contract!Forget, Contract!Move, Phases
<1> QED
  BY <1>2, <1>3

LEMMA StillStep ==
    ASSUME \A j \in Keys : PhaseOf(j)' = PhaseOf(j)
    PROVE  Phases' = Phases
  BY DEF Phases

\* Every step of the engine is a step of AtLeastOnce or changes no phase.
LEMMA NextContract == ASSUME IInv, [Next]_vars PROVE Contract!Next \/ Phases' = Phases
<1>1. CASE UNCHANGED vars
  BY <1>1 DEF vars, Phases, PhaseOf
<1>2. ASSUME NEW k \in Keys, NEW max \in Attempts, Enqueue(k, max)
      PROVE  Contract!Next \/ Phases' = Phases
  <2>1. row[k].status = "absent" /\ row \in [Keys -> Row] /\ flight \in [Keys -> Nat]
    BY <1>2 DEF Enqueue, IInv, TypeOK
  <2>2. \A j \in Keys \ {k} : row'[j] = row[j] /\ flight'[j] = flight[j]
    BY <1>2, <2>1 DEF Enqueue
  <2>3. \A j \in Keys \ {k} : PhaseOf(j)' = PhaseOf(j)
    BY <2>2, PhaseKept
  <2>4. \/ row'[k].status = "pending"
        \/ row'[k].status = "delivering" /\ flight'[k] = 1
    <3> DEFINE r == [NoRow EXCEPT !.status = "pending", !.max = max]
    <3>1. r.status = "pending" /\ Marked(r).status = "delivering"
      BY FreshRow DEF Marked
    <3>2. \/ row' = [row EXCEPT ![k] = r]
          \/ row' = [row EXCEPT ![k] = Marked(r)] /\ flight' = [flight EXCEPT ![k] = 1]
      BY <1>2 DEF Enqueue
    <3> HIDE DEF r
    <3> QED
      BY <2>1, <3>1, <3>2
  <2>5. PhaseOf(k)' = "accepted"
    BY <2>4 DEF PhaseOf
  <2> QED
    BY <2>1, <2>3, <2>5, PhaseAtRest, MoveStep
<1>3. ASSUME ProcessRetries
      PROVE  Contract!Next \/ Phases' = Phases
  <2>1. PICK batch \in Batches :
            /\ row' = [k \in Keys |-> IF k \in batch THEN Marked(row[k]) ELSE row[k]]
            /\ flight' = [k \in Keys |-> IF k \in batch THEN row[k].attempts + 1
                                                        ELSE flight[k]]
    BY <1>3 DEF ProcessRetries
  <2>2. \A k \in batch : row[k].status \in {"pending", "retrying"}
    BY BatchAtRest
  <2>3. ASSUME NEW j \in Keys PROVE PhaseOf(j)' = PhaseOf(j)
    <3>1. row[j].attempts \in Nat
      BY DEF IInv, TypeOK, Row
    <3>2. CASE j \in batch
      <4>1. row'[j].status = "delivering" /\ flight'[j] # 0
        BY <2>1, <3>1, <3>2 DEF Marked
      <4>2. PhaseOf(j)' = "accepted"
        BY <4>1 DEF PhaseOf
      <4> QED
        BY <2>2, <3>2, <4>2, PhaseAtRest
    <3>3. CASE j \notin batch
      <4>1. row'[j] = row[j] /\ flight'[j] = flight[j]
        BY <2>1, <3>3
      <4> QED
        BY <4>1, PhaseKept
    <3> QED
      BY <3>2, <3>3
  <2> QED
    BY <2>3, StillStep
<1>4. ASSUME NEW k \in Keys, NEW ok \in BOOLEAN, Answer(k, ok)
      PROVE  Contract!Next \/ Phases' = Phases
  <2>1. /\ row[k].status = "delivering" /\ flight[k] # 0
        /\ row \in [Keys -> Row] /\ flight \in [Keys -> Nat]
    BY <1>4 DEF Answer, IInv, TypeOK, KeyInv
  <2>2. \A j \in Keys \ {k} : row'[j] = row[j] /\ flight'[j] = flight[j]
    BY <1>4, <2>1 DEF Answer
  <2>3. \A j \in Keys \ {k} : PhaseOf(j)' = PhaseOf(j)
    BY <2>2, PhaseKept
  <2>4. row'[k].status \in {"delivered", "dead_letter", "retrying"}
    <3>1. CASE ok
      <4>1. row' = [row EXCEPT ![k] = [row[k] EXCEPT !.status = "delivered"]]
        BY <1>4, <3>1 DEF Answer
      <4> QED
        BY <2>1, <4>1 DEF Row
    <3>2. CASE ~ok
      <4>1. row' = [row EXCEPT ![k] = Failed(row[k], flight[k])]
        BY <1>4, <3>2 DEF Answer
      <4> QED
        BY <2>1, <4>1, FailedRow
    <3> QED
      BY <3>1, <3>2
  <2>5. PhaseOf(k)' \in {"accepted", "delivered", "dead"}
    BY <2>4 DEF PhaseOf
  <2> QED
    BY <2>1, <2>3, <2>5, PhaseAtRest, MoveStep
<1>5. ASSUME NEW k \in Keys, BackoffElapses(k)
      PROVE  Contract!Next \/ Phases' = Phases
  <2>1. \A j \in Keys : row'[j].status = row[j].status /\ flight'[j] = flight[j]
    BY <1>5 DEF BackoffElapses, IInv, TypeOK, Row
  <2> QED
    BY <2>1, PhaseKept, StillStep
<1>6. ASSUME NEW k \in Keys, Purge(k)
      PROVE  Contract!Next \/ Phases' = Phases
  <2>1. /\ row[k].status = "delivered" /\ row'[k] = NoRow
        /\ \A j \in Keys \ {k} : row'[j] = row[j] /\ flight'[j] = flight[j]
    BY <1>6 DEF Purge, IInv, TypeOK
  <2>2. \A j \in Keys \ {k} : PhaseOf(j)' = PhaseOf(j)
    BY <2>1, PhaseKept
  <2>3. PhaseOf(k)' = "none"
    BY <2>1 DEF PhaseOf, NoRow
  <2> QED
    BY <2>1, <2>2, <2>3, PhaseAtRest, MoveStep
<1>7. ASSUME NEW n \in Concurrency, UpdateConfig(n)
      PROVE  Contract!Next \/ Phases' = Phases
  BY <1>7, StillStep, PhaseKept DEF UpdateConfig
<1>8. ASSUME Crash
      PROVE  Contract!Next \/ Phases' = Phases
  <2>1. row' = row /\ flight' = [k \in Keys |-> 0]
    BY <1>8 DEF Crash
  <2>2. \A k \in InFlight : k \in Keys /\ row[k].status = "delivering" /\ flight[k] # 0
    BY DEF InFlight, IInv, KeyInv
  <2>3. \A k \in InFlight : PhaseOf(k) = "accepted"
    BY <2>2, PhaseAtRest
  <2>4. \A k \in InFlight : PhaseOf(k)' = "lost"
    BY <2>1, <2>2 DEF PhaseOf
  <2>5. \A k \in Keys \ InFlight : PhaseOf(k)' = PhaseOf(k)
    BY <2>1, PhaseKept DEF InFlight
  <2>6. InFlight \in SUBSET {k \in Keys : Phases[k] = "accepted"}
    BY <2>2, <2>3 DEF Phases
  <2>7. Phases' = [k \in Keys |-> IF k \in InFlight THEN "lost" ELSE Phases[k]]
    BY <2>4, <2>5 DEF Phases
  <2>8. Contract!Lose
    BY <2>6, <2>7 DEF Contract!Lose, Phases
  <2> QED
    BY <2>8 DEF Contract!Next
<1> QED
  BY <1>1, <1>2, <1>3, <1>4, <1>5, <1>6, <1>7, <1>8 DEF Next

\* The engine is an at-least-once delivery up to what a crash strands: the phases
\* of all events together only ever move as AtLeastOnce allows (that accepted
\* events settle is checked by TLC).
THEOREM KeepsContract ==
    Spec => Contract!Init /\ [][Contract!Next]_([k \in Keys |-> PhaseOf(k)])
<1>1. IInv /\ [Next]_vars => [Contract!Next]_([k \in Keys |-> PhaseOf(k)])
  BY NextContract DEF Phases
<1> QED
  BY <1>1, InitContract, Invariance, PTL DEF Spec
=============================================================================
