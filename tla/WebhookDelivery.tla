--------------------------- MODULE WebhookDelivery ---------------------------
(***************************************************************************)
(* The webhook delivery engine (WebhookDeliveryManager): rows of the table *)
(* webhook_events, the deliveries in flight, the retry loop, the hourly    *)
(* purge, and a process that dies with deliveries in flight.               *)
(*                                                                         *)
(* An event is named by its idempotency key.  Whatever runs up to the      *)
(* await of fetch is one action, so a row is marked "delivering" in the    *)
(* same turn in which the loop selected it.                                *)
(***************************************************************************)
EXTENDS Integers, FiniteSets

CONSTANTS
    Keys,        \* idempotency keys, those of replayed events included
    Attempts,    \* values of maxAttempts in use (5 by default, any number by PATCH)
    Concurrency, \* values of config.maxConcurrent in use (10 by default)
    MaxPurges, MaxCrashes   \* bounds: rows purged, crashes that TLC explores

ASSUME ConfigAssumption ==
    /\ Attempts \subseteq Nat /\ Concurrency \subseteq Nat
    /\ MaxPurges \in Nat /\ MaxCrashes \in Nat
ASSUME KeysAssumption == IsFiniteSet(Keys)

VARIABLES
    row,      \* webhook_events
    flight,   \* the attempt number of the request in flight, 0 for none
    active,   \* activeDeliveries
    limit,    \* config.maxConcurrent
    purges, crashes
vars == <<row, flight, active, limit, purges, crashes>>

\* retry: next_retry_at is NULL, in the future, or due.
Row == [status : {"absent", "pending", "delivering", "delivered", "retrying",
                  "dead_letter"},
        attempts : Nat, max : Attempts \cup {0}, retry : {"none", "waiting", "due"}]
NoRow == [status |-> "absent", attempts |-> 0, max |-> 0, retry |-> "none"]

TypeOK ==
    /\ row \in [Keys -> Row] /\ flight \in [Keys -> Nat]
    /\ \A k \in Keys : row[k].status # "absent" => row[k].max \in Attempts
    /\ active \in Nat /\ limit \in Concurrency
    /\ purges \in Nat /\ crashes \in Nat

Init ==
    /\ row = [k \in Keys |-> NoRow] /\ flight = [k \in Keys |-> 0]
    /\ active = 0 /\ limit \in Concurrency
    /\ purges = 0 /\ crashes = 0

InFlight == {k \in Keys : flight[k] # 0}

-----------------------------------------------------------------------------
\* Mutant: the row keeps its status until the answer is there.
CountedOnly(r) == [r EXCEPT !.attempts = @ + 1]
\* UPDATE ... SET status = 'delivering', attempts = attempts + 1
Marked(r) == [status |-> "delivering", attempts |-> r.attempts + 1, max |-> r.max,
              retry |-> r.retry]

\* Mutant: next_retry_at alone decides (a delivered row still has one).
DueByTime(r) == r.retry = "due"
Retryable(r) == r.status = "retrying" /\ r.retry = "due"

\* POST /webhooks/deliver, /webhooks/incoming, .../replay: enqueue.  A key that
\* is in the table returns its row and changes nothing.  deliverAsync sends at
\* once if there is room.
Enqueue(k, max) ==
    LET r == [NoRow EXCEPT !.status = "pending", !.max = max] IN
    /\ row[k].status = "absent"
    /\ IF active < limit
       THEN /\ row' = [row EXCEPT ![k] = Marked(r)]
            /\ flight' = [flight EXCEPT ![k] = 1]
            /\ active' = active + 1
       ELSE /\ row' = [row EXCEPT ![k] = r]
            /\ UNCHANGED <<flight, active>>
    /\ UNCHANGED <<limit, purges, crashes>>

\* The rows a turn of the loop takes: as many as there is room for, those due for
\* a retry before those that are pending (which of them come first is left open).
Batches ==
    LET due     == {k \in Keys : Retryable(row[k])}
        waiting == {k \in Keys : row[k].status = "pending"}
    IN  {b \in SUBSET (due \cup waiting) :
            /\ Cardinality(b) <= limit - active
            /\ b \cap waiting # {} => due \subseteq b
            /\ b # due \cup waiting => Cardinality(b) = limit - active}

\* processRetries, every 5 s.
ProcessRetries ==
    \E batch \in Batches :
        /\ batch # {}
        /\ row' = [k \in Keys |-> IF k \in batch THEN Marked(row[k]) ELSE row[k]]
        /\ flight' = [k \in Keys |-> IF k \in batch THEN row[k].attempts + 1
                                                    ELSE flight[k]]
        /\ active' = active + Cardinality(batch)
        /\ UNCHANGED <<limit, purges, crashes>>

\* Mutant: one attempt too many.
FailedOnceMore(r, attempt) ==
    IF attempt > r.max
    THEN [r EXCEPT !.status = "dead_letter", !.retry = "none"]
    ELSE [r EXCEPT !.status = "retrying", !.retry = "waiting"]
Failed(r, attempt) ==
    IF attempt >= r.max
    THEN [r EXCEPT !.status = "dead_letter", !.retry = "none"]
    ELSE [r EXCEPT !.status = "retrying", !.retry = "waiting"]

\* Mutant: a failure gives its place back twice.
ReleasedTwice(ok) == active' = IF ok THEN active - 1 ELSE active - 2
Released(ok) == active' = active - 1

\* The target answers, or the 30 s timeout or the network ends the request.
Answer(k, ok) ==
    /\ flight[k] # 0
    /\ row' = [row EXCEPT ![k] = IF ok THEN [@ EXCEPT !.status = "delivered"]
                                       ELSE Failed(@, flight[k])]
    /\ flight' = [flight EXCEPT ![k] = 0]
    /\ Released(ok)
    /\ UNCHANGED <<limit, purges, crashes>>

\* next_retry_at comes to pass.
BackoffElapses(k) ==
    /\ row[k].retry = "waiting"
    /\ row' = [row EXCEPT ![k].retry = "due"]
    /\ UNCHANGED <<flight, active, limit, purges, crashes>>

\* purgeExpired of a delivered row past its TTL; its key may be used again.
Purge(k) ==
    /\ row[k].status = "delivered" /\ purges < MaxPurges
    /\ row' = [row EXCEPT ![k] = NoRow]
    /\ purges' = purges + 1
    /\ UNCHANGED <<flight, active, limit, crashes>>

\* PATCH /webhooks/config
UpdateConfig(n) ==
    /\ n # limit /\ limit' = n
    /\ UNCHANGED <<row, flight, active, purges, crashes>>

\* The process dies and starts again: the rows stay, the requests are gone.
Crash ==
    /\ crashes < MaxCrashes /\ crashes' = crashes + 1
    /\ flight' = [k \in Keys |-> 0] /\ active' = 0
    /\ UNCHANGED <<row, limit, purges>>

Next ==
    \/ \E k \in Keys, max \in Attempts : Enqueue(k, max)
    \/ ProcessRetries
    \/ \E k \in Keys, ok \in BOOLEAN : Answer(k, ok)
    \/ \E k \in Keys : BackoffElapses(k) \/ Purge(k)
    \/ \E n \in Concurrency : UpdateConfig(n)
    \/ Crash

Spec == Init /\ [][Next]_vars

\* The timer of the loop and the clock go on, every request ends by its timeout.
\* Callers and targets owe nothing.
FairSpec ==
    /\ Spec /\ WF_vars(ProcessRetries)
    /\ \A k \in Keys : /\ WF_vars(\E ok \in BOOLEAN : Answer(k, ok))
                       /\ WF_vars(BackoffElapses(k))

-----------------------------------------------------------------------------
(******************************* properties *******************************)

\* activeDeliveries is the number of requests in flight: no event is sent twice at
\* a time, and no place is lost however requests end (a place that is lost would
\* in the end stop all deliveries).
ActiveCounted == active = Cardinality(InFlight)

\* A row is sent at most maxAttempts times (once where that is 0), also across
\* crashes, and a request in flight belongs to the attempt its row is at.
AttemptsBounded ==
    \A k \in Keys :
        /\ row[k].attempts <= row[k].max \/ row[k].attempts = 1
        /\ flight[k] # 0 => /\ row[k].status = "delivering"
                            /\ flight[k] = row[k].attempts

PhaseOf(k) ==
    CASE row[k].status = "absent" -> "none"
      [] row[k].status = "delivered" -> "delivered"
      [] row[k].status = "dead_letter" -> "dead"
      [] row[k].status = "delivering" /\ flight[k] = 0 -> "lost"
      [] OTHER -> "accepted"
Contract == INSTANCE AtLeastOnce WITH phase <- [k \in Keys |-> PhaseOf(k)]

\* The engine implements at-least-once delivery up to the events a crash strands:
\* an accepted event settles whatever the order of answers, retries, purges and
\* changes of the configuration, a verdict is final, and what is pending or waits
\* for a retry survives a crash.
ContractSpec == Contract!Spec

-----------------------------------------------------------------------------
\* "durable, at-least-once delivery": every event that enqueue has accepted is
\* delivered or lands in the dead letter queue (one that was "delivering" when the
\* process died is never looked at again).
EveryEventSettles ==
    \A k \in Keys : row[k].status # "absent" ~>
                        row[k].status \in {"absent", "delivered", "dead_letter"}
=============================================================================
