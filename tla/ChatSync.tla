------------------------------- MODULE ChatSync -------------------------------
(***************************************************************************)
(* The chat sync of a node with the cloud (requestChatSync and syncChat in *)
(* src/cloud.ts): a cursor walks over the chat_messages table, what lies   *)
(* behind it is sent page by page, and messages of dashboard users come    *)
(* back in the answers.                                                    *)
(*                                                                         *)
(* sendMessage (src/chat.ts) stamps with times that only grow, so that the *)
(* table is a sequence.  The window in which no sync may start (the least  *)
(* interval, or the backoff) is open or over; how long it is does not      *)
(* matter here.                                                            *)
(***************************************************************************)
EXTENDS Integers, Sequences, FiniteSets

CONSTANTS
    Limit,       \* messages per page (100)
    Window,      \* how far back a starting process looks (60 s)
    MaxTime, MaxMessages, MaxRelayed, MaxRestarts   \* bounds: clock, messages
                 \* of the node, messages from the cloud, restarts

ASSUME NumbersAssumption ==
    /\ Limit \in Nat \ {0}
    /\ {Window, MaxTime, MaxMessages, MaxRelayed, MaxRestarts} \subseteq Nat

VARIABLES
    log,         \* chat_messages: when, and whether it came from the cloud
    cursor,      \* chatSyncCursor
    phase,       \* of the sync that runs (chatSyncInFlight: not "idle")
    batch,       \* the messages it sent
    pending,     \* messages of its answer it has not relayed yet
    queued,      \* chatSyncQueued
    waiting,     \* the clock is before chatSyncNextAllowedAt
    timer,       \* chatSyncTimerRef is set
    debounce,    \* chatSyncDebounce is set
    received,    \* the messages the cloud has
    floor,       \* ghost: the cursor this process started with
    restarts, now

vars == <<log, cursor, phase, batch, pending, queued, waiting, timer, debounce,
          received, floor, restarts, now>>

Message == [at : Int, relayed : BOOLEAN]
Local == {i \in DOMAIN log : ~log[i].relayed}

Init ==
    /\ log = <<>> /\ cursor = -Window /\ floor = -Window
    /\ phase = "idle" /\ batch = {} /\ pending = 0
    /\ queued = FALSE /\ waiting = FALSE /\ timer = FALSE /\ debounce = FALSE
    /\ received = {} /\ restarts = 0 /\ now = 0

-----------------------------------------------------------------------------
(* sendMessage: a new time, later than every other; subscribers arm the debounce. *)
NextTime ==
    IF log # <<>> /\ log[Len(log)].at >= now THEN log[Len(log)].at + 1 ELSE now
Store(relayed) ==
    /\ log' = Append(log, [at |-> NextTime, relayed |-> relayed])
    /\ debounce' = TRUE

Send ==
    /\ Cardinality(Local) < MaxMessages /\ Store(FALSE)
    /\ UNCHANGED <<cursor, phase, batch, pending, queued, waiting, timer,
                   received, floor, restarts, now>>

-----------------------------------------------------------------------------
(* requestChatSync and syncChat. *)

\* getMessages after the cursor, oldest first.
Behind == {i \in DOMAIN log : log[i].at > cursor}
\* Mutant: the newest messages of those, as getMessages does by default.
NewestPage == {i \in Behind : \A j \in Behind : j - i < Limit}
Page == {i \in Behind : \A j \in Behind : i - j < Limit}

\* Mutant: what the cloud has sent goes back to it.
Echoed == Page
Outgoing == Page \cap Local

\* armed: the timer of an earlier request is still set.
Request(armed) ==
    \/ phase # "idle" /\ queued' = TRUE /\ timer' = armed /\ UNCHANGED <<phase, batch>>
    \/ phase = "idle" /\ waiting /\ timer' = TRUE /\ UNCHANGED <<phase, batch, queued>>
    \/ /\ phase = "idle" /\ ~waiting /\ phase' = "post" /\ batch' = Outgoing
       /\ timer' = armed /\ UNCHANGED queued

\* The interval, the debounced event and the timer of an earlier request.
Poll ==
    /\ Request(timer)
    /\ UNCHANGED <<log, cursor, pending, waiting, debounce, received, floor, restarts, now>>
Event ==
    /\ debounce /\ debounce' = FALSE /\ Request(timer)
    /\ UNCHANGED <<log, cursor, pending, waiting, received, floor, restarts, now>>
Fire ==
    /\ timer /\ Request(FALSE)
    /\ UNCHANGED <<log, cursor, pending, waiting, debounce, received, floor, restarts, now>>

\* The end of a sync: a request that came meanwhile finds the window open.
Finish ==
    /\ phase' = "idle" /\ batch' = {} /\ queued' = FALSE /\ waiting' = TRUE
    /\ timer' = (timer \/ queued)

\* Mutant: the cursor is set to the time of the answer.
MovedToNow(page) == cursor' = now
MoveTo(page) == IF page = {} THEN cursor' = cursor
                ELSE \E last \in page : /\ \A i \in page : i <= last
                                        /\ cursor' = log[last].at

Succeed(relayed) ==
    /\ phase = "post" /\ MoveTo(batch) /\ received' = received \cup batch
    /\ Cardinality(DOMAIN log \ Local) + relayed <= MaxRelayed
    /\ pending' = relayed
    /\ IF relayed = 0 THEN Finish
       ELSE /\ phase' = "relay" /\ batch' = {} /\ waiting' = TRUE
            /\ UNCHANGED <<queued, timer>>
    /\ UNCHANGED <<log, debounce, floor, restarts, now>>

\* No answer, or an error; the cloud may have the messages all the same.
Fail(arrived) ==
    /\ phase = "post"
    /\ received' = IF arrived THEN received \cup batch ELSE received
    /\ Finish
    /\ UNCHANGED <<log, cursor, pending, debounce, floor, restarts, now>>

\* One message of the answer goes into the chat, or is refused there.
Relay(taken) ==
    /\ phase = "relay" /\ pending' = pending - 1
    /\ IF taken THEN Store(TRUE) ELSE UNCHANGED <<log, debounce>>
    /\ IF pending = 1 THEN Finish ELSE UNCHANGED <<phase, batch, queued, waiting, timer>>
    /\ UNCHANGED <<cursor, received, floor, restarts, now>>

WindowEnds ==
    /\ waiting /\ waiting' = FALSE
    /\ UNCHANGED <<log, cursor, phase, batch, pending, queued, timer, debounce,
                   received, floor, restarts, now>>

Tick ==
    /\ now < MaxTime /\ now' = now + 1
    /\ UNCHANGED <<log, cursor, phase, batch, pending, queued, waiting, timer,
                   debounce, received, floor, restarts>>

\* The process dies at any point; the next one starts from a minute ago.
Restart ==
    /\ restarts < MaxRestarts /\ restarts' = restarts + 1
    /\ cursor' = now - Window /\ floor' = now - Window
    /\ phase' = "idle" /\ batch' = {} /\ pending' = 0
    /\ queued' = FALSE /\ waiting' = FALSE /\ timer' = FALSE /\ debounce' = FALSE
    /\ UNCHANGED <<log, received, now>>

Next ==
    \/ Send \/ Poll \/ Event \/ Fire \/ WindowEnds \/ Tick \/ Restart
    \/ \E relayed \in 0 .. MaxRelayed : Succeed(relayed)
    \/ \E arrived \in BOOLEAN : Fail(arrived)
    \/ \E taken \in BOOLEAN : Relay(taken)

Spec == Init /\ [][Next]_vars

\* The interval never stops, the window of a failure ends, requests end, and a cloud
\* that is asked again and again answers in the end.
FairSpec ==
    /\ Spec /\ WF_vars(Poll) /\ WF_vars(WindowEnds)
    /\ WF_vars(\E arrived \in BOOLEAN : Fail(arrived))
    /\ WF_vars(\E taken \in BOOLEAN : Relay(taken))
    /\ SF_vars(\E relayed \in 0 .. MaxRelayed : Succeed(relayed))

-----------------------------------------------------------------------------
(******************************* properties *******************************)
TypeOK ==
    /\ log \in Seq(Message) /\ cursor \in Int /\ floor \in Int
    /\ phase \in {"idle", "post", "relay"} /\ pending \in 0 .. MaxRelayed
    /\ pending > 0 <=> phase = "relay"
    /\ batch \subseteq Local /\ (batch # {} => phase = "post")
    /\ queued \in BOOLEAN /\ waiting \in BOOLEAN
    /\ timer \in BOOLEAN /\ debounce \in BOOLEAN
    /\ queued => phase # "idle"
    /\ received \subseteq Local
    /\ restarts \in 0 .. MaxRestarts /\ now \in 0 .. MaxTime

\* "the cursor walks forward through ALL messages without skipping": whatever is
\* stored while a page is on its way, however the clock stands, and whether the
\* answer is lost or not, the cloud has all that lies behind the cursor, but for
\* what is older than the cursor the process started with.
NoneSkipped ==
    \A i \in Local : floor < log[i].at /\ log[i].at <= cursor => i \in received

\* A full page of messages that all came from the cloud: nothing of it is sent, and
\* so the cursor stays where it is.
Stuck == Cardinality(Page) = Limit /\ Outgoing = {}
GivenUp(i) == i \in DOMAIN log /\ log[i].at <= floor

\* Every message reaches the cloud, through failures, backoff and messages that
\* come while a sync is running, unless a restart gave it up or the process is
\* stuck for good behind a page of messages from the cloud.
AllArrive ==
    \A i \in 1 .. MaxMessages + MaxRelayed :
        i \in Local ~> i \in received \/ GivenUp(i) \/ []Stuck

-----------------------------------------------------------------------------
(* What a comment says and the code does not do.                            *)

\* "so the cursor walks forward through ALL messages without skipping": behind a
\* page of messages from the cloud it stays, and none after them is ever sent.
WalksThroughAll ==
    \A i \in 1 .. MaxMessages + MaxRelayed :
        i \in Local ~> i \in received \/ GivenUp(i)
=============================================================================
