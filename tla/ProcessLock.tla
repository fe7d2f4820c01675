------------------------------ MODULE ProcessLock ------------------------------
(***************************************************************************)
(* The PID lockfile (acquirePidLock, releasePidLock) and the life of the   *)
(* processes that use it (main of index.ts), on one host.                  *)
(*                                                                         *)
(* A process is named by its PID, which may be used again once it is dead. *)
(* Every file and signal operation is a step: other processes run between  *)
(* them.  The operating system is modelled as far as the code relies on    *)
(* it: signals, the liveness of a PID, one listener per port.  The code    *)
(* logs it when a file cannot be read or written, when lsof fails, and     *)
(* when a process cannot be killed, and goes on: each is an outcome of its *)
(* step, and mishaps remembers what the promises do not cover.             *)
(***************************************************************************)

CONSTANTS
    Pids,
    NoPid      \* no lockfile (or none that parses), nobody listens, nothing to kill

ASSUME LockAssumption == NoPid \notin Pids

VARIABLES
    pc,      \* where main is: off, read, kill, scan, clear, write, boot, serving
    lock,    \* the PID in the lockfile
    port,    \* who listens on the configured port
    victim,  \* whom killProcess is waiting for
    term,    \* processes with a SIGTERM to take
    exiting, \* how far releasing and leaving is: no, read, unlink, done
    seen,    \* the PID that releasePidLock has read
    mishaps  \* what has gone wrong since a process was alone on the host
vars == <<pc, lock, port, victim, term, exiting, seen, mishaps>>

\* Two starts at a time; a start went on past the live process of the lockfile, or
\* past the one on the port; the lockfile was not written; a process serves that
\* neither the lockfile nor the port leads to.
Mishap == {"overlap", "lockSpared", "portSpared", "unwritten", "hidden"}
Notice(what, happened) == mishaps' = IF happened THEN mishaps \cup {what} ELSE mishaps

Starting == {"read", "kill", "scan", "clear", "write", "boot"}
Where    == {"off", "serving"} \cup Starting
Stage    == {"no", "read", "unlink", "done"}
Alive    == {p \in Pids : pc[p] # "off"}
Serving  == {p \in Pids : pc[p] = "serving" /\ exiting[p] = "no"}

TypeOK ==
    /\ pc \in [Pids -> Where] /\ exiting \in [Pids -> Stage]
    /\ lock \in Pids \cup {NoPid} /\ port \in Alive \cup {NoPid}
    /\ victim \in [Pids -> Pids \cup {NoPid}] /\ seen \in [Pids -> Pids \cup {NoPid}]
    /\ term \subseteq Alive /\ mishaps \subseteq Mishap
    /\ \A p \in Pids : /\ pc[p] \in {"kill", "clear"} <=> victim[p] # NoPid
                       /\ exiting[p] # "no" => pc[p] \in {"boot", "serving"}

Init ==
    /\ pc = [p \in Pids |-> "off"] /\ exiting = [p \in Pids |-> "no"]
    /\ lock \in Pids \cup {NoPid}    \* a crash may have left any
    /\ port = NoPid /\ term = {} /\ mishaps = {}
    /\ victim = [p \in Pids |-> NoPid] /\ seen = [p \in Pids |-> NoPid]

\* The process ends, whatever it was doing; its port is free.
Die(p) ==
    /\ pc' = [pc EXCEPT ![p] = "off"] /\ exiting' = [exiting EXCEPT ![p] = "no"]
    /\ victim' = [victim EXCEPT ![p] = NoPid] /\ seen' = [seen EXCEPT ![p] = NoPid]
    /\ port' = IF port = p THEN NoPid ELSE port
    /\ term' = term \ {p}
    /\ mishaps' = IF Alive = {p} THEN {} ELSE mishaps

-----------------------------------------------------------------------------
(***************************** acquirePidLock ******************************)

Start(p) ==
    /\ pc[p] = "off"
    /\ pc' = [pc EXCEPT ![p] = "read"]
    /\ Notice("overlap", \E q \in Pids : pc[q] \in Starting /\ exiting[q] = "no")
    /\ UNCHANGED <<lock, port, victim, term, exiting, seen>>

\* Send SIGTERM to q and wait for its end.
Kill(p, q, waiting) ==
    /\ q \in Alive
    /\ pc' = [pc EXCEPT ![p] = waiting] /\ victim' = [victim EXCEPT ![p] = q]
    /\ term' = term \cup {q}
    /\ UNCHANGED <<lock, port, exiting, seen, mishaps>>
\* Go on: q is not alive, or could not be found or signalled.
Pass(p, q, next, mishap) ==
    /\ pc' = [pc EXCEPT ![p] = next]
    /\ Notice(mishap, q \in Alive)
    /\ UNCHANGED <<lock, port, victim, term, exiting, seen>>

PortHolder(p) == IF port = p THEN NoPid ELSE port
ReadLock(p) ==
    /\ pc[p] = "read"
    /\ Kill(p, lock, "kill") \/ Pass(p, lock, "scan", "lockSpared")
ScanPort(p) ==
    /\ pc[p] = "scan"
    /\ Kill(p, PortHolder(p), "clear") \/ Pass(p, PortHolder(p), "write", "portSpared")

Step(p) == pc' = [pc EXCEPT ![p] = IF @ = "kill" THEN "scan" ELSE "write"]
VictimGone(p) ==
    /\ pc[p] \in {"kill", "clear"} /\ victim[p] \notin Alive
    /\ Step(p) /\ victim' = [victim EXCEPT ![p] = NoPid]
    /\ UNCHANGED <<lock, port, term, exiting, seen, mishaps>>

GoOn(p) ==
    /\ Step(p) /\ victim' = [victim EXCEPT ![p] = NoPid]
    /\ UNCHANGED <<port, term, exiting, seen>>
\* Mutant: the wait is given up without SIGKILL.
GivesUp(p) == GoOn(p) /\ UNCHANGED mishaps
\* Mutant: no deadline for SIGTERM.
WaitsForever(p) == FALSE /\ Die(victim[p])
\* SIGKILL once the three seconds are over; it may be refused, or not be served
\* within the second that is waited for it.
Escalate(p) ==
    \/ Die(victim[p])
    \/ GoOn(p) /\ Notice(IF pc[p] = "kill" THEN "lockSpared" ELSE "portSpared", TRUE)
ForceKill(p) ==
    /\ pc[p] \in {"kill", "clear"} /\ victim[p] \in Alive
    /\ Escalate(p)
    /\ UNCHANGED lock

\* A write that fails leaves the old file or an empty one.
WriteLock(p) ==
    /\ pc[p] = "write" /\ pc' = [pc EXCEPT ![p] = "boot"]
    /\ \/ lock' = p /\ UNCHANGED mishaps
       \/ lock' \in {lock, NoPid} /\ Notice("unwritten", lock' # p)
    /\ UNCHANGED <<port, victim, term, exiting, seen>>

\* createServer and listen; a port in use sends it to a fallback port.
Listen(p) ==
    /\ pc[p] = "boot" /\ pc' = [pc EXCEPT ![p] = "serving"]
    /\ port' = IF port = NoPid THEN p ELSE port
    /\ Notice("hidden", port' # p /\ lock # p)
    /\ UNCHANGED <<lock, victim, term, exiting, seen>>

-----------------------------------------------------------------------------
(************************* releasePidLock and exits ************************)

\* Mutant: the handlers are installed before the lock is acquired.
InstalledFirst(p) == pc[p] # "off"
Installed(p) == pc[p] \in {"boot", "serving"}

\* fatal: from the moment the lock is written; it releases, and leaves a second
\* later (main goes on meanwhile, and may fail again).  Also the catch of main.
Fatal(p) ==
    /\ Installed(p) /\ exiting[p] \in {"no", "done"}
    /\ exiting' = [exiting EXCEPT ![p] = "read"]
    /\ UNCHANGED <<pc, lock, port, victim, term, seen, mishaps>>

\* A SIGTERM is taken: shutdown, once main has come to install it.
TakeTerm(p) ==
    /\ p \in term
    /\ IF pc[p] = "serving"
       THEN /\ exiting' = [exiting EXCEPT ![p] = IF @ = "no" THEN "read" ELSE @]
            /\ term' = term \ {p} /\ UNCHANGED <<pc, port, victim, seen, mishaps>>
       ELSE Die(p)
    /\ UNCHANGED lock

\* A file that cannot be read stays, as one does that cannot be removed.
ReadOwner(p) ==
    /\ exiting[p] = "read" /\ exiting' = [exiting EXCEPT ![p] = "unlink"]
    /\ \E got \in {lock, NoPid} : seen' = [seen EXCEPT ![p] = got]
    /\ UNCHANGED <<pc, lock, port, victim, term, mishaps>>

\* Mutant: the lockfile is removed whoever it names.
RemoveAny(p) == lock' = NoPid
RemoveOwn(p) == lock' = IF seen[p] = p THEN NoPid ELSE lock
Unlink(p) ==
    /\ exiting[p] = "unlink" /\ exiting' = [exiting EXCEPT ![p] = "done"]
    /\ RemoveOwn(p)
    /\ seen' = [seen EXCEPT ![p] = NoPid]
    /\ UNCHANGED <<pc, port, victim, term, mishaps>>

Exit(p) == exiting[p] = "done" /\ Die(p) /\ UNCHANGED lock

\* Killed from outside (out of memory, power): nothing is released.
Crash(p) == pc[p] # "off" /\ Die(p) /\ UNCHANGED lock

Next == \E p \in Pids :
    \/ Start(p) \/ ReadLock(p) \/ ScanPort(p) \/ VictimGone(p) \/ ForceKill(p)
    \/ WriteLock(p) \/ Listen(p)
    \/ Fatal(p) \/ TakeTerm(p) \/ ReadOwner(p) \/ Unlink(p) \/ Exit(p) \/ Crash(p)

Spec == Init /\ [][Next]_vars

\* A starting process goes on, and both waits of killProcess have a deadline.  How
\* long a process takes to leave is nobody's promise (app.close waits for clients).
WaitEnds(p) == (VictimGone(p) \/ ForceKill(p)) /\ pc'[p] # pc[p]
FairSpec ==
    /\ Spec
    /\ \A p \in Pids :
        /\ WF_vars(ReadLock(p) \/ ScanPort(p) \/ WriteLock(p) \/ Listen(p))
        /\ WF_vars(WaitEnds(p))

-----------------------------------------------------------------------------
(******************************* properties *******************************)

AtMostOne == \A p, q \in Serving : p = q

\* Two instances never serve together, whatever hangs, is killed late, crashes, or
\* could not write or remove its lockfile, as long as starts did not overlap, none
\* went on past a live instance it could not kill or find, and none serves that
\* neither the port nor the lockfile leads to.
OneInstance == mishaps \subseteq {"unwritten"} => AtMostOne

\* The lockfile names the instance that serves, so that the next start finds it even
\* on a fallback port: no exit of an older process removes it afterwards.  Except
\* after overlapping starts, a kill that failed or a lockfile not written.
LockNamesServing ==
    mishaps \subseteq {"portSpared", "hidden"} => \A p \in Serving : lock = p

\* A start comes to an end: no wait for another process blocks it.
StartEnds == \A p \in Pids : pc[p] \in Starting ~> pc[p] \notin Starting

-----------------------------------------------------------------------------
(* What the code says of itself and does not do. *)

\* "Ensures only one instance of reflectt-node runs at a time": two starts at a time
\* each read the lockfile before the other writes it, and no call fails.
OneThoughStartsOverlap == mishaps \subseteq {"overlap"} => AtMostOne

\* "reads lockfile, kills stale process, writes new PID": the process to kill is
\* another one (a PID that comes back after a crash reads its own).
KillsOthersOnly == \A p \in Pids : victim[p] # p
=============================================================================
