-------------------------- MODULE ProcessLockProofs --------------------------
(***************************************************************************)
(* Theorems about ProcessLock for any set of PIDs, with overlapping starts *)
(* and failing calls.                                                      *)
(*                                                                         *)
(* While no start overlapped another or went on past the lockfile's live   *)
(* process, the lockfile follows one process: whoever is past writing it   *)
(* is named by it (Held), whoever is about to remove it still is           *)
(* (Removing), and whoever is about to write it has outlived the process   *)
(* it names (Cleared, Killing).  The same of the port, for a lockfile that *)
(* was not written: whoever serves is named by one of the two (Visible),   *)
(* so whoever is past both serves alone (Clearing, NoRival).               *)
(***************************************************************************)
EXTENDS ProcessLock, TLAPS

Active(p)  == pc[p] \in Starting /\ exiting[p] = "no"
Holder(p)  == pc[p] \in {"boot", "serving"} /\ exiting[p] = "no"

Apart == "overlap" \notin mishaps
Calm  == Apart /\ "lockSpared" \notin mishaps
Sound == Calm /\ "portSpared" \notin mishaps /\ "hidden" \notin mishaps

Solo     == Apart => \A p, q \in Pids : Active(p) /\ Active(q) => p = q
Held     == Calm /\ "unwritten" \notin mishaps => \A p \in Pids : Holder(p) => lock = p
Removing == Calm => \A p \in Pids : exiting[p] = "unlink" /\ seen[p] = p => lock = p
Cleared  == Calm => \A p \in Pids : pc[p] \in {"scan", "clear", "write"} => lock \notin Alive
Killing  == Calm => \A p \in Pids : pc[p] = "kill" /\ lock \in Alive => lock = victim[p]
LockInv  == Solo /\ Held /\ Removing /\ Cleared /\ Killing

PortServed == port # NoPid => pc[port] = "serving"
Visible    == Sound => \A p \in Serving : lock = p \/ port = p
Clearing   == Sound => \A p \in Pids : pc[p] = "clear" /\ port \in Serving => port = victim[p]
NoRival    == Sound => \A p \in Pids : Active(p) /\ pc[p] \in {"write", "boot"} => Serving = {}
PortInv    == PortServed /\ Visible /\ Clearing /\ NoRival /\ (Sound => AtMostOne)

IInv == TypeOK /\ LockInv /\ PortInv

-----------------------------------------------------------------------------
(* Facts about one state. *)

LEMMA Words ==
    /\ Starting \subseteq Where /\ "off" \notin Starting /\ "serving" \notin Starting
    /\ {"read", "kill", "scan", "clear", "write"} \subseteq Starting /\ "boot" \in Starting
BY DEF Starting, Where

\* Before the lock is written a process does not leave by itself.
LEMMA EarlyIsActive ==
    ASSUME TypeOK, NEW p \in Pids, pc[p] \in {"read", "kill", "scan", "clear", "write"}
    PROVE  Active(p)
BY DEF TypeOK, Active, Starting, Stage

\* Where neither the lockfile nor the port leads to a serving process, none serves.
LEMMA NobodyServes ==
    ASSUME Visible, Sound, lock \notin Alive, port \notin Serving
    PROVE  Serving = {}
BY Words DEF Visible, Serving, Alive

\* The port invariant survives a step that starts nobody serving, leaves lockfile and
\* port, and brings nobody past the port.
LEMMA PortQuiet ==
    ASSUME PortInv, mishaps \subseteq mishaps', lock' = lock, port' = port,
           Serving' \subseteq Serving,
           port # NoPid => pc'[port] = "serving",
           \A p \in Pids : pc'[p] = "clear" => pc[p] = "clear" /\ victim'[p] = victim[p],
           \A p \in Pids : Active(p)' /\ pc'[p] \in {"write", "boot"} =>
                                Active(p) /\ pc[p] \in {"write", "boot"}
    PROVE  PortInv'
<1>1. Sound' => Sound BY DEF Sound, Calm, Apart
<1>2. PortServed' BY DEF PortInv, PortServed
<1>3. Visible' BY <1>1 DEF PortInv, Visible
<1>4. Clearing' BY <1>1 DEF PortInv, Clearing
<1>5. NoRival' BY <1>1 DEF PortInv, NoRival
<1>6. (Sound => AtMostOne)' BY <1>1 DEF PortInv, AtMostOne
<1> QED BY <1>2, <1>3, <1>4, <1>5, <1>6 DEF PortInv

\* What dies leaves less to say; with the last process the past is forgotten.
LEMMA DieKeeps ==
    ASSUME IInv, NEW p \in Pids, Die(p), lock' = lock PROVE IInv'
<1> USE DEF IInv
<1>1. /\ \A q \in Pids : q # p => /\ pc'[q] = pc[q] /\ exiting'[q] = exiting[q]
                                  /\ victim'[q] = victim[q] /\ seen'[q] = seen[q]
      /\ pc'[p] = "off" /\ exiting'[p] = "no" /\ victim'[p] = NoPid /\ seen'[p] = NoPid
  BY DEF Die, TypeOK
<1>2. Alive' = Alive \ {p} BY <1>1 DEF Alive
<1>3. TypeOK'
  <2>1. /\ pc' \in [Pids -> Where] /\ exiting' \in [Pids -> Stage]
        /\ victim' \in [Pids -> Pids \cup {NoPid}] /\ seen' \in [Pids -> Pids \cup {NoPid}]
    BY DEF Die, TypeOK, Where, Stage
  <2>2. port' \in Alive' \cup {NoPid} /\ term' \subseteq Alive' /\ mishaps' \subseteq Mishap
    BY <1>2 DEF Die, TypeOK
  <2> QED BY <1>1, <2>1, <2>2 DEF TypeOK
<1>4. CASE Alive = {p}
  <2>1. \A q \in Pids : pc'[q] = "off" BY <1>2, <1>4 DEF Alive
  <2>2. port' = NoPid BY <1>4, LockAssumption DEF Die, TypeOK
  <2>3. \A q \in Pids : exiting'[q] = "no" BY <1>3, <2>1 DEF TypeOK
  <2>4. LockInv'
    BY <2>1, <2>3, Words DEF LockInv, Solo, Held, Removing, Cleared, Killing, Active, Holder
  <2>5. PortInv'
    BY <2>1, <2>2, Words DEF PortInv, PortServed, Visible, Clearing, NoRival, AtMostOne,
                             Serving, Active
  <2> QED BY <1>3, <2>4, <2>5
<1>5. CASE Alive # {p}
  <2>1. mishaps' = mishaps BY <1>5 DEF Die
  <2> USE <2>1 DEF Apart, Calm, Sound
  <2>2. Solo' /\ Held' BY <1>1, Words DEF LockInv, Solo, Held, Active, Holder
  <2>3. Removing' BY <1>1 DEF LockInv, Removing
  <2>4. Cleared' /\ Killing' BY <1>1, <1>2 DEF LockInv, Cleared, Killing
  <2>5. Serving' = Serving \ {p} BY <1>1 DEF Serving
  <2>6. port' = IF port = p THEN NoPid ELSE port BY DEF Die
  <2>7. PortServed' BY <1>1, <2>6 DEF PortInv, PortServed, TypeOK, Alive
  <2>8. Visible' /\ Clearing'
    BY <1>1, <2>5, <2>6, LockAssumption DEF PortInv, Visible, Clearing, Serving
  <2>9. NoRival' /\ (Sound => AtMostOne)'
    BY <1>1, <2>5, Words DEF PortInv, NoRival, AtMostOne, Active
  <2> QED BY <1>3, <2>2, <2>3, <2>4, <2>7, <2>8, <2>9 DEF LockInv, PortInv
<1> QED BY <1>4, <1>5

-----------------------------------------------------------------------------
(* The steps. *)

LEMMA InitEstablishes == Init => IInv
<1> SUFFICES ASSUME Init PROVE IInv OBVIOUS
<1>1. TypeOK BY LockAssumption DEF Init, TypeOK, Where, Stage, Starting, Alive
<1>2. LockInv
  BY Words DEF Init, LockInv, Solo, Held, Removing, Cleared, Killing, Active, Holder
<1>3. PortInv
  BY Words DEF Init, PortInv, PortServed, Visible, Clearing, NoRival, AtMostOne, Serving, Active
<1> QED BY <1>1, <1>2, <1>3 DEF IInv

LEMMA StartKeeps == ASSUME IInv, NEW p \in Pids, Start(p) PROVE IInv'
<1> USE DEF IInv
<1>1. /\ \A q \in Pids : q # p => pc'[q] = pc[q]
      /\ pc'[p] = "read" /\ pc[p] = "off" /\ exiting[p] = "no"
      /\ UNCHANGED <<lock, port, victim, term, exiting, seen>>
      /\ mishaps \subseteq mishaps' /\ mishaps' \subseteq mishaps \cup {"overlap"}
  BY DEF Start, TypeOK, Notice
<1>2. Apart' => \A q \in Pids : ~Active(q) BY DEF Start, Active, Notice, Apart
<1>3. Apart' => \A q \in Pids : q # p => pc[q] \notin {"kill", "scan", "clear", "write"}
  BY <1>2, EarlyIsActive
<1>4. Alive' = Alive \cup {p} BY <1>1 DEF Alive
<1>5. TypeOK'
  <2>1. pc' \in [Pids -> Where] BY DEF Start, TypeOK, Where, Starting
  <2> QED BY <1>1, <1>4, <2>1 DEF TypeOK, Mishap
<1>6. Solo' BY <1>1, <1>2 DEF Solo, Active
<1>7. Held' /\ Removing' BY <1>1 DEF LockInv, Held, Holder, Removing, Calm, Apart
<1>8. Cleared' /\ Killing' BY <1>1, <1>3 DEF Cleared, Killing, Calm
<1>9. PortInv'
  <2>1. Serving' = Serving BY <1>1 DEF Serving
  <2>2. port # NoPid => pc'[port] = "serving"
    BY <1>1 DEF PortInv, PortServed, TypeOK, Alive
  <2> QED BY <1>1, <2>1, <2>2, PortQuiet DEF Active
<1> QED BY <1>5, <1>6, <1>7, <1>8, <1>9 DEF LockInv

\* Both uses of killProcess: q is signalled, or p goes on.
LEMMA KillKeeps ==
    ASSUME IInv, NEW p \in Pids, NEW q, NEW waiting, NEW next, NEW mishap \in Mishap,
           Kill(p, q, waiting) \/ Pass(p, q, next, mishap),
           \/ /\ pc[p] = "read" /\ q = lock /\ waiting = "kill" /\ next = "scan"
              /\ mishap = "lockSpared"
           \/ /\ pc[p] = "scan" /\ q = PortHolder(p) /\ waiting = "clear" /\ next = "write"
              /\ mishap = "portSpared"
    PROVE  IInv'
<1> USE DEF IInv
<1>1. Active(p) BY EarlyIsActive
<1>2. /\ \A r \in Pids : r # p => pc'[r] = pc[r] /\ victim'[r] = victim[r]
      /\ UNCHANGED <<lock, port, exiting, seen>>
      /\ mishaps \subseteq mishaps' /\ mishaps' \subseteq mishaps \cup {mishap}
      /\ \/ /\ q \in Alive /\ pc'[p] = waiting /\ victim'[p] = q /\ term' = term \cup {q}
         \/ /\ pc'[p] = next /\ victim'[p] = victim[p] /\ term' = term
            /\ q \in Alive => mishap \in mishaps'
  BY DEF Kill, Pass, Notice, TypeOK
<1>3. Alive' = Alive BY <1>2 DEF Alive
<1>4. TypeOK'
  <2>1. pc' \in [Pids -> Where] BY DEF Kill, Pass, TypeOK, Where, Starting
  <2>2. victim' \in [Pids -> Pids \cup {NoPid}] BY DEF Kill, Pass, TypeOK, Alive
  <2>3. victim[p] = NoPid BY DEF TypeOK
  <2>4. \A r \in Pids : /\ pc'[r] \in {"kill", "clear"} <=> victim'[r] # NoPid
                        /\ exiting'[r] # "no" => pc'[r] \in {"boot", "serving"}
    <3> SUFFICES ASSUME NEW r \in Pids
                 PROVE  /\ pc'[r] \in {"kill", "clear"} <=> victim'[r] # NoPid
                        /\ exiting'[r] # "no" => pc'[r] \in {"boot", "serving"}
      OBVIOUS
    <3>1. CASE r # p BY <1>2, <3>1 DEF TypeOK
    <3>2. CASE r = p BY <1>1, <1>2, <2>3, <3>2, LockAssumption DEF Active, Alive
    <3> QED BY <3>1, <3>2
  <2>5. term' \subseteq Alive' /\ mishaps' \subseteq Mishap BY <1>2, <1>3 DEF TypeOK
  <2> QED BY <1>2, <1>3, <2>1, <2>2, <2>4, <2>5 DEF TypeOK
<1>5. Apart' => \A r \in Pids : r # p => ~Active(r)
  BY <1>1, <1>2 DEF LockInv, Solo, Apart
<1>6. Apart' => \A r \in Pids : Active(r)' => r = p BY <1>2, <1>5 DEF Active
<1>7. Solo' BY <1>6 DEF Solo
<1>8. Held' /\ Removing' BY <1>2 DEF LockInv, Held, Holder, Removing, Calm, Apart
<1>9. Apart' => \A r \in Pids : r # p => pc'[r] \notin {"kill", "scan", "clear", "write"}
  BY <1>2, <1>5, EarlyIsActive
<1>10. Cleared' /\ Killing'
  <2>1. Calm' => Calm BY <1>2 DEF Calm, Apart
  <2>2. CASE pc[p] = "read"
    BY <1>2, <1>3, <1>9, <2>2 DEF Cleared, Killing, Calm
  <2>3. CASE pc[p] = "scan"
    BY <1>2, <1>3, <1>9, <2>1, <2>3 DEF LockInv, Cleared, Killing, Calm
  <2> QED BY <2>2, <2>3
<1>11. PortInv'
  <2>1. Serving' = Serving BY <1>1, <1>2 DEF Serving, Active, Starting
  <2>2. port # NoPid => pc'[port] = "serving" /\ port # p
    BY <1>2 DEF PortInv, PortServed, TypeOK, Alive
  <2>3. CASE pc[p] = "read" BY <1>2, <2>1, <2>2, <2>3, PortQuiet DEF Active
  <2>4. CASE pc[p] = "scan"
    <3>1. Sound' => Sound BY <1>2 DEF Sound, Calm, Apart
    <3>2. PortServed' /\ Visible' /\ (Sound => AtMostOne)'
      BY <1>2, <2>1, <2>2, <3>1 DEF PortInv, PortServed, Visible, AtMostOne
    <3>3. q = port BY <2>2, <2>4 DEF PortHolder
    <3>4. Clearing'
      BY <1>2, <1>9, <2>1, <2>4, <3>3 DEF Clearing, Sound, Calm
    <3>5. NoRival'
      <4> SUFFICES ASSUME Sound', NEW r \in Pids, Active(r)', pc'[r] \in {"write", "boot"}
                   PROVE  Serving' = {}
        BY DEF NoRival
      <4>1. r = p BY <1>6 DEF Sound, Calm
      <4>2. q \notin Alive BY <1>2, <2>4, <4>1 DEF Sound
      <4>3. lock \notin Alive BY <2>4, <3>1 DEF LockInv, Cleared, Sound
      <4> QED BY <2>1, <3>1, <3>3, <4>2, <4>3, NobodyServes DEF PortInv, Serving, Alive
    <3> QED BY <3>2, <3>4, <3>5 DEF PortInv
  <2> QED BY <2>3, <2>4
<1> QED BY <1>4, <1>7, <1>8, <1>10, <1>11 DEF LockInv

\* The wait is over: the victim is gone, or p goes on and that is on record.
LEMMA WaitOverKeeps ==
    ASSUME IInv, NEW p \in Pids, pc[p] \in {"kill", "clear"}, Step(p),
           victim' = [victim EXCEPT ![p] = NoPid], UNCHANGED <<lock, port, term, exiting, seen>>,
           \/ victim[p] \notin Alive /\ mishaps' = mishaps
           \/ mishaps' = mishaps \cup {IF pc[p] = "kill" THEN "lockSpared" ELSE "portSpared"}
    PROVE  IInv'
<1> USE DEF IInv
<1>1. Active(p) BY EarlyIsActive
<1>2. /\ \A r \in Pids : r # p => pc'[r] = pc[r] /\ victim'[r] = victim[r]
      /\ pc'[p] = (IF pc[p] = "kill" THEN "scan" ELSE "write") /\ victim'[p] = NoPid
      /\ mishaps \subseteq mishaps'
  BY DEF Step, TypeOK
<1>3. Alive' = Alive BY <1>2 DEF Alive
<1>4. TypeOK'
  <2>1. pc' \in [Pids -> Where] /\ victim' \in [Pids -> Pids \cup {NoPid}]
    BY DEF Step, TypeOK, Where, Starting
  <2>2. \A r \in Pids : /\ pc'[r] \in {"kill", "clear"} <=> victim'[r] # NoPid
                        /\ exiting'[r] # "no" => pc'[r] \in {"boot", "serving"}
    BY <1>1, <1>2 DEF TypeOK, Active
  <2>3. mishaps' \subseteq Mishap BY DEF TypeOK, Mishap
  <2> QED BY <1>2, <1>3, <2>1, <2>2, <2>3 DEF TypeOK
<1>5. Apart' => \A r \in Pids : r # p => ~Active(r)
  BY <1>1, <1>2 DEF LockInv, Solo, Apart
<1>6. Solo' BY <1>2, <1>5 DEF Active, Solo
<1>7. Calm' => Calm BY <1>2 DEF Calm, Apart
<1>8. Held' /\ Removing' BY <1>2, <1>7 DEF LockInv, Held, Holder, Removing
<1>9. Calm' => lock \notin Alive
  BY <1>7 DEF LockInv, Cleared, Killing, Calm, Apart
<1>10. Cleared' BY <1>2, <1>3, <1>9 DEF Cleared
<1>11. Killing' BY <1>2, <1>3, <1>7 DEF LockInv, Killing
<1>12. PortInv'
  <2>1. Serving' = Serving BY <1>1, <1>2 DEF Serving, Active, Starting
  <2>2. port # NoPid => pc'[port] = "serving" /\ port # p
    BY <1>2 DEF PortInv, PortServed, TypeOK, Alive
  <2>3. CASE pc[p] = "kill" BY <1>2, <2>1, <2>2, <2>3, PortQuiet DEF Active
  <2>4. CASE pc[p] = "clear"
    <3>1. Sound' => Sound BY <1>2 DEF Sound, Calm, Apart
    <3>2. PortServed' /\ Visible' /\ (Sound => AtMostOne)'
      BY <1>2, <2>1, <2>2, <3>1 DEF PortInv, PortServed, Visible, AtMostOne
    <3>3. Clearing' BY <1>2, <2>1, <2>4, <3>1 DEF PortInv, Clearing
    <3>4. NoRival'
      <4> SUFFICES ASSUME Sound' PROVE Serving' = {} BY DEF NoRival
      <4>1. victim[p] \notin Alive BY <2>4 DEF Sound
      <4>2. port \notin Serving
        BY <2>4, <3>1, <4>1 DEF PortInv, Clearing, Serving, Alive
      <4>3. lock \notin Alive BY <1>9 DEF Sound
      <4> QED BY <2>1, <3>1, <4>2, <4>3, NobodyServes DEF PortInv
    <3> QED BY <3>2, <3>3, <3>4 DEF PortInv
  <2> QED BY <2>3, <2>4
<1> QED BY <1>4, <1>6, <1>8, <1>10, <1>11, <1>12 DEF LockInv

LEMMA WriteLockKeeps == ASSUME IInv, NEW p \in Pids, WriteLock(p) PROVE IInv'
<1> USE DEF IInv
<1>1. Active(p) BY EarlyIsActive DEF WriteLock
<1>2. /\ \A r \in Pids : r # p => pc'[r] = pc[r]
      /\ UNCHANGED <<port, victim, term, exiting, seen>>
      /\ pc'[p] = "boot" /\ pc[p] = "write" /\ lock' \in {p, lock, NoPid}
      /\ mishaps \subseteq mishaps' /\ mishaps' \subseteq mishaps \cup {"unwritten"}
      /\ lock' # p => "unwritten" \in mishaps'
  BY DEF WriteLock, Notice, TypeOK
<1>3. Alive' = Alive BY <1>2 DEF Alive
<1>4. TypeOK'
  <2>1. pc' \in [Pids -> Where] BY DEF WriteLock, TypeOK, Where, Starting
  <2>2. lock' \in Pids \cup {NoPid} /\ mishaps' \subseteq Mishap BY <1>2 DEF TypeOK, Mishap
  <2>3. \A r \in Pids : /\ pc'[r] \in {"kill", "clear"} <=> victim'[r] # NoPid
                        /\ exiting'[r] # "no" => pc'[r] \in {"boot", "serving"}
    BY <1>1, <1>2 DEF TypeOK, Active
  <2> QED BY <1>2, <1>3, <2>1, <2>2, <2>3 DEF TypeOK
<1>5. Apart' => \A r \in Pids : r # p => ~Active(r)
  BY <1>1, <1>2 DEF LockInv, Solo, Apart
<1>6. Calm' => Calm BY <1>2 DEF Calm, Apart
<1>7. Calm' => lock \notin Alive BY <1>2, <1>6 DEF LockInv, Cleared
<1>8. Solo' BY <1>2, <1>5 DEF Active, Solo
<1>9. Held'
  <2>1. Calm' /\ "unwritten" \notin mishaps' => \A r \in Pids : ~Holder(r)
    BY <1>2, <1>6, <1>7 DEF LockInv, Held, Holder, Alive
  <2> QED BY <1>2, <2>1 DEF Held, Holder
<1>10. Removing'
  <2>1. Calm' => \A r \in Pids : ~(exiting[r] = "unlink" /\ seen[r] = r)
    BY <1>6, <1>7 DEF LockInv, Removing, Alive, TypeOK
  <2> QED BY <1>2, <2>1 DEF Removing
<1>11. Calm' => \A r \in Pids : pc'[r] \notin {"kill", "scan", "clear", "write"}
  BY <1>2, <1>5, EarlyIsActive DEF Calm
<1>12. Cleared' /\ Killing' BY <1>11 DEF Cleared, Killing
<1>13. PortInv'
  <2>1. Serving' = Serving BY <1>1, <1>2 DEF Serving, Active, Starting
  <2>2. port # NoPid => pc'[port] = "serving"
    BY <1>2 DEF PortInv, PortServed, TypeOK, Alive
  <2>3. Sound' => Sound BY <1>2 DEF Sound, Calm, Apart
  <2>4. Sound' => Serving = {} BY <1>1, <1>2, <2>3 DEF PortInv, NoRival
  <2>5. PortServed' BY <1>2, <2>2 DEF PortServed
  <2>6. Visible' /\ Clearing' /\ NoRival' /\ (Sound => AtMostOne)'
    BY <2>1, <2>4 DEF Visible, Clearing, NoRival, AtMostOne
  <2> QED BY <2>5, <2>6 DEF PortInv
<1> QED BY <1>4, <1>8, <1>9, <1>10, <1>12, <1>13 DEF LockInv

LEMMA ListenKeeps == ASSUME IInv, NEW p \in Pids, Listen(p) PROVE IInv'
<1> USE DEF IInv
<1>1. /\ \A r \in Pids : r # p => pc'[r] = pc[r]
      /\ UNCHANGED <<lock, victim, term, exiting, seen>>
      /\ pc'[p] = "serving" /\ pc[p] = "boot"
      /\ port' = IF port = NoPid THEN p ELSE port
      /\ mishaps \subseteq mishaps' /\ mishaps' \subseteq mishaps \cup {"hidden"}
      /\ port' # p /\ lock # p => "hidden" \in mishaps'
  BY DEF Listen, Notice, TypeOK
<1>2. Alive' = Alive BY <1>1 DEF Alive
<1>3. TypeOK'
  <2>1. pc' \in [Pids -> Where] BY DEF Listen, TypeOK, Where
  <2>2. p \in Alive BY <1>1 DEF Alive
  <2>3. mishaps' \subseteq Mishap BY <1>1 DEF TypeOK, Mishap
  <2> QED BY <1>1, <1>2, <2>1, <2>2, <2>3 DEF TypeOK
<1>4. Calm' => Calm BY <1>1 DEF Calm, Apart
<1>5. Solo' BY <1>1, Words DEF LockInv, Solo, Active, Apart
<1>6. Held' /\ Removing' BY <1>1, <1>4, Words DEF LockInv, Held, Holder, Removing
<1>7. Cleared' /\ Killing' BY <1>1, <1>2, <1>4 DEF LockInv, Cleared, Killing
<1>8. Serving' = IF exiting[p] = "no" THEN Serving \cup {p} ELSE Serving
  BY <1>1 DEF Serving
<1>9. Sound' => Sound BY <1>1 DEF Sound, Calm, Apart
<1>10. PortServed' BY <1>1 DEF PortInv, PortServed, TypeOK, Alive
<1>11. Visible'
  BY <1>1, <1>8, <1>9, LockAssumption DEF PortInv, Visible, Sound, Serving
<1>12. CASE exiting[p] = "no"
  <2>1. Active(p) BY <1>1, <1>12, Words DEF Active
  <2>2. Sound' => Serving' = {p} BY <1>1, <1>8, <1>9, <1>12, <2>1 DEF PortInv, NoRival
  <2>3. Sound' => \A r \in Pids : r # p => ~Active(r)
    BY <1>9, <2>1 DEF LockInv, Solo, Sound, Calm
  <2>4. Sound' => \A r \in Pids : ~Active(r)' BY <1>1, <2>3, Words DEF Active
  <2>5. NoRival' BY <2>4 DEF NoRival
  <2>6. (Sound => AtMostOne)' BY <2>2 DEF AtMostOne
  <2>7. Clearing' BY <1>3, <2>4, EarlyIsActive, Words DEF Clearing, Active, TypeOK
  <2> QED BY <1>3, <1>5, <1>6, <1>7, <1>10, <1>11, <2>5, <2>6, <2>7 DEF LockInv, PortInv
<1>13. CASE exiting[p] # "no"
  <2>1. Serving' = Serving /\ p \notin Serving BY <1>8, <1>13 DEF Serving
  <2>2. Clearing'
    BY <1>1, <1>9, <2>1 DEF PortInv, Clearing
  <2>3. NoRival' BY <1>1, <1>9, <2>1, Words DEF PortInv, NoRival, Active
  <2>4. (Sound => AtMostOne)' BY <1>9, <2>1 DEF PortInv, AtMostOne
  <2> QED BY <1>3, <1>5, <1>6, <1>7, <1>10, <1>11, <2>2, <2>3, <2>4 DEF LockInv, PortInv
<1> QED BY <1>12, <1>13

\* Steps that only move on the way out.
LEMMA LeavingKeeps ==
    ASSUME IInv, NEW p \in Pids, UNCHANGED <<pc, lock, port, victim, mishaps>>,
           term' \subseteq term, pc[p] \in {"boot", "serving"},
           \/ exiting' = [exiting EXCEPT ![p] = "read"] /\ seen' = seen
           \/ /\ exiting' = [exiting EXCEPT ![p] = "unlink"]
              /\ \E got \in {lock, NoPid} : seen' = [seen EXCEPT ![p] = got]
           \/ exiting' = exiting /\ seen' = seen
    PROVE  IInv'
<1> USE DEF IInv
<1>1. /\ \A r \in Pids : r # p => exiting'[r] = exiting[r] /\ seen'[r] = seen[r]
      /\ exiting'[p] \in {exiting[p], "read", "unlink"}
      /\ exiting'[p] = "no" => exiting[p] = "no"
      /\ exiting'[p] = "unlink" /\ seen'[p] = p =>
            lock = p \/ (exiting[p] = "unlink" /\ seen[p] = p)
  BY LockAssumption DEF TypeOK
<1>2. Alive' = Alive BY DEF Alive
<1>3. TypeOK'
  <2>1. exiting' \in [Pids -> Stage] /\ seen' \in [Pids -> Pids \cup {NoPid}]
    BY DEF TypeOK, Stage
  <2> QED BY <1>1, <1>2, <2>1 DEF TypeOK
<1>4. Calm' = Calm /\ Apart' = Apart /\ Sound' = Sound BY DEF Calm, Apart, Sound
<1>5. Solo' BY <1>1, <1>4 DEF LockInv, Solo, Active
<1>6. Held' BY <1>1, <1>4 DEF LockInv, Held, Holder
<1>7. Removing' BY <1>1, <1>4 DEF LockInv, Removing
<1>8. Cleared' /\ Killing' BY <1>2, <1>4 DEF LockInv, Cleared, Killing
<1>9. PortInv'
  <2>1. Serving' \subseteq Serving BY <1>1 DEF Serving
  <2>2. \A r \in Pids : Active(r)' => Active(r) BY <1>1 DEF Active
  <2> QED BY <2>1, <2>2, PortQuiet DEF PortInv, PortServed
<1> QED BY <1>3, <1>5, <1>6, <1>7, <1>8, <1>9 DEF LockInv

LEMMA UnlinkKeeps == ASSUME IInv, NEW p \in Pids, Unlink(p) PROVE IInv'
<1> USE DEF IInv
<1>1. /\ \A r \in Pids : r # p => exiting'[r] = exiting[r] /\ seen'[r] = seen[r]
      /\ exiting'[p] = "done" /\ exiting[p] = "unlink" /\ seen'[p] = NoPid
      /\ UNCHANGED <<pc, port, victim, term, mishaps>>
      /\ lock' = IF seen[p] = p THEN NoPid ELSE lock
  BY DEF Unlink, RemoveOwn, TypeOK
<1>2. Alive' = Alive BY <1>1 DEF Alive
<1>3. TypeOK'
  <2>1. exiting' \in [Pids -> Stage] /\ seen' \in [Pids -> Pids \cup {NoPid}]
    BY DEF Unlink, TypeOK, Stage
  <2> QED BY <1>1, <1>2, <2>1 DEF TypeOK
<1>4. Calm' = Calm /\ Apart' = Apart /\ Sound' = Sound BY <1>1 DEF Calm, Apart, Sound
<1>5. Solo' BY <1>1, <1>4 DEF LockInv, Solo, Active
<1>6. Held' BY <1>1, <1>4 DEF LockInv, Held, Holder, Removing
<1>7. Removing' BY <1>1, <1>4, LockAssumption DEF LockInv, Removing
<1>8. lock' = lock \/ lock' \notin Alive' BY <1>1, LockAssumption DEF Alive
<1>9. Cleared' /\ Killing' BY <1>1, <1>2, <1>4, <1>8 DEF LockInv, Cleared, Killing
<1>10. Serving' = Serving /\ p \notin Serving BY <1>1 DEF Serving
<1>11. Visible'
  <2>1. Sound => lock' = lock \/ lock = p
    BY <1>1 DEF LockInv, Removing, Sound
  <2> QED BY <1>1, <1>4, <1>10, <2>1 DEF PortInv, Visible
<1>12. PortServed' /\ Clearing' /\ NoRival' /\ (Sound => AtMostOne)'
  BY <1>1, <1>4, <1>10 DEF PortInv, PortServed, Clearing, NoRival, AtMostOne, Active
<1> QED BY <1>3, <1>5, <1>6, <1>7, <1>9, <1>11, <1>12 DEF LockInv, PortInv

LEMMA StepKeeps == ASSUME IInv, [Next]_vars PROVE IInv'
<1>1. ASSUME NEW p \in Pids, Start(p) PROVE IInv' BY <1>1, StartKeeps
<1>2. ASSUME NEW p \in Pids, ReadLock(p) PROVE IInv'
  BY <1>2, KillKeeps DEF ReadLock, Mishap
<1>3. ASSUME NEW p \in Pids, ScanPort(p) PROVE IInv'
  BY <1>3, KillKeeps DEF ScanPort, Mishap
<1>4. ASSUME NEW p \in Pids, VictimGone(p) PROVE IInv'
  BY <1>4, WaitOverKeeps DEF VictimGone
<1>5. ASSUME NEW p \in Pids, ForceKill(p) PROVE IInv'
  <2>1. victim[p] \in Pids BY <1>5 DEF ForceKill, Alive
  <2>2. CASE Die(victim[p]) BY <1>5, <2>1, <2>2, DieKeeps DEF ForceKill
  <2>3. CASE GoOn(p) /\ Notice(IF pc[p] = "kill" THEN "lockSpared" ELSE "portSpared", TRUE)
    BY <1>5, <2>3, WaitOverKeeps DEF ForceKill, GoOn, Notice
  <2> QED BY <1>5, <2>2, <2>3 DEF ForceKill, Escalate
<1>6. ASSUME NEW p \in Pids, WriteLock(p) PROVE IInv' BY <1>6, WriteLockKeeps
<1>7. ASSUME NEW p \in Pids, Listen(p) PROVE IInv' BY <1>7, ListenKeeps
<1>8. ASSUME NEW p \in Pids, Fatal(p) PROVE IInv'
  BY <1>8, LeavingKeeps DEF Fatal, Installed
<1>9. ASSUME NEW p \in Pids, TakeTerm(p) PROVE IInv'
  <2>1. CASE pc[p] = "serving"
    <3>1. /\ term' \subseteq term /\ UNCHANGED <<pc, lock, port, victim, seen, mishaps>>
          /\ exiting' = [exiting EXCEPT ![p] = IF @ = "no" THEN "read" ELSE @]
      BY <1>9, <2>1 DEF TakeTerm
    <3>2. \/ exiting' = [exiting EXCEPT ![p] = "read"]
          \/ exiting' = exiting
      BY <3>1 DEF IInv, TypeOK
    <3> QED BY <2>1, <3>1, <3>2, LeavingKeeps
  <2>2. CASE pc[p] # "serving" BY <1>9, <2>2, DieKeeps DEF TakeTerm
  <2> QED BY <2>1, <2>2
<1>10. ASSUME NEW p \in Pids, ReadOwner(p) PROVE IInv'
  <2>1. pc[p] \in {"boot", "serving"} BY <1>10 DEF ReadOwner, IInv, TypeOK
  <2> QED BY <1>10, <2>1, LeavingKeeps DEF ReadOwner
<1>11. ASSUME NEW p \in Pids, Unlink(p) PROVE IInv' BY <1>11, UnlinkKeeps
<1>12. ASSUME NEW p \in Pids, Exit(p) PROVE IInv' BY <1>12, DieKeeps DEF Exit
<1>13. ASSUME NEW p \in Pids, Crash(p) PROVE IInv' BY <1>13, DieKeeps DEF Crash
<1>14. CASE UNCHANGED vars
  <2> USE <1>14 DEF vars
  <2>1. Alive' = Alive /\ Serving' = Serving BY DEF Alive, Serving
  <2>2. TypeOK' BY <2>1 DEF IInv, TypeOK
  <2>3. LockInv'
    BY <2>1 DEF IInv, LockInv, Solo, Held, Removing, Cleared, Killing, Active, Holder, Calm, Apart
  <2>4. PortInv'
    BY <2>1 DEF IInv, PortInv, PortServed, Visible, Clearing, NoRival, AtMostOne, Active,
                Sound, Calm, Apart
  <2> QED BY <2>2, <2>3, <2>4 DEF IInv
<1> QED BY <1>1, <1>2, <1>3, <1>4, <1>5, <1>6, <1>7, <1>8, <1>9, <1>10, <1>11, <1>12,
           <1>13, <1>14 DEF Next

-----------------------------------------------------------------------------
\* The inductive invariant: where everybody stands with the lockfile and the port.
THEOREM Invariance == Spec => []IInv
<1>1. IInv /\ [Next]_vars => IInv' BY StepKeeps
<1> QED BY InitEstablishes, <1>1, PTL DEF Spec

\* Processes, the port and signals keep their types; who waits has a victim.
THEOREM TypeCorrect == Spec => []TypeOK
<1>1. IInv => TypeOK BY DEF IInv
<1> QED BY <1>1, Invariance, PTL

\* The lockfile names the instance that serves, unless starts overlapped, one went on
\* past the live process of the lockfile, or could not write it.
THEOREM LockCorrect == Spec => []LockNamesServing
<1>1. IInv => LockNamesServing
  BY DEF IInv, LockInv, Held, Holder, LockNamesServing, Serving, Calm, Apart
<1> QED BY <1>1, Invariance, PTL

\* Two processes never serve at the same time, for any number of them and with every
\* call that may fail, except in the ways OneInstance names.
THEOREM InstanceCorrect == Spec => []OneInstance
<1>1. IInv => OneInstance BY DEF IInv, PortInv, OneInstance, Sound, Calm, Apart
<1> QED BY <1>1, Invariance, PTL
=============================================================================
