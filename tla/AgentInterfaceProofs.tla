------------------------- MODULE AgentInterfaceProofs -------------------------
(***************************************************************************)
(* Proofs about AgentInterface for every set of runs: the gate cannot be   *)
(* passed without a human, and the executors implement ApprovalGate.       *)
(***************************************************************************)
EXTENDS AgentInterface, TLAPS

\* What ties the map of pending approvals, the timer, the place where the
\* executor waits and what has happened together, for one run.
RunInv(r) ==
    /\ cont[r] = "none" => r \notin history.performed /\ run[r].status = "none"
    /\ r \in pending <=> cont[r] = "gate"
    /\ cont[r] = "gate" => r \in timer
    /\ run[r].status = "awaiting_approval" =>
          cont[r] \in {"gate", "yes", "no"} \/ (cont[r] = "end" /\ run[r].input.text = "other")
    /\ cont[r] = "yes" => r \in history.approved
    /\ r \in history.performed /\ run[r].input.irreversible => r \in history.approved

IInv == TypeOK /\ \A r \in Runs : RunInv(r)

\* A step of one run leaves the others alone.
Others(r) ==
    \A s \in Runs : s # r =>
        /\ run'[s] = run[s] /\ cont'[s] = cont[s]
        /\ s \in pending' <=> s \in pending
        /\ s \in timer' <=> s \in timer
        /\ s \in history'.performed <=> s \in history.performed
        /\ s \in history.approved => s \in history'.approved

RunRow == [status : RunStatus, outcome : Ended \cup {"none"}, input : Input]
Histories == [approved : SUBSET Runs, performed : SUBSET Runs]

\* A run that does not exist yet has the shape of one.
LEMMA NoRunType == NoRun \in RunRow
<1>1. Input # {}
  <2> DEFINE i == [kind |-> "github_issue_create", complete |-> TRUE, allowed |-> TRUE,
                   irreversible |-> TRUE, dryRun |-> TRUE, text |-> "string"]
  <2>1. i \in Input
    BY DEF Input, RunKind
  <2> QED
    BY <2>1
<1>2. (CHOOSE i \in Input : TRUE) \in Input
  BY <1>1
<1> QED
  BY <1>2 DEF NoRun, RunRow, RunStatus

\* The empty run store satisfies the invariant.
LEMMA InitInv == Init => IInv
<1> SUFFICES ASSUME Init PROVE IInv
  OBVIOUS
<1>1. TypeOK
  BY NoRunType DEF Init, TypeOK, RunRow, Cont
<1>2. \A r \in Runs : RunInv(r)
  BY DEF Init, RunInv, NoRun
<1> QED
  BY <1>1, <1>2 DEF IInv

\* What Attempt does to its run: it ends it, throws, or sends its action out.
LEMMA AttemptEffect ==
    ASSUME TypeOK, NEW r \in Runs, NEW i \in Input, NEW works \in BOOLEAN,
           Attempt(r, i, works)
    PROVE  /\ run' \in [Runs -> RunRow] /\ cont' \in [Runs -> Cont]
           /\ history' \in Histories
           /\ run'[r].input = i
           /\ history'.approved = history.approved
           /\ \A s \in Runs : s # r =>
                /\ run'[s] = run[s] /\ cont'[s] = cont[s]
                /\ s \in history'.performed <=> s \in history.performed
           /\ \/ /\ cont'[r] = "end" /\ history' = history
                 /\ run'[r].status \in {"completed", "failed", "running"}
              \/ /\ cont'[r] \in {"execute", "submit"} /\ works
                 /\ run'[r].status = "running"
                 /\ history'.performed = history.performed \cup {r}
<1> DEFINE end == IF works THEN "completed" ELSE "failed"
<1>1. CASE i.dryRun \/ ~works
  <2> DEFINE new == [status |-> end, outcome |-> end, input |-> i]
  <2>1. new \in RunRow
    BY DEF RunRow, RunStatus, Ended
  <2>2. /\ run' = [run EXCEPT ![r] = new]
        /\ cont' = [cont EXCEPT ![r] = "end"] /\ history' = history
    BY <1>1 DEF Attempt
  <2> QED
    BY <2>1, <2>2 DEF TypeOK, RunRow, Cont, Histories
<1>2. CASE ~(i.dryRun \/ ~works)
  <2> DEFINE new == [status |-> "running", outcome |-> run[r].outcome, input |-> i]
             at  == IF Throws(i) THEN "end"
                    ELSE IF i.kind = "macos_ui_action" THEN "execute" ELSE "submit"
             done == IF Throws(i) THEN history.performed ELSE history.performed \cup {r}
  <2>1. new \in RunRow
    BY DEF TypeOK, RunRow, RunStatus
  <2>2. /\ run' = [run EXCEPT ![r] = new]
        /\ cont' = [cont EXCEPT ![r] = at]
        /\ history' = [history EXCEPT !.performed = done]
    BY <1>2 DEF Attempt, TypeOK
  <2>3. /\ history' \in Histories /\ history'.approved = history.approved
        /\ history'.performed = done
        /\ Throws(i) => history' = history
    BY <2>2 DEF TypeOK, Histories
  <2>4. at \in Cont /\ IF Throws(i) THEN at = "end" ELSE at \in {"execute", "submit"}
    BY DEF Cont
  <2> HIDE DEF at
  <2>5. /\ run' \in [Runs -> RunRow] /\ cont' \in [Runs -> Cont]
        /\ run'[r] = new /\ cont'[r] = at
        /\ \A s \in Runs : s # r => run'[s] = run[s] /\ cont'[s] = cont[s]
    BY <2>1, <2>2, <2>4 DEF TypeOK, RunRow
  <2>6. /\ history'.performed \subseteq history.performed \cup {r}
        /\ history.performed \subseteq history'.performed
        /\ ~Throws(i) => history'.performed = history.performed \cup {r}
    BY <2>3
  <2> QED
    BY <1>2, <2>3, <2>4, <2>5, <2>6
<1> QED
  BY <1>1, <1>2

\* The step of one run that keeps its own invariant keeps the invariant.
LEMMA OthersKeep ==
    ASSUME NEW r \in Runs, Others(r), \A s \in Runs : RunInv(s), RunInv(r)'
    PROVE  \A s \in Runs : RunInv(s)'
BY DEF Others, RunInv

\* Performing an action: allowed when it is reversible or was approved.
LEMMA PerformKeeps ==
    ASSUME IInv, NEW r \in Runs, NEW i \in Input, NEW works \in BOOLEAN,
           Perform(r, i, works), UNCHANGED <<pending, timer, kill>>,
           r \notin pending, i.irreversible => r \in history.approved,
           r \in history.performed => run[r].input = i
    PROVE  IInv'
<1> DEFINE w == CanPerform(i, works)
<1>1. w \in BOOLEAN /\ Attempt(r, i, w)
  BY DEF Perform, CanPerform, Input
<1> HIDE DEF w
<1>2. TypeOK'
  BY <1>1, AttemptEffect DEF IInv, TypeOK, RunRow, Histories
<1>3. Others(r)
  BY <1>1, AttemptEffect DEF IInv, Others
<1>4. RunInv(r)'
  <2>1. cont'[r] \in {"end", "execute", "submit"} /\ run'[r].status # "awaiting_approval"
    BY <1>1, AttemptEffect DEF IInv
  <2>2. run'[r].input = i /\ history'.approved = history.approved
    BY <1>1, AttemptEffect DEF IInv
  <2> QED
    BY <2>1, <2>2 DEF RunInv
<1> QED
  BY <1>2, <1>3, <1>4, OthersKeep DEF IInv

\* Every step keeps the invariant.
LEMMA InvStep == IInv /\ [Next]_vars => IInv'
<1> SUFFICES ASSUME IInv, [Next]_vars PROVE IInv'
  OBVIOUS
<1> USE DEF IInv
<1>1. ASSUME NEW r \in Runs, NEW i \in Input, NEW works \in BOOLEAN, Create(r, i, works)
      PROVE  IInv'
  <2>0. cont[r] = "none" /\ r \notin history.performed /\ r \notin pending
    BY <1>1 DEF Create, RunInv
  <2>1. CASE ~i.complete
    <3> DEFINE new == [status |-> "failed", outcome |-> "failed", input |-> i]
    <3>1. /\ run' = [run EXCEPT ![r] = new] /\ cont' = [cont EXCEPT ![r] = "end"]
          /\ UNCHANGED <<pending, timer, history, kill>>
      BY <1>1, <2>1 DEF Create
    <3>2. TypeOK'
      BY <3>1 DEF TypeOK, RunStatus, Ended, Cont
    <3>3. Others(r) /\ RunInv(r)'
      BY <2>0, <3>1 DEF TypeOK, Others, RunInv
    <3> QED
      BY <3>2, <3>3, OthersKeep
  <2>2. CASE i.complete /\ i.irreversible
    <3> DEFINE new == [status |-> "awaiting_approval",
                       outcome |-> IF i.allowed THEN "none" ELSE "failed", input |-> i]
    <3>1. /\ run' = [run EXCEPT ![r] = new] /\ UNCHANGED <<history, kill>>
          /\ \/ /\ cont' = [cont EXCEPT ![r] = "gate"]
                /\ pending' = pending \cup {r} /\ timer' = timer \cup {r}
             \/ /\ cont' = [cont EXCEPT ![r] = "end"] /\ i.text = "other"
                /\ UNCHANGED <<pending, timer>>
      BY <1>1, <2>2 DEF Create, Ask, Announce, EnterGate
    <3>2. TypeOK'
      BY <3>1 DEF TypeOK, RunStatus, Ended, Cont
    <3>3. Others(r)
      BY <3>1 DEF TypeOK, Others
    <3>4. RunInv(r)'
      BY <2>0, <3>1 DEF TypeOK, RunInv
    <3> QED
      BY <3>2, <3>3, <3>4, OthersKeep
  <2>3. CASE i.complete /\ ~i.irreversible
    <3>1. Perform(r, i, works) /\ UNCHANGED <<pending, timer, kill>>
      BY <1>1, <2>3 DEF Create
    <3> QED
      BY <2>0, <2>3, <3>1, PerformKeeps
  <2> QED
    BY <2>1, <2>2, <2>3 DEF Input
<1>2. ASSUME NEW r \in Runs, NEW works \in BOOLEAN, Resume(r, works)
      PROVE  IInv'
  <2>1. CASE cont[r] = "no"
    <3>1. /\ run' = [run EXCEPT ![r].status = "rejected", ![r].outcome = "rejected"]
          /\ cont' = [cont EXCEPT ![r] = "end"]
          /\ UNCHANGED <<pending, timer, history, kill>>
      BY <1>2, <2>1 DEF Resume, Close
    <3>2. TypeOK'
      <4> DEFINE row == [run[r] EXCEPT !.status = "rejected", !.outcome = "rejected"]
      <4>1. run \in [Runs -> RunRow]
        BY DEF TypeOK, RunRow
      <4>2. row \in RunRow
        BY <4>1 DEF RunRow, RunStatus, Ended
      <4>3. run' = [run EXCEPT ![r] = row]
        BY <3>1
      <4> HIDE DEF row
      <4>4. run' \in [Runs -> RunRow]
        BY <4>1, <4>2, <4>3
      <4>5. cont' \in [Runs -> Cont]
        BY <3>1 DEF TypeOK, Cont
      <4> QED
        BY <3>1, <4>4, <4>5 DEF TypeOK, RunRow
    <3>3. Others(r) /\ RunInv(r)'
      BY <2>1, <3>1 DEF TypeOK, Others, RunInv
    <3> QED
      BY <3>2, <3>3, OthersKeep
  <2>2. CASE cont[r] = "yes"
    <3>1. /\ Perform(r, run[r].input, works) /\ UNCHANGED <<pending, timer, kill>>
      BY <1>2, <2>2 DEF Resume
    <3>2. run[r].input \in Input /\ r \notin pending /\ r \in history.approved
      BY <2>2 DEF TypeOK, RunInv
    <3> QED
      BY <3>1, <3>2, PerformKeeps
  <2> QED
    BY <1>2, <2>1, <2>2 DEF Resume
<1>3. ASSUME NEW r \in Runs, NEW ok \in BOOLEAN, Finish(r, ok)
      PROVE  IInv'
  <2> DEFINE end == IF ok THEN "completed" ELSE "failed"
  <2>1. /\ cont' = [cont EXCEPT ![r] = "end"]
        /\ run' = run \/ run' = [run EXCEPT ![r].status = end, ![r].outcome = end]
        /\ UNCHANGED <<pending, timer, history, kill>>
        /\ cont[r] \in {"submit", "execute"}
    BY <1>3 DEF Finish, Close
  <2>2. TypeOK'
    BY <2>1 DEF TypeOK, RunStatus, Ended, Cont
  <2>3. Others(r)
    BY <2>1 DEF TypeOK, Others
  <2>4. RunInv(r)'
    BY <2>1 DEF TypeOK, RunInv
  <2> QED
    BY <2>2, <2>3, <2>4, OthersKeep
<1>4. ASSUME NEW r \in Runs, NEW decision \in {"yes", "no"}, Decide(r, decision)
      PROVE  IInv'
  <2>1. /\ pending' = pending \ {r} /\ cont' = [cont EXCEPT ![r] = decision]
        /\ history' = [history EXCEPT !.approved =
                         IF decision = "yes" THEN @ \cup {r} ELSE @]
        /\ UNCHANGED <<run, timer, kill>> /\ r \in pending
    BY <1>4 DEF Decide, Settle
  <2>2. /\ history' \in Histories /\ history'.performed = history.performed
        /\ history'.approved =
             history.approved \cup (IF decision = "yes" THEN {r} ELSE {})
    BY <2>1 DEF TypeOK, Histories
  <2>3. TypeOK'
    BY <2>1, <2>2 DEF TypeOK, Cont, Histories
  <2>4. Others(r)
    BY <2>1, <2>2 DEF TypeOK, Others
  <2>5. RunInv(r)'
    BY <2>1, <2>2 DEF TypeOK, RunInv
  <2> QED
    BY <2>3, <2>4, <2>5, OthersKeep
<1>5. ASSUME NEW r \in Runs, Timeout(r) \/ Abort(r)
      PROVE  IInv'
  <2>1. /\ \/ pending' = pending \ {r} /\ cont' = [cont EXCEPT ![r] = "no"] /\ r \in pending
           \/ UNCHANGED <<pending, cont>> /\ r \notin pending
        /\ \/ run' = run /\ timer' = timer \ {r}
           \/ /\ run' = [run EXCEPT ![r].status = "aborted", ![r].outcome = "aborted"]
              /\ timer' = timer /\ run[r].status # "none"
        /\ UNCHANGED <<kill, history>>
    BY <1>5 DEF Timeout, Abort, Settle, Close
  <2>2. TypeOK'
    BY <2>1 DEF TypeOK, RunStatus, Ended, Cont
  <2>3. Others(r)
    BY <2>1 DEF TypeOK, Others
  <2>4. RunInv(r)'
    BY <2>1 DEF TypeOK, RunInv
  <2> QED
    BY <2>2, <2>3, <2>4, OthersKeep
<1>6. ASSUME NEW engage \in BOOLEAN, KillSwitch(engage)
      PROVE  IInv'
  BY <1>6 DEF KillSwitch, TypeOK, RunInv
<1>7. CASE UNCHANGED vars
  BY <1>7 DEF vars, TypeOK, RunInv
<1> QED
  BY <1>1, <1>2, <1>3, <1>4, <1>5, <1>6, <1>7 DEF Next

\* The invariant holds in every reachable state.
LEMMA Inductive == Spec => []IInv
BY InitInv, InvStep, PTL DEF Spec

\* The run store, the maps and the executors' places hold what the code says.
THEOREM TypeCorrect == Spec => []TypeOK
<1>1. IInv => TypeOK
  BY DEF IInv
<1> QED
  BY Inductive, <1>1, PTL

\* No irreversible action leaves the process without a human's approval of that
\* run (executeGithubIssueCreate, executeMacOSUIAction).
THEOREM ApprovalCorrect == Spec => []NoUnapprovedAction
<1>1. IInv => NoUnapprovedAction
  BY DEF IInv, RunInv, NoUnapprovedAction, TypeOK
<1> QED
  BY Inductive, <1>1, PTL

\* A run in the approval queue can be decided and will time out, unless the
\* preview of its text threw.
THEOREM AwaitingCorrect == Spec => []AwaitingIsDecidable
<1>1. IInv => AwaitingIsDecidable
  BY DEF IInv, RunInv, AwaitingIsDecidable, Quiet
<1> QED
  BY Inductive, <1>1, PTL

\* No macOS action starts under the kill switch (executeIntent looks again when
\* the gate has been passed).
THEOREM KillSwitchCorrect == Spec => KillSwitchStops
<1> DEFINE Started == \A r \in history'.performed \ history.performed :
                        run'[r].input.kind = "macos_ui_action" => ~kill
<1>1. ASSUME IInv, [Next]_vars PROVE Started
  <2>1. ASSUME NEW r \in Runs, NEW i \in Input, NEW works \in BOOLEAN,
               Perform(r, i, works)
        PROVE  Started
    <3> DEFINE w == CanPerform(i, works)
    <3>1. w \in BOOLEAN /\ Attempt(r, i, w)
      BY <2>1 DEF Perform, CanPerform, Input
    <3>2. /\ run'[r].input = i
          /\ \/ history' = history
             \/ w /\ history'.performed = history.performed \cup {r}
      <4> HIDE DEF w
      <4> QED
        BY <1>1, <3>1, AttemptEffect DEF IInv
    <3> QED
      BY <3>2 DEF CanPerform
  <2>2. ASSUME NEW r \in Runs, NEW i \in Input, NEW works \in BOOLEAN, Create(r, i, works)
        PROVE  Started
    BY <2>1, <2>2 DEF Create, Ask, Announce, Input
  <2>3. ASSUME NEW r \in Runs, NEW works \in BOOLEAN, Resume(r, works)
        PROVE  Started
    <3>1. run[r].input \in Input
      BY <1>1 DEF IInv, TypeOK
    <3> QED
      BY <2>1, <2>3, <3>1 DEF Resume
  <2>4. ASSUME NEW r \in Runs, NEW decision \in {"yes", "no"}, Decide(r, decision)
        PROVE  Started
    <3>1. history'.performed = history.performed
      BY <1>1, <2>4 DEF Decide, IInv, TypeOK
    <3> QED
      BY <3>1
  <2>5. ASSUME NEW r \in Runs, NEW ok \in BOOLEAN, Finish(r, ok) \/ Timeout(r) \/ Abort(r)
        PROVE  Started
    BY <2>5 DEF Finish, Timeout, Abort
  <2>6. ASSUME NEW engage \in BOOLEAN, KillSwitch(engage)
        PROVE  Started
    BY <2>6 DEF KillSwitch
  <2>7. CASE UNCHANGED vars
    BY <2>7 DEF vars
  <2> QED
    BY <1>1, <2>2, <2>3, <2>4, <2>5, <2>6, <2>7 DEF Next
<1> QED
  BY Inductive, <1>1, PTL DEF Spec, KillSwitchStops

-----------------------------------------------------------------------------
(****************************** refinement ********************************)

\* One executor's move is the move of its run through the gate.
LEMMA MoveMaps ==
    ASSUME NEW r \in Runs, NEW from, NEW to,
           \A s \in Runs : s # r => cont'[s] = cont[s],
           PhaseOf(cont[r]) \in from, PhaseOf(cont'[r]) = to
    PROVE  Gate!Move(r, from, to)
BY DEF Gate!Move

\* The step of an executor whose input is fixed leaves "gated" alone.
LEMMA GatedStays ==
    ASSUME \A s \in Runs : GatedOf(s)' = GatedOf(s)
    PROVE  UNCHANGED [s \in Runs |-> GatedOf(s)]
OBVIOUS

\* The initial states of the run store are initial states of the gate.
LEMMA GateInit == Init => Gate!Init
BY DEF Init, Gate!Init, PhaseOf, GatedOf

\* Every step of the agent interface is a step of the gate or leaves it alone.
LEMMA GateStep == IInv /\ [Next]_vars => [Gate!Next]_(Gate!vars)
<1> SUFFICES ASSUME IInv, [Next]_vars PROVE [Gate!Next]_(Gate!vars)
  OBVIOUS
<1> USE DEF IInv
<1>0. ASSUME NEW r \in Runs, NEW i \in Input, NEW works \in BOOLEAN, Perform(r, i, works)
      PROVE  /\ PhaseOf(cont'[r]) \in {"acting", "ended"}
             /\ \A s \in Runs : s # r => run'[s] = run[s] /\ cont'[s] = cont[s]
             /\ cont'[r] # "none" /\ run'[r].input = i
  <2> DEFINE w == CanPerform(i, works)
  <2>1. w \in BOOLEAN /\ Attempt(r, i, w)
    BY <1>0 DEF Perform, CanPerform, Input
  <2> HIDE DEF w
  <2> QED
    BY <2>1, AttemptEffect DEF PhaseOf
<1>1. ASSUME NEW r \in Runs, NEW i \in Input, NEW works \in BOOLEAN, Create(r, i, works)
      PROVE  Gate!Start(r)
  <2>0. cont[r] = "none" /\ PhaseOf(cont[r]) = "new" /\ GatedOf(r) = TRUE
    BY <1>1 DEF Create, PhaseOf, GatedOf
  <2>1. CASE ~i.complete
    <3>1. /\ cont'[r] = "end" /\ run'[r].input = i
          /\ \A s \in Runs : s # r => run'[s] = run[s] /\ cont'[s] = cont[s]
      BY <1>1, <2>1 DEF Create, TypeOK
    <3>2. i.irreversible
      BY <2>1 DEF Input, RunKind
    <3>3. [s \in Runs |-> GatedOf(s)]' = [[s \in Runs |-> GatedOf(s)] EXCEPT ![r] = TRUE]
      BY <2>0, <3>1, <3>2 DEF GatedOf
    <3>4. Gate!Move(r, {"new"}, "ended")
      BY <2>0, <3>1, MoveMaps DEF PhaseOf
    <3> QED
      BY <3>3, <3>4 DEF Gate!Start
  <2>2. CASE i.complete /\ i.irreversible
    <3>1. /\ cont'[r] \in {"gate", "end"} /\ run'[r].input = i
          /\ \A s \in Runs : s # r => run'[s] = run[s] /\ cont'[s] = cont[s]
      BY <1>1, <2>2 DEF Create, Ask, Announce, EnterGate, TypeOK
    <3>2. [s \in Runs |-> GatedOf(s)]' = [[s \in Runs |-> GatedOf(s)] EXCEPT ![r] = TRUE]
      BY <2>0, <2>2, <3>1 DEF GatedOf
    <3>3. Gate!Move(r, {"new"}, "asked") \/ Gate!Move(r, {"new"}, "ended")
      BY <2>0, <3>1, MoveMaps DEF PhaseOf
    <3> QED
      BY <3>2, <3>3 DEF Gate!Start
  <2>3. CASE i.complete /\ ~i.irreversible
    <3>1. Perform(r, i, works)
      BY <1>1, <2>3 DEF Create
    <3>2. [s \in Runs |-> GatedOf(s)]' = [[s \in Runs |-> GatedOf(s)] EXCEPT ![r] = FALSE]
      BY <1>0, <2>0, <2>3, <3>1 DEF GatedOf
    <3>3. \E to \in {"acting", "ended"} : Gate!Move(r, {"new"}, to)
      BY <1>0, <2>0, <3>1, MoveMaps
    <3> QED
      BY <3>2, <3>3 DEF Gate!Start
  <2> QED
    BY <2>1, <2>2, <2>3 DEF Input
<1>2. ASSUME NEW r \in Runs, NEW works \in BOOLEAN, Resume(r, works)
      PROVE  Gate!Act(r) \/ Gate!End(r)
  <2>1. CASE cont[r] = "no"
    <3>1. /\ cont'[r] = "end" /\ \A s \in Runs : s # r => cont'[s] = cont[s]
          /\ \A s \in Runs : run'[s].input = run[s].input
      BY <1>2, <2>1 DEF Resume, Close, TypeOK
    <3>2. \A s \in Runs : GatedOf(s)' = GatedOf(s)
      BY <2>1, <3>1 DEF GatedOf
    <3>3. Gate!Move(r, {"granted", "refused", "acting"}, "ended")
      BY <2>1, <3>1, MoveMaps DEF PhaseOf
    <3> QED
      BY <3>2, <3>3, GatedStays DEF Gate!End
  <2>2. CASE cont[r] = "yes"
    <3>1. Perform(r, run[r].input, works) /\ run[r].input \in Input
      BY <1>2, <2>2 DEF Resume, TypeOK
    <3>2. \A s \in Runs : GatedOf(s)' = GatedOf(s)
      BY <1>0, <2>2, <3>1 DEF GatedOf
    <3>3. PhaseOf(cont[r]) = "granted"
      BY <2>2 DEF PhaseOf
    <3>4. \/ Gate!Move(r, {"granted"}, "acting")
          \/ Gate!Move(r, {"granted", "refused", "acting"}, "ended")
      BY <1>0, <3>1, <3>3, MoveMaps
    <3> QED
      BY <3>2, <3>4, GatedStays DEF Gate!Act, Gate!End
  <2> QED
    BY <1>2, <2>1, <2>2 DEF Resume
<1>3. ASSUME NEW r \in Runs, NEW ok \in BOOLEAN, Finish(r, ok)
      PROVE  Gate!End(r)
  <2>1. /\ cont'[r] = "end" /\ \A s \in Runs : s # r => cont'[s] = cont[s]
        /\ \A s \in Runs : run'[s].input = run[s].input
        /\ cont[r] \in {"submit", "execute"}
    BY <1>3 DEF Finish, Close, TypeOK
  <2>2. \A s \in Runs : GatedOf(s)' = GatedOf(s)
    BY <2>1 DEF GatedOf
  <2>3. Gate!Move(r, {"granted", "refused", "acting"}, "ended")
    BY <2>1, MoveMaps DEF PhaseOf
  <2> QED
    BY <2>2, <2>3, GatedStays DEF Gate!End
<1>4. ASSUME NEW r \in Runs, NEW decision \in {"yes", "no"},
             r \in pending, Settle(r, decision),
             \A s \in Runs : run'[s].input = run[s].input
      PROVE  Gate!Decide(r)
  <2>1. /\ cont[r] = "gate" /\ cont'[r] = decision
        /\ \A s \in Runs : s # r => cont'[s] = cont[s]
    BY <1>4 DEF Settle, RunInv, TypeOK
  <2>2. \A s \in Runs : GatedOf(s)' = GatedOf(s)
    BY <1>4, <2>1 DEF GatedOf
  <2>3. Gate!Move(r, {"asked"}, "granted") \/ Gate!Move(r, {"asked"}, "refused")
    BY <2>1, MoveMaps DEF PhaseOf
  <2> QED
    BY <2>2, <2>3, GatedStays DEF Gate!Decide
<1>5. ASSUME UNCHANGED cont, \A s \in Runs : run'[s].input = run[s].input
      PROVE  UNCHANGED Gate!vars
  BY <1>5 DEF Gate!vars, GatedOf
<1>6. ASSUME NEW r \in Runs, NEW decision \in {"yes", "no"}, Decide(r, decision)
      PROVE  Gate!Decide(r)
  BY <1>4, <1>6 DEF Decide
<1>7. ASSUME NEW r \in Runs, Timeout(r) \/ Abort(r)
      PROVE  Gate!Decide(r) \/ UNCHANGED Gate!vars
  <2>1. \A s \in Runs : run'[s].input = run[s].input
    BY <1>7 DEF Timeout, Abort, Close, TypeOK
  <2>2. (r \in pending /\ Settle(r, "no")) \/ UNCHANGED cont
    BY <1>7 DEF Timeout, Abort
  <2> QED
    BY <1>4, <1>5, <2>1, <2>2
<1>8. ASSUME NEW engage \in BOOLEAN, KillSwitch(engage)
      PROVE  UNCHANGED Gate!vars
  BY <1>5, <1>8 DEF KillSwitch
<1>9. CASE UNCHANGED vars
  BY <1>5, <1>9 DEF vars
<1> QED
  BY <1>1, <1>2, <1>3, <1>6, <1>7, <1>8, <1>9 DEF Next, Gate!Next

\* The safety part of the refinement: the executors, as a system, never leave
\* the behaviour ApprovalGate allows.
THEOREM GateImplemented == Spec => Gate!Init /\ [][Gate!Next]_(Gate!vars)
BY GateInit, GateStep, Inductive, PTL DEF Spec
=============================================================================
