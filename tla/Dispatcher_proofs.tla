-------------------------- MODULE Dispatcher_proofs --------------------------
(***************************************************************************)
(* What the dispatcher guarantees of acceptance, for any processes,        *)
(* packets, callers, faults and ledgers, with processes that die.  The     *)
(* actions of the specification with crashes include those of the one      *)
(* without, so one inductive invariant serves both.                        *)
(***************************************************************************)
EXTENDS Dispatcher, AttemptLedger_proofs, LeafOutcome_proofs

Statuses ==
  [success : BOOLEAN, completed : BOOLEAN, childOK : BOOLEAN,
   failure : {"unset"} \union Violations, outcome : {"unset"} \union PassedOutcomes,
   gate : BOOLEAN, precondition : BOOLEAN]

ProcessSteps == {"called", "audited", "fallback", "running", "protected", "loaded", "ended"}

Processes ==
  [pc : ProcessSteps, mode : Modes, packet : Packets,
   receipt : [terminal : Nat, outcome : {"unset"} \union PassedOutcomes],
   terminal : Nat, status : Statuses]

RowSet == [packet : Packets, verdict : Verdicts, terminal : Nat, ok : BOOLEAN]

TypeInv ==
  /\ \E S : ledger \in Seq(S)
  /\ rows \in Seq(RowSet)
  /\ worker \in [Workers -> {Idle} \union Processes]
  /\ broken \subseteq Packets

\* A row names a captured terminal event by the row that captured it, and
\* agrees with that row on the packet and on the exit of the child.
TerminalInv ==
  \A k \in DOMAIN rows : rows[k].terminal # NoTerminal =>
    LET n == rows[k].terminal IN
    /\ n \in 1 .. k
    /\ rows[n].terminal = n /\ rows[n].packet = rows[k].packet /\ rows[n].ok = rows[k].ok

\* A ledger L holds the decision of a packet.
Decided(L, packet) == \E i \in DOMAIN L : L[i] = packet

\* The acceptance of a packet is attested in the rows R.
Attested(R, packet) ==
  \E k \in DOMAIN R :
    /\ R[k].packet = packet /\ R[k].verdict = "integration_accepted"
    /\ \E i \in 1 .. k - 1 : /\ R[i].packet = packet /\ R[i].ok
                             /\ R[i].terminal = i
                             /\ R[k].terminal = i

\* What a process knows from the steps it took.
ProcessInv ==
  \A w \in Workers : Busy(w) =>
    LET p == worker[w] IN
    /\ p.pc # "called" => Decided(ledger, p.packet)
    /\ p.pc = "loaded" =>
         /\ p.mode = "finalize" /\ p.terminal \in DOMAIN rows
         /\ rows[p.terminal].terminal = p.terminal
         /\ rows[p.terminal].packet = p.packet
    /\ p.pc # "ended" => p.status.outcome = "unset"
    /\ p.status.outcome = "terminal_outcome_accepted" =>
         p.mode = "finalize" /\ Attested(rows, p.packet)

\* Decisions are packets with keys of their own, and a result has a decision,
\* the acceptance of which is attested if the result says so.
LedgerInv ==
  /\ \A i \in DOMAIN ledger : ledger[i].type \in {"pre", "post"}
  /\ \A i \in DOMAIN ledger : ledger[i].type = "pre" => ledger[i] \in Packets
  /\ \A i, j \in DOMAIN ledger :
       ledger[i].type = "pre" /\ ledger[j].type = "pre" /\ PairKey(ledger[i]) = PairKey(ledger[j])
       => i = j
  /\ \A j \in DOMAIN ledger : ledger[j].type = "post" =>
       \E i \in DOMAIN ledger : /\ ledger[i].type = "pre"
                                /\ PairKey(ledger[i]) = PairKey(ledger[j])
                                /\ ledger[j].accepted => Attested(rows, ledger[i])

\* A finalization that holds the lock of its dispatch id.
Holds(w) == Busy(w) /\ worker[w].mode = "finalize" /\ worker[w].pc # "called"

\* One finalization at a time holds the lock of a dispatch id, and as long as
\* it does, the attempt is not accepted.
LockInv ==
  /\ \A v, w \in Workers :
       Holds(v) /\ Holds(w) /\ worker[v].packet.id = worker[w].packet.id => v = w
  /\ \A w \in Workers : Holds(w) => \A j \in Posts(worker[w].packet) : ~ledger[j].accepted

Inv == TypeInv /\ TerminalInv /\ ProcessInv /\ LedgerInv /\ LockInv

USE DispatcherAssumption DEF NoTerminal, Idle

-----------------------------------------------------------------------------
(* Sequences that grow.                                                    *)

\* What Append does to a sequence, its type and its domain.
LEMMA AppendKeeps ==
  ASSUME NEW S, NEW s \in Seq(S), NEW e
  PROVE  /\ Append(s, e) \in Seq(S \union {e})
         /\ e \in S => Append(s, e) \in Seq(S)
         /\ DOMAIN Append(s, e) = DOMAIN s \union {Len(s) + 1}
         /\ Len(s) + 1 \notin DOMAIN s
         /\ Append(s, e)[Len(s) + 1] = e
         /\ \A i \in DOMAIN s : Append(s, e)[i] = s[i]
<1>1. s \in Seq(S \union {e})
  OBVIOUS
<1>2. Append(s, e) \in Seq(S \union {e})
  BY <1>1
<1>3. e \in S => Append(s, e) \in Seq(S)
  OBVIOUS
<1>4. /\ DOMAIN Append(s, e) = DOMAIN s \union {Len(s) + 1} /\ Len(s) + 1 \notin DOMAIN s
      /\ Append(s, e)[Len(s) + 1] = e /\ \A i \in DOMAIN s : Append(s, e)[i] = s[i]
  BY <1>1
<1> QED BY <1>2, <1>3, <1>4

\* Every attestation row is well formed.
LEMMA RowsTyped == TypeInv => \A k \in DOMAIN rows : rows[k] \in RowSet
<1>1. ASSUME NEW S, NEW s \in Seq(S), NEW k \in DOMAIN s PROVE s[k] \in S
  OBVIOUS
<1> QED BY <1>1 DEF TypeInv

-----------------------------------------------------------------------------
(* What a step of a process that is not called anew does, in the terms     *)
(* that the other parts of the invariant need.                             *)

\* A process moves on, or returns; nobody else does.
Moved(w) ==
  /\ worker[w] \in Processes
  /\ worker' \in [Workers -> {Idle} \union Processes]
  /\ \A v \in Workers \ {w} : worker'[v] = worker[v]
  /\ \/ worker'[w] = Idle
     \/ /\ worker'[w] \in Processes
        /\ worker'[w].pc # "called" /\ worker[w].pc # "ended"
        /\ worker'[w].packet = worker[w].packet /\ worker'[w].mode = worker[w].mode
        /\ worker'[w].pc = "loaded" => LoadTerminal(w)
        /\ worker'[w].status.outcome = worker[w].status.outcome \/ Gate(w)

\* A process attests a row, or none.
Attests(w) ==
  \/ rows' = rows
  \/ \E r \in RowSet :
       /\ rows' = Append(rows, r) /\ r.packet = worker[w].packet
       /\ r.terminal \in {NoTerminal, Len(rows) + 1} \/ Gate(w)
       /\ r.verdict = "integration_accepted" => Gate(w)

\* A row that a step adds is about the packet of the process that moved, and
\* only the gate attests an acceptance.
LEMMA NewRow ==
  ASSUME TypeInv, NEW w \in Workers, Attests(w), NEW k \in DOMAIN rows' \ DOMAIN rows
  PROVE  /\ rows'[k].packet = worker[w].packet
         /\ rows'[k].verdict = "integration_accepted" => Gate(w)
<1>1. rows \in Seq(RowSet)
  BY DEF TypeInv
<1>2. ASSUME NEW r \in RowSet, rows' = Append(rows, r) PROVE rows'[k] = r
  <2>1. /\ DOMAIN rows' = DOMAIN rows \union {Len(rows) + 1}
        /\ rows'[Len(rows) + 1] = r
    BY <1>1, <1>2, AppendKeeps
  <2> QED BY <2>1
<1>3. PICK r \in RowSet : rows' = Append(rows, r) /\ r.packet = worker[w].packet
  BY DEF Attests
<1>4. CASE Gate(w)
  BY <1>2, <1>3, <1>4
<1>5. CASE ~Gate(w)
  <2>1. PICK q \in RowSet : rows' = Append(rows, q) /\ q.verdict # "integration_accepted"
    BY <1>5 DEF Attests
  <2> QED BY <1>2, <1>3, <2>1
<1> QED BY <1>4, <1>5

\* A process that goes to a later step moves in the sense above.
LEMMA GotoMoves ==
  ASSUME TypeInv, NEW w \in Workers, Busy(w), NEW pc \in ProcessSteps \ {"called", "loaded"},
         NEW status \in Statuses, Goto(w, pc, status),
         worker[w].pc # "ended",
         status.outcome = worker[w].status.outcome \/ Gate(w)
  PROVE  Moved(w)
<1>1. worker[w] \in Processes
  BY DEF TypeInv, Busy
<1>2. worker' = [worker EXCEPT ![w] = [worker[w] EXCEPT !.pc = pc, !.status = status]]
  BY DEF Goto, TypeInv
<1>3. [worker[w] EXCEPT !.pc = pc, !.status = status] \in Processes
  BY <1>1 DEF Processes
<1>4. /\ worker'[w] = [worker[w] EXCEPT !.pc = pc, !.status = status]
      /\ worker' \in [Workers -> {Idle} \union Processes]
      /\ \A v \in Workers \ {w} : worker'[v] = worker[v]
  BY <1>2, <1>3 DEF TypeInv
<1> QED BY <1>1, <1>3, <1>4 DEF Moved, Processes

\* So does one that returns.
LEMMA ReturnMoves ==
  ASSUME TypeInv, NEW w \in Workers, Busy(w), Return(w)
  PROVE  Moved(w)
BY DEF TypeInv, Busy, Return, Moved

\* A busy process is well formed.
LEMMA StatusType ==
  ASSUME TypeInv, NEW w \in Workers, Busy(w)
  PROVE  worker[w] \in Processes /\ worker[w].status \in Statuses
BY DEF TypeInv, Busy, Processes

\* The rows that steps write are well formed.
LEMMA RowType ==
  ASSUME TypeInv, NEW w \in Workers, Busy(w), NEW verdict \in Verdicts, NEW terminal \in Nat,
         NEW ok \in BOOLEAN
  PROVE  /\ Row(worker[w].packet, verdict, terminal, ok) \in RowSet
         /\ Row(worker[w].packet, verdict, terminal, ok).packet = worker[w].packet
         /\ Row(worker[w].packet, verdict, terminal, ok).verdict = verdict
         /\ Row(worker[w].packet, verdict, terminal, ok).terminal = terminal
BY StatusType DEF Row, RowSet, Processes

\* The verdict of a supervised run is one of those listed, and no acceptance.
LEMMA RunType ==
  ASSUME NEW faults, NEW run \in LeafOutcomes(faults), run.verdict # "none"
  PROVE  run.verdict \in Verdicts /\ run.verdict # "integration_accepted"
BY OutcomeType DEF RunVerdicts, Verdicts

\* The terminal event that is loaded is that of the newest row of the packet.
LEMMA LoadedTerminal ==
  ASSUME TypeInv, NEW packet, LoadTerminalEvent(packet) # NoTerminal
  PROVE  \E k \in DOMAIN rows : /\ rows[k].packet = packet
                                /\ rows[k].terminal = LoadTerminalEvent(packet)
<1> DEFINE own == TerminalRows(packet)
           newest == CHOOSE k \in own : \A j \in own : j <= k
<1>1. /\ own # {} /\ \A k \in own : rows[k].packet = packet
      /\ LoadTerminalEvent(packet) = rows[newest].terminal
  BY DEF LoadTerminalEvent
<1>2. Len(rows) \in Nat /\ own \subseteq 0 .. Len(rows)
  BY DEF TypeInv, TerminalRows
<1>3. \E k \in own : \A j \in own : j <= k
  BY <1>1, <1>2, GreatestExists
<1>4. newest \in own
  BY <1>3
<1>5. own \subseteq DOMAIN rows
  BY DEF TerminalRows
<1> QED BY <1>1, <1>4, <1>5

\* Every step of a process, its death included, moves it, attests at most one
\* row and leaves the routing ledger alone but at the audit's two ends.
LEMMA StepMoves ==
  ASSUME TypeInv, NEW w \in Workers,
         \/ Proceed(w) \/ ChildEnds(w) \/ RunLost(w) \/ ProtectedEnds(w) \/ Crash(w)
  PROVE  /\ Moved(w) /\ Attests(w) /\ UNCHANGED <<installed, calls>>
         /\ ledger' = ledger \/ StartAudit(w) \/ Finish(w)
<1> USE DEF Attests
<1>1. CASE StartAudit(w)
  <2>1. Busy(w) /\ worker[w].pc = "called" /\ rows' = rows
    BY <1>1 DEF StartAudit, Busy
  <2>2. CASE Return(w)
    BY <1>1, <2>1, <2>2, ReturnMoves DEF StartAudit
  <2>3. ASSUME NEW pc \in {"audited", "ended"}, NEW status \in Statuses,
               status.outcome = worker[w].status.outcome, Goto(w, pc, status)
        PROVE  Moved(w)
    BY <2>1, <2>3, GotoMoves DEF ProcessSteps
  <2>4. worker[w].status \in Statuses
    BY <2>1, StatusType
  <2>5. [worker[w].status EXCEPT !.gate = TRUE] \in Statuses
        /\ [worker[w].status EXCEPT !.gate = TRUE].outcome = worker[w].status.outcome
    BY <2>4 DEF Statuses
  <2>6. \/ Return(w)
        \/ Goto(w, "audited", worker[w].status)
        \/ Goto(w, "ended", [worker[w].status EXCEPT !.gate = TRUE])
    BY <1>1 DEF StartAudit
  <2> QED BY <1>1, <2>1, <2>2, <2>3, <2>4, <2>5, <2>6 DEF StartAudit
<1>2. CASE LaunchFails(w) \/ RunLost(w)
  <2>1. Busy(w) /\ worker[w].pc # "ended" /\ Goto(w, "ended", worker[w].status)
    BY <1>2 DEF LaunchFails, RunLost, Launching, At, Busy
  <2>2. Moved(w)
    BY <2>1, StatusType, GotoMoves DEF ProcessSteps
  <2> QED BY <1>2, <2>2 DEF LaunchFails, RunLost
<1>3. CASE FinalizeUnready(w)
  <2>1. Busy(w) /\ worker[w].pc # "ended"
    BY <1>3 DEF FinalizeUnready, At, Busy
  <2>2. Moved(w)
    BY <1>3, <2>1, StatusType, GotoMoves DEF FinalizeUnready, ProcessSteps, Statuses
  <2> QED BY <1>3, <2>2 DEF FinalizeUnready
<1>4. CASE Launch(w) \/ NativeMatch(w) \/ NativeRefused(w)
  <2>1. Busy(w) /\ worker[w].pc # "ended"
    BY <1>4 DEF Launch, NativeMatch, NativeRefused, Launching, At, Busy
  <2>2. PICK verdict \in {"launch_config_match", "match"} \union NativeRefusals :
          rows' = Append(rows, Row(worker[w].packet, verdict, NoTerminal, FALSE))
    BY <1>4 DEF Launch, NativeMatch, NativeRefused
  <2>3. verdict \in Verdicts /\ verdict # "integration_accepted"
    BY DEF Verdicts, NativeRefusals
  <2>4. Attests(w)
    <3>1. NoTerminal \in Nat /\ FALSE \in BOOLEAN
      OBVIOUS
    <3>2. /\ Row(worker[w].packet, verdict, NoTerminal, FALSE) \in RowSet
          /\ Row(worker[w].packet, verdict, NoTerminal, FALSE).packet = worker[w].packet
          /\ Row(worker[w].packet, verdict, NoTerminal, FALSE).verdict = verdict
          /\ Row(worker[w].packet, verdict, NoTerminal, FALSE).terminal = NoTerminal
      BY <2>1, <2>3, StatusType DEF Row, RowSet, Processes
    <3> QED BY <2>2, <2>3, <3>2
  <2>5. \E pc \in {"running", "ended", "protected", "fallback"} :
          \/ Goto(w, pc, worker[w].status)
          \/ Goto(w, pc, [worker[w].status EXCEPT !.success = TRUE])
    BY <1>4 DEF Launch, NativeMatch, NativeRefused
  <2>6. Moved(w)
    BY <2>1, <2>5, StatusType, GotoMoves DEF ProcessSteps, Statuses
  <2> QED BY <1>4, <2>4, <2>6 DEF Launch, NativeMatch, NativeRefused
<1>5. CASE ChildEnds(w)
  <2>1. Busy(w) /\ worker[w].pc # "ended"
    BY <1>5 DEF ChildEnds, Busy
  <2>2. PICK run \in LeafOutcomes(Faults) :
          /\ rows' = IF run.verdict = "none" THEN rows
                     ELSE Append(rows, Row(worker[w].packet, run.verdict,
                            IF run.captured THEN Len(rows) + 1 ELSE NoTerminal, run.ok))
          /\ Goto(w, "ended",
               [worker[w].status EXCEPT
                  !.success = run.verdict = "typed_completed",
                  !.completed = TRUE, !.childOK = run.ok, !.failure = run.failure])
    BY <1>5 DEF ChildEnds
  <2>3. Moved(w)
    BY <2>1, <2>2, OutcomeType, StatusType, GotoMoves DEF ProcessSteps, Statuses
  <2>4. Attests(w)
    <3>1. Len(rows) + 1 \in Nat
      BY DEF TypeInv
    <3>2. CASE run.verdict = "none"
      BY <2>2, <3>2 DEF Attests
    <3>3. CASE run.verdict # "none"
      <4> DEFINE terminal == IF run.captured THEN Len(rows) + 1 ELSE NoTerminal
                 row == Row(worker[w].packet, run.verdict, terminal, run.ok)
      <4>1. rows' = Append(rows, row)
        BY <2>2, <3>3
      <4>2. run.verdict \in Verdicts /\ run.verdict # "integration_accepted"
        BY <2>2, <3>3, RunType
      <4>3. run.ok \in BOOLEAN
        BY <2>2, OutcomeType
      <4>4. terminal \in Nat /\ terminal \in {NoTerminal, Len(rows) + 1}
        BY <3>1
      <4>5. /\ row \in RowSet /\ row.packet = worker[w].packet
            /\ row.verdict = run.verdict /\ row.terminal = terminal
        <5> HIDE DEF terminal
        <5>1. worker[w].packet \in Packets
          BY <2>1, StatusType DEF Processes
        <5> QED BY <4>2, <4>3, <4>4, <5>1 DEF Row, RowSet
      <4> HIDE DEF terminal
      <4> HIDE DEF row
      <4> QED BY <4>1, <4>2, <4>4, <4>5
    <3> QED BY <3>2, <3>3
  <2> QED BY <1>5, <2>3, <2>4 DEF ChildEnds
<1>6. CASE ProtectedEnds(w)
  <2>1. Busy(w) /\ worker[w].pc # "ended"
    BY <1>6 DEF ProtectedEnds, Busy
  <2>2. PICK started \in BOOLEAN, ok \in BOOLEAN, captured \in BOOLEAN, attested \in BOOLEAN :
          /\ rows' = IF attested
                     THEN Append(rows, Row(worker[w].packet,
                            IF ok THEN "protected_completed" ELSE "protected_failed",
                            IF captured THEN Len(rows) + 1 ELSE NoTerminal, ok))
                     ELSE rows
          /\ Goto(w, "ended", [worker[w].status EXCEPT
               !.success = ok /\ attested, !.completed = started, !.childOK = ok])
    BY <1>6 DEF ProtectedEnds
  <2>3. Moved(w)
    BY <2>1, <2>2, StatusType, GotoMoves DEF ProcessSteps, Statuses
  <2>4. Attests(w)
    <3>1. Len(rows) + 1 \in Nat
      BY DEF TypeInv
    <3> DEFINE verdict == IF ok THEN "protected_completed" ELSE "protected_failed"
    <3>2. verdict \in Verdicts /\ verdict # "integration_accepted"
      BY DEF Verdicts
    <3>3. rows' = rows \/ rows' = Append(rows, Row(worker[w].packet, verdict,
                            IF captured THEN Len(rows) + 1 ELSE NoTerminal, ok))
      BY <2>2
    <3> HIDE DEF verdict
    <3> QED BY <2>1, <3>1, <3>2, <3>3, RowType
  <2> QED BY <1>6, <2>3, <2>4 DEF ProtectedEnds
<1>7. CASE LoadTerminal(w)
  <2> DEFINE terminal == LoadTerminalEvent(worker[w].packet)
  <2>1. /\ worker[w] \in Processes /\ worker[w].pc = "audited"
        /\ worker' = [worker EXCEPT ![w].pc = "loaded", ![w].terminal = terminal]
        /\ rows' = rows /\ ledger' = ledger
    BY <1>7, StatusType DEF LoadTerminal, At, Busy
  <2>2. terminal \in Nat
    <3>1. PICK k \in DOMAIN rows : rows[k].terminal = terminal
      BY <1>7, LoadedTerminal DEF LoadTerminal
    <3>2. rows[k] \in RowSet
      BY <3>1 DEF TypeInv
    <3> QED BY <3>1, <3>2 DEF RowSet
  <2> HIDE DEF terminal
  <2>3. Moved(w)
    BY <1>7, <2>1, <2>2 DEF Moved, TypeInv, Processes, ProcessSteps
  <2> QED BY <1>7, <2>1, <2>3 DEF LoadTerminal
<1>8. CASE Gate(w)
  <2>1. Busy(w) /\ worker[w].pc # "ended" /\ worker[w] \in Processes
    BY <1>8, StatusType DEF Gate, Busy
  <2> DEFINE ok == TerminalSucceeded(worker[w].terminal)
  <2>2. PICK outcome \in {"unset"} \union PassedOutcomes :
          /\ rows' = Append(rows, Row(worker[w].packet, GateVerdict(outcome),
                                      worker[w].terminal, ok))
          /\ Goto(w, "ended", [worker[w].status EXCEPT !.success = outcome # "unset",
                                                       !.completed = TRUE, !.childOK = ok,
                                                       !.outcome = outcome])
    BY <1>8, <2>1 DEF Gate, Processes
  <2>3. ok \in BOOLEAN /\ worker[w].terminal \in Nat
    BY <2>1 DEF TerminalSucceeded, Processes
  <2>4. GateVerdict(outcome) \in Verdicts
    BY DEF GateVerdict, PassedOutcomes, Verdicts
  <2> HIDE DEF ok
  <2>5. Moved(w)
    BY <1>8, <2>1, <2>2, <2>3, StatusType, GotoMoves DEF ProcessSteps, Statuses
  <2>6. Attests(w)
    BY <1>8, <2>1, <2>2, <2>3, <2>4, RowType
  <2> QED BY <1>8, <2>5, <2>6 DEF Gate
<1>9. CASE Finish(w) \/ Crash(w) \/ GateLost(w)
  <2>1. Busy(w) /\ Return(w)
    BY <1>9 DEF Finish, Crash, GateLost, Busy
  <2> QED BY <1>9, <2>1, ReturnMoves DEF Finish, Crash, GateLost
<1> QED
  BY <1>1, <1>2, <1>3, <1>4, <1>5, <1>6, <1>7, <1>8, <1>9 DEF Proceed

-----------------------------------------------------------------------------
\* The invariant holds before anything was run.
LEMMA InitInv == DispatchInit => Inv
<1> SUFFICES ASSUME DispatchInit PROVE Inv
  OBVIOUS
<1> USE DEF DispatchInit, Init, Busy
<1>1. ledger \in Seq({}) /\ rows \in Seq(RowSet)
  OBVIOUS
<1>2. worker \in [Workers -> {Idle} \union Processes]
  OBVIOUS
<1>3. TypeInv
  BY <1>1, <1>2 DEF TypeInv
<1>4. TerminalInv /\ ProcessInv /\ LedgerInv /\ LockInv
  BY DEF TerminalInv, ProcessInv, LedgerInv, LockInv, Holds
<1> QED BY <1>3, <1>4 DEF Inv

-----------------------------------------------------------------------------
\* Who may move in a step.
LEMMA Movers ==
  ASSUME [CrashNext]_dispatchVars
  PROVE  \/ \E w \in Workers : Call(w)
         \/ \E w \in Workers :
              \/ Proceed(w) \/ ChildEnds(w) \/ RunLost(w) \/ ProtectedEnds(w) \/ Crash(w)
         \/ UNCHANGED dispatchVars
BY DEF CrashNext, DispatchNext

\* A call makes an idle process busy and touches no file.
LEMMA CallType ==
  ASSUME TypeInv, NEW w \in Workers, Call(w)
  PROVE  /\ ~Busy(w) /\ UNCHANGED <<ledger, installed, rows>>
         /\ worker' \in [Workers -> {Idle} \union Processes]
         /\ \A v \in Workers \ {w} : worker'[v] = worker[v]
         /\ worker'[w].pc = "called" /\ worker'[w].status.outcome = "unset"
<1>1. PICK packet \in Packets, mode \in CallerModes, receipt \in Receipts \union {NoReceipt} :
        worker' = [worker EXCEPT ![w] =
                     Process("called", mode, packet, receipt, NoTerminal, EmptyStatus)]
  BY DEF Call
<1>2. receipt \in [terminal : Nat, outcome : {"unset"} \union PassedOutcomes]
  <2>1. Captured \subseteq Nat
    BY RowsTyped DEF Captured, RowSet
  <2>2. CASE receipt \in Receipts
    BY <2>1, <2>2 DEF Receipts
  <2>3. CASE receipt = NoReceipt
    BY <2>3 DEF NoReceipt
  <2> QED BY <2>2, <2>3
<1>3. Process("called", mode, packet, receipt, NoTerminal, EmptyStatus) \in Processes
  BY <1>2 DEF Process, Processes, ProcessSteps, EmptyStatus, Statuses
<1> QED BY <1>1, <1>3 DEF Call, TypeInv, Process, EmptyStatus, Busy

\* The ledger and the rows only grow.
LEMMA FilesGrow ==
  ASSUME TypeInv, [CrashNext]_dispatchVars
  PROVE  /\ rows' \in Seq(RowSet)
         /\ \A k \in DOMAIN rows : k \in DOMAIN rows' /\ rows'[k] = rows[k]
         /\ \E S : ledger' \in Seq(S)
         /\ \A i \in DOMAIN ledger : i \in DOMAIN ledger' /\ ledger'[i] = ledger[i]
         /\ UNCHANGED installed
<1>1. CASE \E w \in Workers : Call(w)
  BY <1>1, CallType DEF TypeInv
<1>2. ASSUME NEW w \in Workers,
             \/ Proceed(w) \/ ChildEnds(w) \/ RunLost(w) \/ ProtectedEnds(w) \/ Crash(w)
      PROVE  /\ rows' \in Seq(RowSet)
             /\ \A k \in DOMAIN rows : k \in DOMAIN rows' /\ rows'[k] = rows[k]
             /\ \E S : ledger' \in Seq(S)
             /\ \A i \in DOMAIN ledger : i \in DOMAIN ledger' /\ ledger'[i] = ledger[i]
             /\ UNCHANGED installed
  <2>1. Attests(w) /\ UNCHANGED installed /\ (ledger' = ledger \/ StartAudit(w) \/ Finish(w))
    BY <1>2, StepMoves
  <2>2. /\ rows' \in Seq(RowSet)
        /\ \A k \in DOMAIN rows : k \in DOMAIN rows' /\ rows'[k] = rows[k]
    <3>1. rows \in Seq(RowSet)
      BY DEF TypeInv
    <3>2. CASE rows' = rows
      BY <3>1, <3>2
    <3>3. ASSUME NEW r \in RowSet, rows' = Append(rows, r)
          PROVE  /\ rows' \in Seq(RowSet)
                 /\ \A k \in DOMAIN rows : k \in DOMAIN rows' /\ rows'[k] = rows[k]
      BY <3>1, <3>3, AppendKeeps
    <3> QED BY <2>1, <3>2, <3>3 DEF Attests
  <2>3. ledger' = ledger \/ \E e : ledger' = Append(ledger, e)
    BY <2>1 DEF StartAudit, AlreadyDecided, Decides, Finish
  <2>4. PICK S : ledger \in Seq(S)
    BY DEF TypeInv
  <2>5. ASSUME NEW e, ledger' = Append(ledger, e)
        PROVE  /\ \E T : ledger' \in Seq(T)
               /\ \A i \in DOMAIN ledger : i \in DOMAIN ledger' /\ ledger'[i] = ledger[i]
    <3>1. ledger' \in Seq(S \union {e})
      BY <2>4, <2>5, AppendKeeps
    <3>2. \A i \in DOMAIN ledger : i \in DOMAIN ledger' /\ ledger'[i] = ledger[i]
      BY <2>4, <2>5, AppendKeeps
    <3> QED BY <3>1, <3>2
  <2> QED BY <2>1, <2>2, <2>3, <2>4, <2>5
<1>3. CASE UNCHANGED dispatchVars
  BY <1>3 DEF dispatchVars, TypeInv
<1> QED BY <1>1, <1>2, <1>3, Movers

\* A packet that the files failed is one of those that are worked on, and is
\* not forgotten.
LEMMA BrokenGrows ==
  ASSUME TypeInv, [CrashNext]_dispatchVars
  PROVE  broken \subseteq broken' /\ broken' \subseteq Packets
<1>1. ASSUME NEW w \in Workers, Busy(w) PROVE worker[w].packet \in Packets
  BY <1>1, StatusType DEF Processes
<1>2. ASSUME NEW w \in Workers, StartAudit(w) \/ Finish(w)
      PROVE  broken' = broken \/ (broken' = broken \union {worker[w].packet} /\ Busy(w))
  BY <1>2 DEF StartAudit, Finish, Busy
<1>3. CASE \E w \in Workers : StartAudit(w) \/ Finish(w)
  BY <1>1, <1>2, <1>3 DEF TypeInv
<1>4. CASE UNCHANGED broken
  BY <1>4 DEF TypeInv
<1> QED
  BY <1>3, <1>4
  DEF CrashNext, DispatchNext, dispatchVars, Call, Proceed, ChildEnds, RunLost, ProtectedEnds, Crash,
      NativeRefused, NativeMatch, LaunchFails, Launch, FinalizeUnready, LoadTerminal, Gate, GateLost

\* Every step keeps the types.
LEMMA TypeStep == ASSUME TypeInv, [CrashNext]_dispatchVars PROVE TypeInv'
<1>1. worker' \in [Workers -> {Idle} \union Processes]
  BY Movers, CallType, StepMoves DEF Moved, TypeInv, dispatchVars
<1> QED BY <1>1, FilesGrow, BrokenGrows DEF TypeInv

\* Every step keeps the rows in agreement with the terminal events they name.
LEMMA TerminalStep ==
  ASSUME TypeInv, TerminalInv, ProcessInv, [CrashNext]_dispatchVars PROVE TerminalInv'
<1>1. CASE rows' = rows
  BY <1>1 DEF TerminalInv
<1>2. ASSUME NEW w \in Workers, NEW r \in RowSet, rows' = Append(rows, r),
             \/ r.terminal \in {NoTerminal, Len(rows) + 1}
             \/ /\ r.terminal \in DOMAIN rows /\ rows[r.terminal].terminal = r.terminal
                /\ rows[r.terminal].packet = r.packet /\ rows[r.terminal].ok = r.ok
      PROVE  TerminalInv'
  <2>1. /\ DOMAIN rows' = DOMAIN rows \union {Len(rows) + 1}
        /\ DOMAIN rows = 1 .. Len(rows) /\ Len(rows) \in Nat
        /\ rows'[Len(rows) + 1] = r
        /\ \A k \in DOMAIN rows : rows'[k] = rows[k]
    BY <1>2, AppendKeeps DEF TypeInv
  <2>2. ASSUME NEW k \in DOMAIN rows, rows'[k].terminal # NoTerminal
        PROVE  /\ rows'[k].terminal \in 1 .. k
               /\ rows'[rows'[k].terminal].terminal = rows'[k].terminal
               /\ rows'[rows'[k].terminal].packet = rows'[k].packet
               /\ rows'[rows'[k].terminal].ok = rows'[k].ok
    BY <2>1, <2>2 DEF TerminalInv
  <2>3. ASSUME r.terminal # NoTerminal
        PROVE  /\ r.terminal \in 1 .. Len(rows) + 1
               /\ rows'[r.terminal].terminal = r.terminal
               /\ rows'[r.terminal].packet = r.packet
               /\ rows'[r.terminal].ok = r.ok
    BY <1>2, <2>1, <2>3
  <2> QED BY <2>1, <2>2, <2>3 DEF TerminalInv
<1>3. ASSUME NEW w \in Workers, Gate(w) PROVE TerminalInv'
  <2> DEFINE n == worker[w].terminal
             ok == TerminalSucceeded(n)
  <2>1. /\ Busy(w) /\ n \in DOMAIN rows /\ rows[n].terminal = n
        /\ rows[n].packet = worker[w].packet /\ n # NoTerminal
    <3>1. Busy(w) /\ n \in DOMAIN rows /\ rows[n].terminal = n
          /\ rows[n].packet = worker[w].packet
      BY <1>3 DEF Gate, Busy, ProcessInv
    <3> QED BY <3>1 DEF TypeInv
  <2>2. PICK verdict : rows' = Append(rows, Row(worker[w].packet, verdict, n, ok))
    BY <1>3 DEF Gate
  <2>3. ok = rows[n].ok
    <3>1. \A k \in DOMAIN rows : rows[k].ok \in BOOLEAN
      BY RowsTyped DEF RowSet
    <3>2. ok \in BOOLEAN /\ (ok <=> rows[n].ok)
      BY <2>1 DEF TerminalSucceeded, TerminalInv
    <3> QED BY <2>1, <3>1, <3>2
  <2>4. /\ DOMAIN rows' = DOMAIN rows \union {Len(rows) + 1}
        /\ DOMAIN rows = 1 .. Len(rows) /\ Len(rows) \in Nat
        /\ rows'[Len(rows) + 1] = Row(worker[w].packet, verdict, n, ok)
        /\ \A k \in DOMAIN rows : rows'[k] = rows[k]
    BY <2>2, AppendKeeps DEF TypeInv
  <2> HIDE DEF n, ok
  <2>5. ASSUME NEW k \in DOMAIN rows, rows'[k].terminal # NoTerminal
        PROVE  /\ rows'[k].terminal \in 1 .. k
               /\ rows'[rows'[k].terminal].terminal = rows'[k].terminal
               /\ rows'[rows'[k].terminal].packet = rows'[k].packet
               /\ rows'[rows'[k].terminal].ok = rows'[k].ok
    BY <2>4, <2>5 DEF TerminalInv
  <2> QED BY <2>1, <2>3, <2>4, <2>5 DEF TerminalInv, Row
<1>4. ASSUME NEW w \in Workers,
             \/ Proceed(w) \/ ChildEnds(w) \/ RunLost(w) \/ ProtectedEnds(w) \/ Crash(w)
      PROVE  TerminalInv'
  BY <1>1, <1>2, <1>3, <1>4, StepMoves DEF Attests
<1> QED BY <1>1, <1>4, Movers, CallType DEF dispatchVars

-----------------------------------------------------------------------------
(* What processes know.                                                    *)

\* An attested acceptance stays attested.
LEMMA AttestedStays ==
  ASSUME TypeInv, [CrashNext]_dispatchVars
  PROVE  \A packet : Attested(rows, packet) => Attested(rows', packet)
<1> SUFFICES ASSUME NEW packet, Attested(rows, packet) PROVE Attested(rows', packet)
  OBVIOUS
<1>1. \A k \in DOMAIN rows : k \in DOMAIN rows' /\ rows'[k] = rows[k]
  BY FilesGrow
<1>2. PICK k \in DOMAIN rows : /\ rows[k].packet = packet
                              /\ rows[k].verdict = "integration_accepted"
                              /\ \E i \in 1 .. k - 1 : /\ rows[i].packet = packet /\ rows[i].ok
                                                       /\ rows[i].terminal = i
                                                       /\ rows[k].terminal = i
  BY DEF Attested
<1>3. PICK i \in 1 .. k - 1 : /\ rows[i].packet = packet /\ rows[i].ok
                             /\ rows[i].terminal = i /\ rows[k].terminal = i
  BY <1>2
<1>4. i \in DOMAIN rows
  BY <1>3 DEF TypeInv
<1>5. /\ k \in DOMAIN rows' /\ rows'[k] = rows[k]
      /\ rows'[i] = rows[i]
  BY <1>1, <1>4
<1> QED BY <1>2, <1>3, <1>5 DEF Attested

\* A recorded decision stays recorded.
LEMMA DecisionStays ==
  ASSUME TypeInv, [CrashNext]_dispatchVars
  PROVE  \A packet : Decided(ledger, packet) => Decided(ledger', packet)
BY FilesGrow DEF Decided

\* The audit starts with the decision on record.
LEMMA AuditedIsDecided ==
  ASSUME TypeInv, NEW w \in Workers, StartAudit(w), Busy(w)'
  PROVE  Decided(ledger', worker[w].packet)
<1>1. \/ AlreadyDecided(worker[w].packet, worker[w].mode)
      \/ Decides(worker[w].packet, worker[w].mode)
  BY DEF StartAudit, Return, Busy, TypeInv
<1>2. CASE AlreadyDecided(worker[w].packet, worker[w].mode)
  BY <1>2 DEF AlreadyDecided, HasPre, Decided
<1>3. CASE Decides(worker[w].packet, worker[w].mode)
  <2>1. ledger' = Append(ledger, worker[w].packet)
    BY <1>3 DEF Decides
  <2>2. PICK S : ledger \in Seq(S)
    BY DEF TypeInv
  <2> QED BY <2>1, <2>2, AppendKeeps DEF Decided
<1> QED BY <1>1, <1>2, <1>3

\* An acceptance that the gate attests rests on a captured exit 0.
LEMMA GateAttests ==
  ASSUME TypeInv, TerminalInv, ProcessInv, NEW w \in Workers, Gate(w),
         worker'[w].status.outcome = "terminal_outcome_accepted"
  PROVE  worker[w].mode = "finalize" /\ Attested(rows', worker[w].packet)
<1> DEFINE n == worker[w].terminal
           ok == TerminalSucceeded(n)
<1>1. /\ Busy(w) /\ worker[w] \in Processes /\ worker[w].mode = "finalize"
      /\ n \in DOMAIN rows /\ rows[n].terminal = n /\ rows[n].packet = worker[w].packet
  <2>1. Busy(w) /\ worker[w].pc = "loaded"
    BY DEF Gate, Busy
  <2> QED BY <2>1, StatusType DEF ProcessInv
<1>2. PICK outcome \in {"unset"} \union (IF ok /\ worker[w].receipt.terminal = n
                                         THEN {worker[w].receipt.outcome} ELSE {}) :
        /\ rows' = Append(rows, Row(worker[w].packet, GateVerdict(outcome), n, ok))
        /\ Goto(w, "ended", [worker[w].status EXCEPT !.success = outcome # "unset",
                                                     !.completed = TRUE, !.childOK = ok,
                                                     !.outcome = outcome])
  BY DEF Gate
<1>3. outcome = "terminal_outcome_accepted"
  BY <1>1, <1>2 DEF Goto, TypeInv, Processes, Statuses
<1>4. ok /\ GateVerdict(outcome) = "integration_accepted"
  BY <1>2, <1>3 DEF GateVerdict
<1>5. rows[n].ok
  <2>1. \E k \in DOMAIN rows : rows[k].terminal = n /\ rows[k].ok
    BY <1>4 DEF TerminalSucceeded
  <2>2. n # NoTerminal
    BY <1>1 DEF TypeInv
  <2> QED BY <2>1, <2>2 DEF TerminalInv
<1>6. /\ DOMAIN rows' = DOMAIN rows \union {Len(rows) + 1}
      /\ DOMAIN rows = 1 .. Len(rows) /\ Len(rows) \in Nat
      /\ rows'[Len(rows) + 1] = Row(worker[w].packet, GateVerdict(outcome), n, ok)
      /\ \A k \in DOMAIN rows : rows'[k] = rows[k]
  BY <1>2, AppendKeeps DEF TypeInv
<1> HIDE DEF n, ok
<1>7. /\ n \in 1 .. Len(rows) + 1 - 1 /\ Len(rows) + 1 \in DOMAIN rows'
      /\ rows'[n] = rows[n]
  BY <1>1, <1>6
<1> QED BY <1>1, <1>4, <1>5, <1>6, <1>7 DEF Attested, Row

\* Every step keeps true what processes know.
LEMMA ProcessStep ==
  ASSUME TypeInv, TerminalInv, ProcessInv, [CrashNext]_dispatchVars PROVE ProcessInv'
<1> SUFFICES ASSUME NEW v \in Workers, Busy(v)'
             PROVE  /\ worker'[v].pc # "called" => Decided(ledger', worker'[v].packet)
                    /\ worker'[v].pc = "loaded" =>
                         /\ worker'[v].mode = "finalize"
                         /\ worker'[v].terminal \in DOMAIN rows'
                         /\ rows'[worker'[v].terminal].terminal = worker'[v].terminal
                         /\ rows'[worker'[v].terminal].packet = worker'[v].packet
                    /\ worker'[v].pc # "ended" => worker'[v].status.outcome = "unset"
                    /\ worker'[v].status.outcome = "terminal_outcome_accepted" =>
                         worker'[v].mode = "finalize" /\ Attested(rows', worker'[v].packet)
  BY DEF ProcessInv
<1>1. CASE worker'[v] = worker[v]
  <2>1. Busy(v)
    BY <1>1 DEF Busy
  <2>2. worker[v].pc # "called" => Decided(ledger', worker[v].packet)
    BY <2>1, DecisionStays DEF ProcessInv
  <2>3. worker[v].status.outcome = "terminal_outcome_accepted" =>
          worker[v].mode = "finalize" /\ Attested(rows', worker[v].packet)
    BY <2>1, AttestedStays DEF ProcessInv
  <2> QED BY <1>1, <2>1, <2>2, <2>3, FilesGrow DEF ProcessInv
<1>2. CASE Call(v)
  BY <1>2, CallType
<1>3. CASE Proceed(v) \/ ChildEnds(v) \/ RunLost(v) \/ ProtectedEnds(v) \/ Crash(v)
  <2>1. /\ worker[v] \in Processes /\ worker'[v] \in Processes
        /\ worker'[v].pc # "called" /\ worker[v].pc # "ended"
        /\ worker'[v].packet = worker[v].packet /\ worker'[v].mode = worker[v].mode
        /\ worker'[v].pc = "loaded" => LoadTerminal(v)
        /\ worker'[v].status.outcome = worker[v].status.outcome \/ Gate(v)
    BY <1>3, StepMoves DEF Moved, Busy
  <2>2. Busy(v)
    BY <2>1 DEF Processes, ProcessSteps, Busy
  <2>3. Decided(ledger', worker[v].packet)
    <3>1. CASE worker[v].pc # "called"
      BY <2>2, <3>1, DecisionStays DEF ProcessInv
    <3>2. CASE worker[v].pc = "called"
      <4>1. StartAudit(v)
        BY <1>3, <3>2 DEF Proceed, ChildEnds, RunLost, ProtectedEnds, Crash, Return, Busy,
          TypeInv, NativeRefused, NativeMatch, LaunchFails, Launch, Launching, At,
          FinalizeUnready, LoadTerminal, Gate, GateLost, Finish
      <4> QED BY <4>1, AuditedIsDecided
    <3> QED BY <3>1, <3>2
  <2>4. ASSUME worker'[v].pc = "loaded"
        PROVE  /\ worker[v].mode = "finalize" /\ worker'[v].terminal \in DOMAIN rows'
               /\ rows'[worker'[v].terminal].terminal = worker'[v].terminal
               /\ rows'[worker'[v].terminal].packet = worker[v].packet
    <3> DEFINE n == LoadTerminalEvent(worker[v].packet)
    <3>1. /\ worker[v].mode = "finalize" /\ n # NoTerminal /\ rows' = rows
          /\ worker' = [worker EXCEPT ![v].pc = "loaded", ![v].terminal = n]
      BY <2>1, <2>4 DEF LoadTerminal, At
    <3>2. worker'[v].terminal = n
      BY <2>1, <3>1 DEF TypeInv, Processes
    <3>3. PICK k \in DOMAIN rows : rows[k].packet = worker[v].packet /\ rows[k].terminal = n
      BY <3>1, LoadedTerminal
    <3> HIDE DEF n
    <3>4. n \in DOMAIN rows /\ rows[n].terminal = n /\ rows[n].packet = worker[v].packet
      BY <3>1, <3>3 DEF TerminalInv, TypeInv
    <3> QED BY <3>1, <3>2, <3>4
  <2>5. worker'[v].pc # "ended" => worker'[v].status.outcome = "unset"
    <3>1. CASE Gate(v)
      <4>1. PICK status : Goto(v, "ended", status)
        BY <3>1 DEF Gate
      <4>2. worker'[v].pc = "ended"
        BY <2>1, <4>1 DEF Goto, TypeInv, Processes
      <4> QED BY <4>2
    <3>2. CASE worker'[v].status.outcome = worker[v].status.outcome
      BY <2>1, <2>2, <3>2 DEF ProcessInv
    <3> QED BY <2>1, <3>1, <3>2
  <2>6. worker'[v].status.outcome = "terminal_outcome_accepted" =>
          worker[v].mode = "finalize" /\ Attested(rows', worker[v].packet)
    <3>1. CASE Gate(v)
      BY <3>1, GateAttests
    <3>2. CASE worker'[v].status.outcome = worker[v].status.outcome
      BY <2>1, <2>2, <3>2 DEF ProcessInv
    <3> QED BY <2>1, <3>1, <3>2
  <2> QED BY <2>1, <2>3, <2>4, <2>5, <2>6
<1> QED BY <1>1, <1>2, <1>3, Movers, CallType, StepMoves DEF Moved, dispatchVars

-----------------------------------------------------------------------------
(* What the ledger holds.                                                  *)

\* A packet is a linked decision, keyed by its dispatch id.
LEMMA PacketLinked ==
  ASSUME NEW packet \in Packets
  PROVE  packet.type = "pre" /\ PairKey(packet) = <<"linked", packet.id>>
BY DEF PairKey

\* The result that a process writes is keyed like its packet, and accepted only
\* if its status is.
LEMMA PostFacts ==
  ASSUME NEW packet, NEW mode, NEW status, NEW now
  PROVE  LET post == PostResult(packet, mode, status, now) IN
         /\ post.type = "post" /\ post.accepted = Accepted(status)
         /\ PairKey(post) = <<"linked", packet.id>>
BY DEF PostResult, PairKey, Linked, CurrentStamp, LinkedSchema, LegacySchema

\* What an append adds to the ledger: a first decision, or the result of a
\* decision, accepted only by the process that finalized it.
LEMMA LedgerMoves ==
  ASSUME TypeInv, ProcessInv, LedgerInv, [CrashNext]_dispatchVars
  PROVE  \/ ledger' = ledger
         \/ \E w \in Workers :
              /\ Busy(w) /\ worker[w] \in Processes
              /\ \/ /\ StartAudit(w) /\ worker[w].mode # "finalize"
                    /\ ledger' = Append(ledger, worker[w].packet)
                    /\ \A i \in DOMAIN ledger : PairKey(ledger[i]) # PairKey(worker[w].packet)
                 \/ \E post :
                      /\ Return(w) /\ ledger' = Append(ledger, post)
                      /\ post.type = "post" /\ PairKey(post) = PairKey(worker[w].packet)
                      /\ \E i \in DOMAIN ledger : /\ ledger[i] = worker[w].packet
                                                 /\ PairKey(ledger[i]) = PairKey(post)
                      /\ post.accepted => /\ Holds(w)
                                          /\ Attested(rows, worker[w].packet)
<1> SUFFICES ASSUME ledger' # ledger
             PROVE  \E w \in Workers :
              /\ Busy(w) /\ worker[w] \in Processes
              /\ \/ /\ StartAudit(w) /\ worker[w].mode # "finalize"
                    /\ ledger' = Append(ledger, worker[w].packet)
                    /\ \A i \in DOMAIN ledger : PairKey(ledger[i]) # PairKey(worker[w].packet)
                 \/ \E post :
                      /\ Return(w) /\ ledger' = Append(ledger, post)
                      /\ post.type = "post" /\ PairKey(post) = PairKey(worker[w].packet)
                      /\ \E i \in DOMAIN ledger : /\ ledger[i] = worker[w].packet
                                                 /\ PairKey(ledger[i]) = PairKey(post)
                      /\ post.accepted => /\ Holds(w)
                                          /\ Attested(rows, worker[w].packet)
  OBVIOUS
<1>1. PICK w \in Workers : StartAudit(w) \/ Finish(w)
  BY Movers, CallType, StepMoves DEF dispatchVars
<1>2. Busy(w) /\ worker[w] \in Processes /\ worker[w].packet \in Packets
  <2>1. Busy(w)
    BY <1>1 DEF StartAudit, Finish, Busy
  <2> QED BY <2>1, StatusType DEF Processes
<1>3. worker[w].packet.type = "pre" /\ PairKey(worker[w].packet) = <<"linked", worker[w].packet.id>>
  BY <1>2, PacketLinked
<1>4. CASE StartAudit(w)
  <2>1. Decides(worker[w].packet, worker[w].mode)
    BY <1>4 DEF StartAudit, AlreadyDecided
  <2>2. /\ worker[w].mode # "finalize" /\ ledger' = Append(ledger, worker[w].packet)
        /\ CanAppend(worker[w].packet)
    BY <2>1 DEF Decides
  <2>3. SameKey(ledger, worker[w].packet) = {}
    BY <1>3, <2>2 DEF CanAppend, EventOK, KeyOK
  <2>4. \A i \in DOMAIN ledger : PairKey(ledger[i]) # PairKey(worker[w].packet)
    BY <2>3 DEF SameKey
  <2> QED BY <1>2, <1>4, <2>1, <2>2, <2>4
<1>5. CASE Finish(w)
  <2>0. PICK now \in Clock :
          LET post == PostResult(worker[w].packet, worker[w].mode, worker[w].status, now)
          IN ledger' = IF CanAppend(post) THEN Append(ledger, post) ELSE ledger
    BY <1>5 DEF Finish
  <2> DEFINE post == PostResult(worker[w].packet, worker[w].mode, worker[w].status, now)
  <2>1. /\ Return(w) /\ ledger' = Append(ledger, post) /\ CanAppend(post)
        /\ worker[w].pc = "ended"
    BY <1>5, <2>0 DEF Finish
  <2>2. /\ post.type = "post" /\ post.accepted = Accepted(worker[w].status)
        /\ PairKey(post) = PairKey(worker[w].packet)
    BY <1>3, PostFacts
  <2>3. \E i \in DOMAIN ledger : ledger[i] = worker[w].packet
    BY <1>2, <2>1 DEF ProcessInv, Decided
  <2>4. post.accepted => Holds(w) /\ Attested(rows, worker[w].packet)
    BY <1>2, <2>1, <2>2 DEF Accepted, ProcessInv, Holds
  <2> HIDE DEF post
  <2> QED BY <1>2, <2>1, <2>2, <2>3, <2>4
<1> QED BY <1>1, <1>4, <1>5

\* Every step keeps decisions unique and acceptances attested.
LEMMA LedgerStep ==
  ASSUME TypeInv, ProcessInv, LedgerInv, [CrashNext]_dispatchVars PROVE LedgerInv'
<1>1. CASE ledger' = ledger
  BY <1>1, AttestedStays DEF LedgerInv
<1>2. ASSUME NEW packet \in Packets, ledger' = Append(ledger, packet),
             \A i \in DOMAIN ledger : PairKey(ledger[i]) # PairKey(packet)
      PROVE  LedgerInv'
  <2>1. PICK S : ledger \in Seq(S)
    BY DEF TypeInv
  <2>2. /\ DOMAIN ledger' = DOMAIN ledger \union {Len(ledger) + 1}
        /\ Len(ledger) + 1 \notin DOMAIN ledger
        /\ ledger'[Len(ledger) + 1] = packet
        /\ \A i \in DOMAIN ledger : ledger'[i] = ledger[i]
    BY <1>2, <2>1, AppendKeeps
  <2>3. packet.type = "pre"
    BY PacketLinked
  <2> QED BY <1>2, <2>2, <2>3, AttestedStays DEF LedgerInv
<1>3. ASSUME NEW packet, NEW post, ledger' = Append(ledger, post), post.type = "post",
             \E i \in DOMAIN ledger : ledger[i] = packet /\ PairKey(ledger[i]) = PairKey(post),
             packet.type = "pre",
             post.accepted => Attested(rows, packet)
      PROVE  LedgerInv'
  <2>1. PICK S : ledger \in Seq(S)
    BY DEF TypeInv
  <2>2. /\ DOMAIN ledger' = DOMAIN ledger \union {Len(ledger) + 1}
        /\ Len(ledger) + 1 \notin DOMAIN ledger
        /\ ledger'[Len(ledger) + 1] = post
        /\ \A i \in DOMAIN ledger : ledger'[i] = ledger[i]
    BY <1>3, <2>1, AppendKeeps
  <2> QED BY <1>3, <2>2, AttestedStays DEF LedgerInv
<1>4. ASSUME NEW w \in Workers, worker[w] \in Processes
      PROVE  worker[w].packet \in Packets /\ worker[w].packet.type = "pre"
  BY <1>4, PacketLinked DEF Processes
<1> QED BY <1>1, <1>2, <1>3, <1>4, LedgerMoves

-----------------------------------------------------------------------------
(* The finalization lock.                                                  *)

\* Who holds the lock after a step held it before, or took it just now.
LEMMA HoldersMove ==
  ASSUME TypeInv, [CrashNext]_dispatchVars, NEW v \in Workers, Holds(v)'
  PROVE  /\ worker[v] \in Processes /\ worker'[v].packet = worker[v].packet
         /\ \/ Holds(v)
            \/ /\ StartAudit(v) /\ Finalizing(worker[v].packet.id) = {}
               /\ ledger' = ledger /\ ExactUnpairedPre(worker[v].packet)
         /\ Holds(v) \/ \A u \in Workers \ {v} : worker'[u] = worker[u]
<1>1. CASE worker'[v] = worker[v]
  BY <1>1, StatusType DEF Holds, Busy
<1>2. CASE Call(v)
  BY <1>2, CallType DEF Holds
<1>3. CASE Proceed(v) \/ ChildEnds(v) \/ RunLost(v) \/ ProtectedEnds(v) \/ Crash(v)
  <2>1. /\ worker[v] \in Processes /\ worker'[v].mode = worker[v].mode
        /\ worker'[v].packet = worker[v].packet
        /\ \A u \in Workers \ {v} : worker'[u] = worker[u]
    BY <1>3, StepMoves DEF Moved, Holds, Busy
  <2>2. Busy(v) /\ worker[v].mode = "finalize"
    BY <2>1 DEF Processes, ProcessSteps, Busy, Holds
  <2>3. CASE worker[v].pc # "called"
    BY <2>1, <2>2, <2>3 DEF Holds
  <2>4. CASE worker[v].pc = "called"
    <3>1. StartAudit(v)
      BY <1>3, <2>4 DEF Proceed, ChildEnds, RunLost, ProtectedEnds, Crash, Return, Busy, Holds,
        TypeInv, NativeRefused, NativeMatch, LaunchFails, Launch, Launching, At,
        FinalizeUnready, LoadTerminal, Gate, GateLost, Finish
    <3>2. AlreadyDecided(worker[v].packet, "finalize")
      BY <2>2, <3>1 DEF StartAudit, Decides, Return, Busy, Holds, TypeInv
    <3> QED BY <2>1, <2>2, <3>1, <3>2 DEF StartAudit, AlreadyDecided
  <2> QED BY <2>3, <2>4
<1> QED BY <1>1, <1>2, <1>3, Movers, CallType, StepMoves DEF Moved, dispatchVars

\* Every step keeps the lock exclusive, and an attempt under it unaccepted.
LEMMA LockStep ==
  ASSUME TypeInv, ProcessInv, LedgerInv, LockInv, [CrashNext]_dispatchVars PROVE LockInv'
<1>1. ASSUME NEW v \in Workers, NEW w \in Workers, Holds(v)', Holds(w)',
             worker'[v].packet.id = worker'[w].packet.id
      PROVE  v = w
  <2>1. CASE Holds(v) /\ Holds(w)
    BY <1>1, <2>1, HoldersMove DEF LockInv
  <2>2. ASSUME NEW x \in Workers, NEW y \in Workers, x # y, ~Holds(x), Holds(x)', Holds(y)',
               worker'[x].packet.id = worker'[y].packet.id
        PROVE  FALSE
    <3>1. /\ Finalizing(worker[x].packet.id) = {} /\ worker'[y] = worker[y]
          /\ worker'[x].packet = worker[x].packet
      BY <2>2, HoldersMove
    <3>2. y \in Finalizing(worker[x].packet.id)
      BY <2>2, <3>1 DEF Finalizing, Holds, Busy
    <3> QED BY <3>1, <3>2
  <2> QED BY <1>1, <2>1, <2>2
<1>2. ASSUME NEW w \in Workers, Holds(w)', NEW j \in DOMAIN ledger',
             ledger'[j].type = "post", PairKey(ledger'[j]) = PairKey(worker'[w].packet),
             ledger'[j].accepted
      PROVE  FALSE
  <2>1. worker[w].packet \in Packets /\ worker'[w].packet = worker[w].packet
    BY <1>2, HoldersMove DEF Processes
  <2>2. CASE j \in DOMAIN ledger /\ ledger'[j] = ledger[j]
    <3>1. j \in Posts(worker[w].packet)
      BY <1>2, <2>1, <2>2 DEF Posts
    <3>2. Holds(w)
      BY <1>2, <3>1, HoldersMove DEF Posts, ExactUnpairedPre
    <3> QED BY <1>2, <2>2, <3>1, <3>2 DEF LockInv
  <2>3. ASSUME NEW u \in Workers, worker[u] \in Processes, NEW post, Return(u),
               ledger' = Append(ledger, post), j \notin DOMAIN ledger,
               PairKey(post) = PairKey(worker[u].packet), post.accepted => Holds(u)
        PROVE  FALSE
    <3>1. PICK S : ledger \in Seq(S)
      BY DEF TypeInv
    <3>2. ledger'[j] = post
      BY <2>3, <3>1, AppendKeeps
    <3>3. Holds(u) /\ PairKey(worker[u].packet) = PairKey(worker[w].packet)
      BY <1>2, <2>1, <2>3, <3>2
    <3>4. worker[u].packet.id = worker[w].packet.id
      BY <2>1, <2>3, <3>3, PacketLinked DEF Processes
    <3>5. ~Holds(u)'
      BY <2>3 DEF Return, Holds, Busy, TypeInv
    <3>6. Holds(w)
      <4>1. ledger' # ledger
        BY <1>2, <2>3
      <4> QED BY <1>2, <4>1, HoldersMove
    <3> QED BY <1>2, <3>3, <3>4, <3>5, <3>6 DEF LockInv
  <2>4. ASSUME NEW packet \in Packets, ledger' = Append(ledger, packet), j \notin DOMAIN ledger
        PROVE  FALSE
    <3>1. PICK S : ledger \in Seq(S)
      BY DEF TypeInv
    <3>2. ledger'[j] = packet
      BY <2>4, <3>1, AppendKeeps
    <3> QED BY <1>2, <3>2, PacketLinked
  <2>5. ASSUME NEW u \in Workers, worker[u] \in Processes PROVE worker[u].packet \in Packets
    BY <2>5 DEF Processes
  <2>6. CASE j \in DOMAIN ledger
    BY <2>2, <2>6, FilesGrow
  <2>7. CASE j \notin DOMAIN ledger
    BY <1>2, <2>3, <2>4, <2>5, <2>7, LedgerMoves
  <2> QED BY <2>6, <2>7
<1>3. \A w \in Workers : Holds(w)' => \A j \in Posts(worker[w].packet)' : ~ledger'[j].accepted
  BY <1>2 DEF Posts
<1> QED BY <1>1, <1>3 DEF LockInv

-----------------------------------------------------------------------------
\* Every step of the dispatcher, a crash included, keeps the invariant.
THEOREM InvStep == Inv /\ [CrashNext]_dispatchVars => Inv'
BY TypeStep, TerminalStep, ProcessStep, LedgerStep, LockStep DEF Inv

\* The invariant holds in every state, with and without crashes.
THEOREM Invariant == CrashSpec => []Inv
<1> USE InitInv, InvStep
<1> QED BY PTL DEF CrashSpec

\* Every behaviour of the processes that do not die is one of those that may.
LEMMA DispatchIsCrash == DispatchSpec => CrashSpec
<1>1. [DispatchNext]_dispatchVars => [CrashNext]_dispatchVars
  BY DEF CrashNext
<1> QED BY <1>1, PTL DEF DispatchSpec, CrashSpec

\* The attestation ledger and the processes hold what they should, wherever
\* processes die.
THEOREM DispatchTypes == CrashSpec => []DispatchTypeOK
<1>1. Inv => DispatchTypeOK
  <2> SUFFICES ASSUME Inv PROVE DispatchTypeOK
    OBVIOUS
  <2>1. ASSUME NEW k \in DOMAIN rows
        PROVE  /\ rows[k].packet \in Packets /\ rows[k].verdict \in Verdicts
               /\ rows[k].terminal \in 0 .. k /\ rows[k].ok \in BOOLEAN
    <3>1. rows[k] \in RowSet /\ k \in Nat
      BY RowsTyped DEF Inv, TypeInv
    <3>2. rows[k].terminal # NoTerminal => rows[k].terminal \in 1 .. k
      BY DEF Inv, TerminalInv
    <3> QED BY <3>1, <3>2 DEF RowSet
  <2>2. ASSUME NEW w \in Workers, Busy(w) PROVE worker[w] \in Processes
    BY <2>2, StatusType DEF Inv
  <2>3. broken \subseteq Packets
    BY DEF Inv, TypeInv
  <2> QED BY <2>1, <2>2, <2>3 DEF DispatchTypeOK, Processes, ProcessSteps
<1> QED BY <1>1, Invariant, PTL

\* A recorded acceptance is attested, and a captured run that exited 0 before
\* it, wherever processes die.
THEOREM AcceptanceIsAttested == CrashSpec => []AcceptedIsAttested
<1>1. Inv => AcceptedIsAttested
  <2> SUFFICES ASSUME Inv, NEW packet \in Packets, NEW j \in Posts(packet),
                      HasPre(packet), ledger[j].accepted
               PROVE  Attested(rows, packet)
    BY DEF AcceptedIsAttested, Attested
  <2>1. PICK i \in DOMAIN ledger : /\ ledger[i].type = "pre"
                                  /\ PairKey(ledger[i]) = PairKey(ledger[j])
                                  /\ Attested(rows, ledger[i])
    BY DEF Inv, LedgerInv, Posts
  <2>2. PICK n \in DOMAIN ledger : ledger[n] = packet
    BY DEF HasPre
  <2>3. packet.type = "pre" /\ PairKey(ledger[j]) = PairKey(packet)
    BY PacketLinked DEF Posts
  <2>4. i = n
    BY <2>1, <2>2, <2>3 DEF Inv, LedgerInv
  <2> QED BY <2>1, <2>2, <2>4
<1> QED BY <1>1, Invariant, PTL

\* No step attests the acceptance of an attempt that was accepted already,
\* however many processes finalize it and wherever they die.
THEOREM AcceptanceIsUnique == CrashSpec => NoSecondAcceptance
<1> DEFINE Once == \A k \in DOMAIN rows' \ DOMAIN rows :
                     rows'[k].verdict = "integration_accepted"
                     => \A j \in Posts(rows'[k].packet) : ~ledger[j].accepted
<1>1. Inv /\ [CrashNext]_dispatchVars => [Once]_dispatchVars
  <2> SUFFICES ASSUME Inv, [CrashNext]_dispatchVars,
                      NEW k \in DOMAIN rows' \ DOMAIN rows,
                      rows'[k].verdict = "integration_accepted",
                      NEW j \in Posts(rows'[k].packet)
               PROVE  ~ledger[j].accepted
    OBVIOUS
  <2>1. PICK w \in Workers :
          \/ Proceed(w) \/ ChildEnds(w) \/ RunLost(w) \/ ProtectedEnds(w) \/ Crash(w)
    BY Movers, CallType DEF Inv, dispatchVars
  <2>2. rows'[k].packet = worker[w].packet /\ Gate(w)
    BY <2>1, StepMoves, NewRow DEF Inv
  <2>3. Holds(w)
    <3>1. Busy(w) /\ worker[w].pc = "loaded"
      BY <2>2 DEF Gate, Busy
    <3> QED BY <3>1 DEF Inv, ProcessInv, Holds
  <2>4. j \in Posts(worker[w].packet)
    BY <2>2
  <2> QED BY <2>3, <2>4 DEF Inv, LockInv
<1> QED BY <1>1, Invariant, PTL DEF CrashSpec, NoSecondAcceptance

-----------------------------------------------------------------------------
(* Results that a process can record.                                      *)

\* What a process knows of the failure it met and of its authority: a
\* violation that is left for the result is one of the budget, a child ran or
\* a receipt was read only under an authorized main session, an outcome is that
\* of a completed child, and only a finalization can stop short of the receipt.
StatusInv ==
  \A w \in Workers : Busy(w) =>
    LET p == worker[w] IN
    /\ p.status.failure \in {"unset", "context_ceiling", "scope_or_retrieval_overbreadth"}
    /\ p.status.completed \/ p.pc \notin {"called", "ended"} => p.packet.link \in AuthorizedLinks
    /\ p.status.precondition => p.mode = "finalize" /\ p.pc = "ended"
    /\ p.pc = "called" => ~p.status.completed
    /\ p.status.outcome # "unset" => p.status.completed

\* Packets are decisions of the installed policy.
PacketsCurrent == \A packet \in Packets : Current(installed, packet)

\* e is what some process can work out for a packet with a decision in L.
Assessed(L, e) ==
  \E packet \in Packets, mode \in Modes, status \in Statuses, now \in Clock :
    /\ Decided(L, packet) /\ e = PostResult(packet, mode, status, now)
    /\ status.failure # "forbidden_leaf_tool_call"

\* A result in the ledger is one of those.
ResultInv ==
  \A j \in DOMAIN ledger : ledger[j].type = "post" => Assessed(ledger, ledger[j])

\* The ledger is readable, and every process can add its result to it.
AuditInv == PacketsCurrent /\ ReadableOrFull /\ StatusInv /\ ResultInv

\* The violations that a run leaves for its result are those of the budget.
LEMMA FailureOfRun ==
  ASSUME NEW faults, NEW run \in LeafOutcomes(faults)
  PROVE  run.failure \in {"unset", "context_ceiling", "scope_or_retrieval_overbreadth"}
<1>1. IsOutcomeOf(run, faults)
  BY IsOutcome
<1>2. \A v \in ViolationsOf(faults) :
        FailureClass(v) \in {"unset", "context_ceiling", "scope_or_retrieval_overbreadth"}
  BY DEF FailureClass, RunVerdict, Violations, ViolationsOf
<1>3. ASSUME NEW v \in ViolationsOf(faults), NEW e, NEW ok, NEW c,
             run = Outcome(v, e, ok, c) \/ run = Unattested(v, ok)
      PROVE  run.failure \in {"unset", "context_ceiling", "scope_or_retrieval_overbreadth"}
  BY <1>2, <1>3 DEF Outcome, Unattested
<1>4. \E v \in ViolationsOf(faults) : \E e, ok, c :
        run = Outcome(v, e, ok, c) \/ run = Unattested(v, ok)
  BY <1>1, Zenon DEF IsOutcomeOf
<1> QED BY <1>3, <1>4

\* The status with which a process goes on from a step.
LEMMA StatusMoves ==
  ASSUME TypeInv, StatusInv, NEW w \in Workers,
         \/ Proceed(w) \/ ChildEnds(w) \/ RunLost(w) \/ ProtectedEnds(w) \/ Crash(w),
         Busy(w)'
  PROVE  LET p == worker[w]
             q == worker'[w]
         IN /\ Busy(w) /\ p.pc # "ended" /\ q.pc # "called"
            /\ q.packet = p.packet /\ q.mode = p.mode
            /\ q.status.failure \in {"unset", "context_ceiling", "scope_or_retrieval_overbreadth"}
            /\ q.status.completed \/ q.pc # "ended" => p.packet.link \in AuthorizedLinks
            /\ q.status.precondition => p.mode = "finalize" /\ q.pc = "ended"
<1> DEFINE p == worker[w]
           q == worker'[w]
           Good == /\ q.status.failure
                        \in {"unset", "context_ceiling", "scope_or_retrieval_overbreadth"}
                   /\ q.status.completed \/ q.pc # "ended" => p.packet.link \in AuthorizedLinks
                   /\ q.status.precondition => p.mode = "finalize" /\ q.pc = "ended"
<1>1. /\ p \in Processes /\ p.pc # "ended" /\ q.pc # "called" /\ q \in Processes
      /\ q.packet = p.packet /\ q.mode = p.mode
  BY StepMoves DEF Moved, Busy
<1>2. Busy(w) /\ p.status \in Statuses
  BY <1>1 DEF Busy, Processes, ProcessSteps
<1>3. /\ p.status.failure \in {"unset", "context_ceiling", "scope_or_retrieval_overbreadth"}
      /\ p.status.completed \/ p.pc \notin {"called", "ended"} => p.packet.link \in AuthorizedLinks
      /\ ~p.status.precondition
      /\ p.pc = "called" => ~p.status.completed
  BY <1>1, <1>2 DEF StatusInv
<1>4. ASSUME NEW pc, NEW status, Goto(w, pc, status)
      PROVE  q.pc = pc /\ q.status = status
  BY <1>1, <1>4 DEF Goto, TypeInv, Processes
<1>5. ~Return(w)
  BY DEF Return, Busy, TypeInv
<1>6. CASE StartAudit(w)
  <2>1. p.pc = "called"
    BY <1>6 DEF StartAudit
  <2>2. \/ p.packet.link \in AuthorizedLinks /\ Goto(w, "audited", p.status)
        \/ Goto(w, "ended", [p.status EXCEPT !.gate = TRUE])
    BY <1>5, <1>6 DEF StartAudit
  <2>3. ASSUME p.packet.link \in AuthorizedLinks, Goto(w, "audited", p.status)
        PROVE  Good
    <3>1. q.pc = "audited" /\ q.status = p.status
      BY <1>4, <2>3
    <3> QED BY <1>3, <2>3, <3>1
  <2>4. ASSUME Goto(w, "ended", [p.status EXCEPT !.gate = TRUE])
        PROVE  Good
    <3>1. q.pc = "ended" /\ q.status = [p.status EXCEPT !.gate = TRUE]
      BY <1>4, <2>4
    <3>2. /\ q.status.failure = p.status.failure
          /\ q.status.completed = p.status.completed
          /\ q.status.precondition = p.status.precondition
      BY <1>2, <3>1 DEF Statuses
    <3> QED BY <1>3, <2>1, <3>1, <3>2
  <2>5. Good
    BY <2>2, <2>3, <2>4
  <2> QED BY <1>1, <1>2, <2>5
<1>7. ASSUME p.pc # "called", NEW status, NEW pc, Goto(w, pc, status),
             status.failure \in {"unset", "context_ceiling", "scope_or_retrieval_overbreadth"},
             ~status.precondition
      PROVE  Good
  <2>1. p.packet.link \in AuthorizedLinks
    BY <1>1, <1>3, <1>7
  <2> QED BY <1>4, <1>7, <2>1
<1>8. CASE LaunchFails(w) \/ RunLost(w) \/ Launch(w) \/ NativeMatch(w) \/ NativeRefused(w)
  <2>1. p.pc # "called"
    BY <1>8 DEF LaunchFails, RunLost, Launch, NativeMatch, NativeRefused, Launching, At
  <2>2. \E pc : Goto(w, pc, p.status) \/ Goto(w, pc, [p.status EXCEPT !.success = TRUE])
    BY <1>8 DEF LaunchFails, RunLost, Launch, NativeMatch, NativeRefused
  <2>3. /\ [p.status EXCEPT !.success = TRUE].failure = p.status.failure
        /\ [p.status EXCEPT !.success = TRUE].precondition = p.status.precondition
    BY <1>2 DEF Statuses
  <2>4. Good
    BY <1>3, <1>7, <2>1, <2>2, <2>3
  <2> QED BY <1>1, <1>2, <2>4
<1>9. CASE ChildEnds(w)
  <2>1. PICK run \in LeafOutcomes(Faults) : Goto(w, "ended",
          [p.status EXCEPT !.success = run.verdict = "typed_completed",
                           !.completed = TRUE, !.childOK = run.ok, !.failure = run.failure])
    BY <1>9 DEF ChildEnds
  <2> DEFINE status == [p.status EXCEPT !.success = run.verdict = "typed_completed",
                           !.completed = TRUE, !.childOK = run.ok, !.failure = run.failure]
  <2>2. status.failure = run.failure /\ status.precondition = p.status.precondition
    BY <1>2 DEF Statuses
  <2>3. p.pc # "called" /\ Goto(w, "ended", status)
    BY <1>9, <2>1 DEF ChildEnds
  <2> HIDE DEF status
  <2>4. Good
    BY <1>3, <1>7, <2>2, <2>3, FailureOfRun
  <2> QED BY <1>1, <1>2, <2>4
<1>10. CASE ProtectedEnds(w)
  <2>1. PICK success, completed, childOK : Goto(w, "ended",
          [p.status EXCEPT !.success = success, !.completed = completed, !.childOK = childOK])
    BY <1>10 DEF ProtectedEnds
  <2> DEFINE status ==
        [p.status EXCEPT !.success = success, !.completed = completed, !.childOK = childOK]
  <2>2. status.failure = p.status.failure /\ status.precondition = p.status.precondition
    BY <1>2 DEF Statuses
  <2>3. p.pc # "called" /\ Goto(w, "ended", status)
    BY <1>10, <2>1 DEF ProtectedEnds
  <2> HIDE DEF status
  <2>4. Good
    BY <1>3, <1>7, <2>2, <2>3
  <2> QED BY <1>1, <1>2, <2>4
<1>11. CASE FinalizeUnready(w)
  <2>1. /\ p.pc = "audited" /\ p.mode = "finalize"
        /\ Goto(w, "ended", [p.status EXCEPT !.precondition = TRUE])
    BY <1>11 DEF FinalizeUnready, At
  <2>2. q.pc = "ended" /\ q.status = [p.status EXCEPT !.precondition = TRUE]
    BY <1>4, <2>1
  <2>3. q.status.failure = p.status.failure /\ q.status.completed = p.status.completed
    BY <1>2, <2>2 DEF Statuses
  <2>4. Good
    BY <1>3, <2>1, <2>2, <2>3
  <2> QED BY <1>1, <1>2, <2>4
<1>12. CASE LoadTerminal(w)
  <2>1. p.pc = "audited"
        /\ worker' = [worker EXCEPT ![w].pc = "loaded",
                                    ![w].terminal = LoadTerminalEvent(p.packet)]
    BY <1>12 DEF LoadTerminal, At
  <2>2. q.pc = "loaded" /\ q.status = p.status
    BY <1>1, <2>1 DEF TypeInv, Processes
  <2>3. Good
    BY <1>3, <2>1, <2>2
  <2> QED BY <1>1, <1>2, <2>3
<1>13. CASE Gate(w)
  <2>1. PICK success, outcome, ok : Goto(w, "ended",
          [p.status EXCEPT !.success = success, !.completed = TRUE, !.childOK = ok,
                           !.outcome = outcome])
    BY <1>13 DEF Gate
  <2> DEFINE status == [p.status EXCEPT !.success = success, !.completed = TRUE, !.childOK = ok,
                                        !.outcome = outcome]
  <2>2. status.failure = p.status.failure /\ status.precondition = p.status.precondition
    BY <1>2 DEF Statuses
  <2>3. p.pc # "called" /\ Goto(w, "ended", status)
    BY <1>13, <2>1 DEF Gate
  <2> HIDE DEF status
  <2>4. Good
    BY <1>3, <1>7, <2>2, <2>3
  <2> QED BY <1>1, <1>2, <2>4
<1>14. CASE Finish(w) \/ Crash(w) \/ GateLost(w)
  BY <1>5, <1>14 DEF Finish, Crash, GateLost
<1> QED
  BY <1>6, <1>8, <1>9, <1>10, <1>11, <1>12, <1>13, <1>14 DEF Proceed

\* Only the gate finds an outcome, and it does so for a completed child.
LEMMA OutcomeMoves ==
  ASSUME TypeInv, ProcessInv, NEW w \in Workers,
         \/ Proceed(w) \/ ChildEnds(w) \/ RunLost(w) \/ ProtectedEnds(w) \/ Crash(w),
         Busy(w)', worker'[w].status.outcome # "unset"
  PROVE  worker'[w].status.completed
<1>1. /\ worker[w] \in Processes /\ worker[w].pc # "ended"
      /\ worker'[w].status.outcome = worker[w].status.outcome \/ Gate(w)
  BY StepMoves DEF Moved, Busy
<1>2. worker[w].status.outcome = "unset"
  BY <1>1 DEF ProcessInv, Busy, Processes, ProcessSteps
<1>3. PICK success, ok, outcome : Goto(w, "ended",
        [worker[w].status EXCEPT !.success = success, !.completed = TRUE, !.childOK = ok,
                                 !.outcome = outcome])
  BY <1>1, <1>2 DEF Gate
<1>4. worker[w].status \in Statuses
  BY <1>1 DEF Processes
<1> QED BY <1>1, <1>3, <1>4 DEF Goto, TypeInv, Processes, Statuses

\* Every step keeps true what processes know of their result.
LEMMA StatusStep ==
  ASSUME TypeInv, ProcessInv, StatusInv, [CrashNext]_dispatchVars PROVE StatusInv'
<1> SUFFICES ASSUME NEW v \in Workers, Busy(v)'
             PROVE  LET q == worker'[v] IN
                    /\ q.status.failure
                         \in {"unset", "context_ceiling", "scope_or_retrieval_overbreadth"}
                    /\ q.status.completed \/ q.pc \notin {"called", "ended"}
                         => q.packet.link \in AuthorizedLinks
                    /\ q.status.precondition => q.mode = "finalize" /\ q.pc = "ended"
                    /\ q.pc = "called" => ~q.status.completed
                    /\ q.status.outcome # "unset" => q.status.completed
  BY DEF StatusInv
<1>1. CASE worker'[v] = worker[v]
  BY <1>1 DEF StatusInv, Busy
<1>2. CASE Call(v)
  <2>1. PICK packet \in Packets, mode \in CallerModes, receipt \in Receipts \union {NoReceipt} :
          worker' = [worker EXCEPT ![v] =
                       Process("called", mode, packet, receipt, NoTerminal, EmptyStatus)]
    BY <1>2 DEF Call
  <2>2. worker'[v] = Process("called", mode, packet, receipt, NoTerminal, EmptyStatus)
    BY <2>1 DEF TypeInv
  <2> QED BY <2>2 DEF Process, EmptyStatus
<1>3. CASE Proceed(v) \/ ChildEnds(v) \/ RunLost(v) \/ ProtectedEnds(v) \/ Crash(v)
  BY <1>3, StatusMoves, OutcomeMoves
<1> QED BY <1>1, <1>2, <1>3, Movers, CallType, StepMoves DEF Moved, dispatchVars

\* What an append adds is a packet or the result of one, checked by the ledger.
LEMMA AppendsMove ==
  ASSUME TypeInv, ProcessInv, StatusInv, [CrashNext]_dispatchVars
  PROVE  \/ ledger' = ledger
         \/ \E e : /\ ledger' = Append(ledger, e) /\ CanAppend(e)
                   /\ e \in Packets \/ Assessed(ledger, e)
<1> SUFFICES ASSUME ledger' # ledger
             PROVE  \E e : /\ ledger' = Append(ledger, e) /\ CanAppend(e)
                           /\ e \in Packets \/ Assessed(ledger, e)
  OBVIOUS
<1>1. PICK w \in Workers : StartAudit(w) \/ Finish(w)
  BY Movers, CallType, StepMoves DEF dispatchVars
<1>2. /\ Busy(w) /\ worker[w].packet \in Packets /\ worker[w].mode \in Modes
      /\ worker[w].status \in Statuses
  <2>1. Busy(w)
    BY <1>1 DEF StartAudit, Finish, Busy
  <2> QED BY <2>1, StatusType DEF Processes
<1>3. CASE StartAudit(w)
  BY <1>2, <1>3 DEF StartAudit, AlreadyDecided, Decides
<1>4. CASE Finish(w)
  <2>0. PICK now \in Clock :
          LET post == PostResult(worker[w].packet, worker[w].mode, worker[w].status, now)
          IN ledger' = IF CanAppend(post) THEN Append(ledger, post) ELSE ledger
    BY <1>4 DEF Finish
  <2> DEFINE post == PostResult(worker[w].packet, worker[w].mode, worker[w].status, now)
  <2>1. ledger' = Append(ledger, post) /\ CanAppend(post) /\ worker[w].pc = "ended"
    BY <1>4, <2>0 DEF Finish
  <2>2. Decided(ledger, worker[w].packet)
    BY <1>2, <2>1 DEF ProcessInv
  <2>3. worker[w].status.failure # "forbidden_leaf_tool_call"
    BY <1>2 DEF StatusInv
  <2>4. Assessed(ledger, post)
    BY <1>2, <2>0, <2>2, <2>3 DEF Assessed
  <2> HIDE DEF post
  <2> QED BY <2>1, <2>4
<1> QED BY <1>1, <1>3, <1>4

\* Every step keeps the ledger readable and its results those of packets.
LEMMA AuditStep ==
  ASSUME TypeInv, ProcessInv, AuditInv, [CrashNext]_dispatchVars PROVE AuditInv'
<1>1. installed' = installed
  BY FilesGrow
<1>2. PacketsCurrent'
  BY <1>1 DEF AuditInv, PacketsCurrent
<1>3. StatusInv'
  BY StatusStep DEF AuditInv
<1>4. \A packet, mode, status, now :
        PostResult(packet, mode, status, now)' = PostResult(packet, mode, status, now)
  BY <1>1 DEF PostResult
<1>5. CASE ledger' = ledger
  <2>1. ReadableOrFull'
    BY <1>1, <1>5 DEF AuditInv, ReadableOrFull
  <2>2. ResultInv'
    BY <1>5, <1>4 DEF AuditInv, ResultInv, Assessed
  <2> QED BY <1>2, <1>3, <2>1, <2>2 DEF AuditInv
<1>6. ASSUME NEW e, ledger' = Append(ledger, e), CanAppend(e),
             e \in Packets \/ Assessed(ledger, e)
      PROVE  AuditInv'
  <2>1. PICK S : ledger \in Seq(S)
    BY DEF TypeInv
  <2>2. /\ ledger \in Seq(S \union {e}) /\ e \in S \union {e}
        /\ ValidEvent(installed, e) /\ EventOK(installed, ledger, e)
        /\ SequenceOK(installed, ledger) /\ Fits(ledger)
    BY <1>6, <2>1 DEF CanAppend, LedgerOK
  <2>3. ReadableOrFull'
    <3>1. SequenceOK(installed, ledger')
      BY <1>6, <2>2, AppendKeepsSequenceOK
    <3>2. Len(ledger') = Len(ledger) + 1 /\ Len(ledger) \in Nat
      BY <1>6, <2>1, AppendProperties, LenProperties
    <3> QED BY <1>1, <2>2, <3>1, <3>2, LedgerAssumption DEF ReadableOrFull, Fits
  <2>4. /\ DOMAIN ledger' = DOMAIN ledger \union {Len(ledger) + 1}
        /\ ledger'[Len(ledger) + 1] = e
        /\ \A i \in DOMAIN ledger : ledger'[i] = ledger[i]
    BY <1>6, <2>1, AppendKeeps
  <2>5. ASSUME NEW j \in DOMAIN ledger', ledger'[j].type = "post"
        PROVE  Assessed(ledger, ledger'[j])
    <3>1. CASE j \in DOMAIN ledger
      <4>1. ledger'[j] = ledger[j] /\ ledger[j].type = "post"
        BY <2>4, <2>5, <3>1
      <4> QED BY <3>1, <4>1 DEF AuditInv, ResultInv
    <3>2. CASE j = Len(ledger) + 1 /\ e \in Packets
      BY <2>4, <2>5, <3>2, PacketLinked
    <3>3. CASE j = Len(ledger) + 1 /\ e \notin Packets
      BY <1>6, <2>4, <3>3
    <3> QED BY <2>4, <3>1, <3>2, <3>3
  <2>6. ASSUME NEW j \in DOMAIN ledger', Assessed(ledger, ledger'[j])
        PROVE  Assessed(ledger, ledger[j])'
    BY <1>4, <2>6, DecisionStays DEF Assessed
  <2>7. ResultInv'
    BY <2>5, <2>6 DEF ResultInv
  <2> QED BY <1>2, <1>3, <2>3, <2>7 DEF AuditInv
<1> QED BY <1>5, <1>6, AppendsMove DEF AuditInv

\* The ledger stays readable, and its results those of packets, wherever
\* processes die.
THEOREM AuditInvariant == CrashSpec => []AuditInv
<1>1. DispatchInit => AuditInv
  <2>1. Len(<< >>) = 0 /\ MaxLedger \in Nat
    BY LedgerAssumption
  <2> QED
    BY <2>1 DEF DispatchInit, Init, AuditInv, PacketsCurrent, ReadableOrFull, SequenceOK,
                StatusInv, ResultInv, Busy
<1>2. Inv /\ AuditInv /\ [CrashNext]_dispatchVars => AuditInv'
  BY AuditStep DEF Inv
<1> QED BY <1>1, <1>2, Invariant, PTL DEF CrashSpec

-----------------------------------------------------------------------------
(* Escalations.                                                            *)

\* The result of a decision on record is that of its packet.
LEMMA ResultOfPacket ==
  ASSUME TypeInv, LedgerInv, ResultInv, NEW packet \in Packets, NEW j \in Posts(packet),
         HasPre(packet)
  PROVE  \E mode \in Modes, status \in Statuses, now \in Clock :
           /\ ledger[j] = PostResult(packet, mode, status, now)
           /\ status.failure # "forbidden_leaf_tool_call"
<1>1. j \in DOMAIN ledger /\ ledger[j].type = "post" /\ PairKey(ledger[j]) = PairKey(packet)
  BY DEF Posts
<1>2. PICK p \in Packets, mode \in Modes, status \in Statuses, now \in Clock :
        /\ Decided(ledger, p) /\ ledger[j] = PostResult(p, mode, status, now)
        /\ status.failure # "forbidden_leaf_tool_call"
  BY <1>1 DEF ResultInv, Assessed
<1>3. PairKey(p) = PairKey(packet)
  BY <1>1, <1>2, PostFacts, PacketLinked
<1>4. p = packet
  BY <1>2, <1>3, PacketLinked DEF LedgerInv, HasPre, Decided
<1> QED BY <1>2, <1>4

\* An escalation is asked for only when the context budget ran out.
LEMMA EscalationAsked ==
  ASSUME NEW packet, NEW mode, NEW status,
         status.failure # "forbidden_leaf_tool_call",
         status \in Statuses,
         Assessment(packet, mode, status)[2] \in EscalationActions
  PROVE  /\ Assessment(packet, mode, status) =
              <<"context_ceiling", ConfiguredEscalation(packet.class, packet.oracle, packet.route)>>
         /\ ~Accepted(status)
BY DEF Assessment, EscalationActions

\* The escalation after an exhausted budget.
LEMMA BudgetEscalation ==
  ASSUME NEW class \in TaskClasses, NEW oracle,
         NEW r \in Steps(ApplicableLadder(class, oracle)), ~IsMain(r)
  PROVE  LET ladder == ApplicableLadder(class, oracle)
             action == ConfiguredEscalation(class, oracle, r)
         IN /\ action \in EscalationActions
            /\ RouteTransition(class, oracle, r, action, "context_ceiling")
                 = {ladder[Position(ladder, r) + 1]}
BY EscalationLeadsUp

\* An escalation that the dispatcher writes has one successor that the ledger
\* accepts.
LEMMA EscalationHasSuccessor == Inv /\ AuditInv => EscalationContinues
<1> SUFFICES ASSUME Inv, AuditInv, NEW packet \in Packets, NEW j \in Posts(packet),
                    HasPre(packet), ledger[j].next \in EscalationActions
             PROVE  Cardinality({r \in Routes : NextRouteOK(packet, ledger[j], [route |-> r])}) = 1
  BY DEF EscalationContinues
<1> DEFINE post == ledger[j]
           ladder == ApplicableLadder(packet.class, packet.oracle)
           action == ConfiguredEscalation(packet.class, packet.oracle, packet.route)
           following == ladder[Position(ladder, packet.route) + 1]
<1>1. PICK mode \in Modes, status \in Statuses, now \in Clock :
        post = PostResult(packet, mode, status, now) /\ status.failure # "forbidden_leaf_tool_call"
  BY ResultOfPacket DEF Inv, AuditInv
<1>2. /\ post.failure = Assessment(packet, mode, status)[1]
      /\ post.next = Assessment(packet, mode, status)[2]
      /\ post.accepted = Accepted(status)
  BY <1>1 DEF PostResult
<1>3. post.failure = "context_ceiling" /\ post.next = action /\ ~post.accepted
  BY <1>1, <1>2, EscalationAsked
<1>4. packet.class \in TaskClasses /\ packet.route \in Steps(ladder) /\ ~IsMain(packet.route)
  <2>1. IsEvent(packet) /\ packet.type = "pre" /\ ~IsMain(packet.route)
    BY DispatcherAssumption
  <2>2. packet.class \in TaskClasses
    BY <2>1 DEF IsEvent, IsPre, IsPost
  <2>3. PICK i \in DOMAIN ledger : ledger[i] = packet
    BY DEF HasPre
  <2>4. ValidEvent(installed, packet) /\ Current(installed, packet)
    BY <2>3 DEF AuditInv, ReadableOrFull, SequenceOK, PacketsCurrent
  <2>5. packet.route \in Steps(ladder)
    BY <2>1, <2>4 DEF ValidEvent, SelectionOK
  <2> QED BY <2>1, <2>2, <2>5
<1>5. /\ action \in EscalationActions
      /\ RouteTransition(packet.class, packet.oracle, packet.route, action, "context_ceiling")
           = {following}
  BY <1>4, BudgetEscalation
<1>6. following \in Routes
  BY <1>5 DEF RouteTransition
<1>7. ASSUME NEW r \in Routes
      PROVE  NextRouteOK(packet, post, [route |-> r]) <=> r = following
  <2> DEFINE e == [route |-> r]
  <2>1. e.route = r
    OBVIOUS
  <2>2. post.next \notin LaneActions
    BY <1>3, <1>5 DEF LaneActions, EscalationActions
  <2> HIDE DEF e, post, following
  <2>3. NextRouteOK(packet, post, e) <=>
          e.route \in RouteTransition(packet.class, packet.oracle, packet.route,
                                      post.next, post.failure)
    BY <1>3, <1>4, <2>1, <2>2, SameTransitions
  <2> QED BY <1>3, <1>5, <2>1, <2>3 DEF e
<1>8. {r \in Routes : NextRouteOK(packet, post, [route |-> r])} = {following}
  BY <1>6, <1>7
<1> QED BY <1>8, FS_Singleton

\* Whatever packets are dispatched and wherever processes die: the action that
\* _configured_escalation_action names for a failed attempt is the one step
\* that _check_current_transition will let the next attempt take.
THEOREM EscalationsContinue == CrashSpec => []EscalationContinues
BY EscalationHasSuccessor, Invariant, AuditInvariant, PTL

-----------------------------------------------------------------------------
(* Failures get their result.                                              *)

\* A row of a packet with one of these verdicts.
Reported(R, packet, verdicts) ==
  \E k \in DOMAIN R : R[k].packet = packet /\ R[k].verdict \in verdicts

HasResult(packet) == Posts(packet) # {}

\* No result can be counted on: the files failed a call, the file is full, or
\* the clock may read less than the decision's date.
Excused(packet) ==
  packet \in broken \/ ~Fits(ledger) \/ \E now \in Clock : ~(packet.time <= now)

Settled(packet) == HasResult(packet) \/ Excused(packet)

\* A dispatch of the packet that has yet to record how it went.
Responsible(w, packet) ==
  /\ Busy(w) /\ worker[w].packet = packet
  /\ worker[w].pc # "called" /\ worker[w].mode # "finalize"

\* A process about to record a failure.
Failing(w, packet) ==
  /\ Busy(w) /\ worker[w].packet = packet /\ worker[w].pc = "ended"
  /\ ~worker[w].status.success /\ ~worker[w].status.precondition

\* As long as no process dies: an attempt has a result, or somebody works on
\* it, or a completed child is on record; and a failure on record has a result
\* or a process that will write it.
FailureInv ==
  /\ \A w \in Workers : Busy(w) /\ worker[w].pc # "ended" => ~worker[w].status.completed
  /\ \A w \in Workers :
       /\ Busy(w) /\ worker[w].pc = "ended" /\ worker[w].mode # "finalize"
       /\ worker[w].status.success /\ worker[w].status.completed
       => Reported(rows, worker[w].packet, CompletedVerdicts)
  /\ \A packet \in Packets : Decided(ledger, packet) =>
       \/ Settled(packet)
       \/ \E w \in Workers : Responsible(w, packet)
       \/ Reported(rows, packet, CompletedVerdicts)
  /\ \A packet \in Packets : Reported(rows, packet, FailureVerdicts) =>
       Settled(packet) \/ \E w \in Workers : Failing(w, packet)

\* What a process works out is allowed by the failure table.
LEMMA AssessmentAllowed ==
  ASSUME NEW packet \in Packets, NEW mode, NEW status,
         packet.route \in Steps(ApplicableLadder(packet.class, packet.oracle)),
         status.failure \in {"unset", "context_ceiling", "scope_or_retrieval_overbreadth"}
  PROVE  LET assessment == Assessment(packet, mode, status) IN
         /\ assessment[2] \in FailureActions[assessment[1]]
         /\ assessment[1] = "none" <=> Accepted(status)
<1> DEFINE action == ConfiguredEscalation(packet.class, packet.oracle, packet.route)
<1>1. packet.class \in TaskClasses /\ ~IsMain(packet.route)
  BY DEF IsEvent, IsPre, IsPost
<1>2. action \in FailureActions["context_ceiling"]
  BY <1>1, BudgetEscalation, ClimbAssumption
<1> HIDE DEF action
<1> QED
  BY <1>2, AssessmentAssumption DEF Assessment, Accepted, action

\* The ledger accepts the result of an attempt that has none yet.
LEMMA ResultIsAccepted ==
  ASSUME TypeInv, ProcessInv, LedgerInv, AuditInv,
         NEW w \in Workers, Busy(w), worker[w].pc = "ended",
         ~HasResult(worker[w].packet), Fits(ledger),
         NEW now \in Clock, worker[w].packet.time <= now
  PROVE  CanAppend(PostResult(worker[w].packet, worker[w].mode, worker[w].status, now))
<1> DEFINE packet == worker[w].packet
           mode == worker[w].mode
           status == worker[w].status
           post == PostResult(packet, mode, status, now)
<1>1. packet \in Packets /\ status \in Statuses
  BY StatusType DEF Processes
<1>2. /\ status.failure \in {"unset", "context_ceiling", "scope_or_retrieval_overbreadth"}
      /\ status.completed => packet.link \in AuthorizedLinks
  BY DEF AuditInv, StatusInv
<1>3. PICK i \in DOMAIN ledger : ledger[i] = packet
  BY DEF ProcessInv, Decided
<1>4. packet.route \in Steps(ApplicableLadder(packet.class, packet.oracle))
  <2>1. ValidEvent(installed, packet) /\ Current(installed, packet) /\ packet.type = "pre"
    BY <1>1, <1>3, PacketLinked DEF AuditInv, ReadableOrFull, SequenceOK, PacketsCurrent
  <2> QED BY <2>1 DEF ValidEvent, SelectionOK
<1>5. /\ post.type = "post" /\ post.accepted = Accepted(status)
      /\ post.failure = Assessment(packet, mode, status)[1]
      /\ post.next = Assessment(packet, mode, status)[2]
      /\ post.executed = status.completed /\ post.link = packet.link
      /\ post.stamp = CurrentStamp(installed)
      /\ PairKey(post) = PairKey(packet)
  BY <1>1, PostFacts, PacketLinked DEF PostResult
<1>6. post.next \in FailureActions[post.failure] /\ (post.failure = "none" <=> post.accepted)
  <2>1. Accepted(status) \in BOOLEAN
    BY DEF Accepted
  <2> HIDE DEF post
  <2> QED BY <1>1, <1>2, <1>4, <1>5, <2>1, AssessmentAllowed
<1>7. post.accepted \/ post.executed => post.link \in AuthorizedLinks
  <2>1. Accepted(status) => status.completed
    BY DEF Accepted, AuditInv, StatusInv
  <2> HIDE DEF post
  <2> QED BY <1>2, <1>5, <2>1
<1>8. ValidEvent(installed, post)
  <2> HIDE DEF post
  <2>1. post.accepted => post.failure = "none"
    BY <1>6
  <2>2. ~(post.failure = "none" /\ ~post.accepted)
    BY <1>6
  <2>3. PostOK(installed, post)
    BY <1>6, <1>7, <2>1, <2>2 DEF PostOK
  <2> QED BY <1>5, <2>3 DEF ValidEvent
<1>9. KeyOK(installed, ledger, post)
  <2>1. i \in SameKey(ledger, post)
    BY <1>3, <1>5 DEF SameKey
  <2>2. ASSUME NEW k \in SameKey(ledger, post) PROVE k = i
    <3>1. k \in DOMAIN ledger /\ PairKey(ledger[k]) = PairKey(packet)
      BY <1>5 DEF SameKey
    <3>2. ledger[k].type # "post"
      BY <3>1 DEF HasResult, Posts
    <3>3. packet.type = "pre"
      BY <1>1, PacketLinked
    <3> QED BY <1>3, <3>1, <3>2, <3>3 DEF LedgerInv
  <2>3. SameKey(ledger, post) = {i}
    BY <2>1, <2>2
  <2>4. PairAgrees(installed, packet, post)
    <3>1. Current(installed, packet)
      BY <1>1 DEF AuditInv, PacketsCurrent
    <3> QED BY <3>1 DEF PairAgrees, PostResult, Current
  <2>5. packet.type = "pre" /\ post.type # "pre"
    BY <1>1, <1>5, PacketLinked
  <2> HIDE DEF post
  <2> QED BY <1>3, <2>1, <2>3, <2>4, <2>5 DEF KeyOK
<1>10. EventOK(installed, ledger, post)
  BY <1>5, <1>9 DEF EventOK
<1> QED
  BY <1>8, <1>10 DEF CanAppend, LedgerOK, AuditInv, ReadableOrFull

\* What a step of a process that lives on reports of the run of its child: a
\* failure is attested by a process about to record it, and a run that ended
\* well is attested before its process goes on.
LEMMA RunMoves ==
  ASSUME TypeInv, ProcessInv, StatusInv, FailureInv, NEW w \in Workers,
         Proceed(w) \/ ChildEnds(w) \/ RunLost(w) \/ ProtectedEnds(w)
  PROVE  LET p == worker[w]
             q == worker'[w]
         IN /\ \/ rows' = rows
               \/ \E r \in RowSet :
                    /\ rows' = Append(rows, r) /\ r.packet = p.packet
                    /\ r.verdict \in FailureVerdicts =>
                         /\ Busy(w)' /\ q.pc = "ended"
                         /\ ~q.status.success /\ ~q.status.precondition
            /\ Busy(w)' =>
                 /\ q.pc # "ended" => ~q.status.completed
                 /\ q.status.success /\ q.status.completed /\ q.mode # "finalize" =>
                      \E r \in RowSet : /\ rows' = Append(rows, r) /\ r.packet = p.packet
                                        /\ r.verdict \in CompletedVerdicts
<1> DEFINE p == worker[w]
           q == worker'[w]
           Good ==
             /\ \/ rows' = rows
                \/ \E r \in RowSet :
                     /\ rows' = Append(rows, r) /\ r.packet = p.packet
                     /\ r.verdict \in FailureVerdicts =>
                          /\ Busy(w)' /\ q.pc = "ended"
                          /\ ~q.status.success /\ ~q.status.precondition
             /\ Busy(w)' =>
                  /\ q.pc # "ended" => ~q.status.completed
                  /\ q.status.success /\ q.status.completed /\ q.mode # "finalize" =>
                       \E r \in RowSet : /\ rows' = Append(rows, r) /\ r.packet = p.packet
                                         /\ r.verdict \in CompletedVerdicts
<1>1. /\ p \in Processes /\ Busy(w) /\ p.status \in Statuses /\ p.packet \in Packets
      /\ Attests(w) /\ Moved(w)
  BY StepMoves DEF Moved, Busy, Processes, ProcessSteps
<1>2. ASSUME NEW pc, pc # "idle", NEW status, Goto(w, pc, status)
      PROVE  Busy(w)' /\ q.pc = pc /\ q.status = status /\ q.mode = p.mode
  BY <1>1, <1>2 DEF Goto, TypeInv, Processes, Busy
<1>3. ASSUME Return(w) PROVE ~Busy(w)'
  BY <1>3 DEF Return, Busy, TypeInv
<1>4. p.pc # "ended" => ~p.status.completed /\ ~p.status.precondition
  BY <1>1 DEF FailureInv, StatusInv
<1>5. ASSUME NEW verdict \in Verdicts, NEW terminal \in Nat, NEW ok \in BOOLEAN
      PROVE  /\ Row(p.packet, verdict, terminal, ok) \in RowSet
             /\ Row(p.packet, verdict, terminal, ok).packet = p.packet
             /\ Row(p.packet, verdict, terminal, ok).verdict = verdict
  BY <1>1, <1>5, RowType
<1>6. CASE StartAudit(w)
  <2>1. p.pc = "called" /\ rows' = rows
    BY <1>6 DEF StartAudit
  <2>2. \/ Return(w) \/ Goto(w, "audited", p.status)
        \/ Goto(w, "ended", [p.status EXCEPT !.gate = TRUE])
    BY <1>6 DEF StartAudit
  <2>3. [p.status EXCEPT !.gate = TRUE].completed = p.status.completed
    BY <1>1 DEF Statuses
  <2>4. Busy(w)' => ~q.status.completed
    BY <1>2, <1>3, <1>4, <2>1, <2>2, <2>3
  <2> QED BY <2>1, <2>4
<1>7. CASE LaunchFails(w) \/ RunLost(w) \/ FinalizeUnready(w) \/ LoadTerminal(w)
  <2>1. p.pc # "ended" /\ rows' = rows
    BY <1>7 DEF LaunchFails, RunLost, FinalizeUnready, LoadTerminal, Launching, At
  <2>2. ~q.status.completed
    <3>1. CASE LaunchFails(w) \/ RunLost(w)
      BY <1>2, <1>4, <2>1, <3>1 DEF LaunchFails, RunLost
    <3>2. CASE FinalizeUnready(w)
      <4>1. [p.status EXCEPT !.precondition = TRUE].completed = p.status.completed
        BY <1>1 DEF Statuses
      <4> QED BY <1>2, <1>4, <2>1, <3>2, <4>1 DEF FinalizeUnready
    <3>3. CASE LoadTerminal(w)
      <4>1. q.status = p.status
        BY <1>1, <3>3 DEF LoadTerminal, TypeInv, Processes
      <4> QED BY <1>4, <2>1, <4>1
    <3> QED BY <1>7, <3>1, <3>2, <3>3
  <2> QED BY <2>1, <2>2
<1>8. CASE Launch(w) \/ NativeMatch(w) \/ NativeRefused(w)
  <2>1. p.pc # "ended"
    BY <1>8 DEF Launch, NativeMatch, NativeRefused, Launching, At
  <2>2. PICK verdict \in {"launch_config_match", "match"} \union NativeRefusals :
          rows' = Append(rows, Row(p.packet, verdict, NoTerminal, FALSE))
    BY <1>8 DEF Launch, NativeMatch, NativeRefused
  <2>3. verdict \in Verdicts /\ verdict \notin FailureVerdicts
    BY DEF Verdicts, NativeRefusals, FailureVerdicts
  <2>4. \E pc \in {"running", "ended", "protected", "fallback"} :
          \/ Goto(w, pc, p.status)
          \/ Goto(w, pc, [p.status EXCEPT !.success = TRUE])
    BY <1>8 DEF Launch, NativeMatch, NativeRefused
  <2>5. [p.status EXCEPT !.success = TRUE].completed = p.status.completed
    BY <1>1 DEF Statuses
  <2>6. ~q.status.completed
    BY <1>2, <1>4, <2>1, <2>4, <2>5
  <2>7. /\ Row(p.packet, verdict, NoTerminal, FALSE) \in RowSet
        /\ Row(p.packet, verdict, NoTerminal, FALSE).packet = p.packet
        /\ Row(p.packet, verdict, NoTerminal, FALSE).verdict = verdict
    <3>1. NoTerminal \in Nat /\ FALSE \in BOOLEAN
      OBVIOUS
    <3> QED BY <1>5, <2>3, <3>1
  <2> QED BY <2>2, <2>3, <2>6, <2>7
<1>9. ASSUME NEW verdict \in Verdicts, NEW terminal \in Nat, NEW ok \in BOOLEAN, NEW status,
             p.pc # "ended", Goto(w, "ended", status),
             rows' = rows \/ rows' = Append(rows, Row(p.packet, verdict, terminal, ok)),
             verdict \in FailureVerdicts => ~status.success,
             ~status.precondition,
             status.success /\ status.completed /\ p.mode # "finalize" =>
               /\ verdict \in CompletedVerdicts
               /\ rows' = Append(rows, Row(p.packet, verdict, terminal, ok))
      PROVE  Good
  <2> DEFINE row == Row(p.packet, verdict, terminal, ok)
  <2>1. Busy(w)' /\ q.pc = "ended" /\ q.status = status /\ q.mode = p.mode
    BY <1>2, <1>9
  <2>2. row \in RowSet /\ row.packet = p.packet /\ row.verdict = verdict
    BY <1>5
  <2>3. rows' = rows \/ rows' = Append(rows, row)
    BY <1>9
  <2>4. status.success /\ status.completed /\ p.mode # "finalize" =>
          verdict \in CompletedVerdicts /\ rows' = Append(rows, row)
    BY <1>9
  <2> HIDE DEF row
  <2> QED BY <1>9, <2>1, <2>2, <2>3, <2>4
<1>10. CASE ChildEnds(w)
  <2>1. PICK run \in LeafOutcomes(Faults) :
          /\ rows' = IF run.verdict = "none" THEN rows
                     ELSE Append(rows, Row(p.packet, run.verdict,
                            IF run.captured THEN Len(rows) + 1 ELSE NoTerminal, run.ok))
          /\ Goto(w, "ended",
               [p.status EXCEPT
                  !.success = run.verdict = "typed_completed",
                  !.completed = TRUE, !.childOK = run.ok, !.failure = run.failure])
    BY <1>10 DEF ChildEnds
  <2> DEFINE status == [p.status EXCEPT !.success = run.verdict = "typed_completed",
                           !.completed = TRUE, !.childOK = run.ok, !.failure = run.failure]
             verdict == IF run.verdict = "none" THEN "match" ELSE run.verdict
             terminal == IF run.captured THEN Len(rows) + 1 ELSE NoTerminal
  <2>2. /\ status.success = (run.verdict = "typed_completed")
        /\ status.precondition = p.status.precondition
    BY <1>1 DEF Statuses
  <2>3. p.pc # "ended" /\ Goto(w, "ended", status)
    BY <1>10, <2>1 DEF ChildEnds
  <2>4. verdict \in Verdicts /\ run.ok \in BOOLEAN
    BY RunType, OutcomeType DEF Verdicts
  <2>5. terminal \in Nat
    BY DEF TypeInv
  <2>6. /\ rows' = rows \/ rows' = Append(rows, Row(p.packet, verdict, terminal, run.ok))
        /\ run.verdict = "typed_completed" =>
             /\ verdict = "typed_completed"
             /\ rows' = Append(rows, Row(p.packet, verdict, terminal, run.ok))
    BY <2>1
  <2>7. verdict \in FailureVerdicts => run.verdict # "typed_completed"
    BY DEF FailureVerdicts
  <2> HIDE DEF status, verdict, terminal
  <2>8. run.verdict = "typed_completed" => verdict \in CompletedVerdicts
    BY <2>6 DEF CompletedVerdicts
  <2> QED BY <1>4, <1>9, <2>2, <2>3, <2>4, <2>5, <2>6, <2>7, <2>8
<1>11. CASE ProtectedEnds(w)
  <2>1. PICK started \in BOOLEAN, ok \in BOOLEAN, captured \in BOOLEAN, attested \in BOOLEAN :
          /\ rows' = IF attested
                     THEN Append(rows, Row(p.packet,
                            IF ok THEN "protected_completed" ELSE "protected_failed",
                            IF captured THEN Len(rows) + 1 ELSE NoTerminal, ok))
                     ELSE rows
          /\ Goto(w, "ended", [p.status EXCEPT
               !.success = ok /\ attested, !.completed = started, !.childOK = ok])
    BY <1>11 DEF ProtectedEnds
  <2> DEFINE status == [p.status EXCEPT !.success = ok /\ attested, !.completed = started,
                                        !.childOK = ok]
             verdict == IF ok THEN "protected_completed" ELSE "protected_failed"
             terminal == IF captured THEN Len(rows) + 1 ELSE NoTerminal
  <2>2. /\ status.success = (ok /\ attested)
        /\ status.precondition = p.status.precondition
    BY <1>1 DEF Statuses
  <2>3. p.pc # "ended" /\ Goto(w, "ended", status)
    BY <1>11, <2>1 DEF ProtectedEnds
  <2>4. /\ verdict \in Verdicts
        /\ verdict \in FailureVerdicts => ~ok
        /\ ok => verdict \in CompletedVerdicts
    BY DEF Verdicts, FailureVerdicts, CompletedVerdicts
  <2>5. terminal \in Nat
    BY DEF TypeInv
  <2>6. /\ rows' = rows \/ rows' = Append(rows, Row(p.packet, verdict, terminal, ok))
        /\ attested => rows' = Append(rows, Row(p.packet, verdict, terminal, ok))
    BY <2>1
  <2> HIDE DEF status, verdict, terminal
  <2> QED BY <1>4, <1>9, <2>2, <2>3, <2>4, <2>5, <2>6
<1>12. CASE Gate(w)
  <2> DEFINE ok == TerminalSucceeded(p.terminal)
  <2>1. PICK outcome \in {"unset"} \union PassedOutcomes :
          /\ rows' = Append(rows, Row(p.packet, GateVerdict(outcome), p.terminal, ok))
          /\ Goto(w, "ended", [p.status EXCEPT !.success = outcome # "unset",
                                               !.completed = TRUE, !.childOK = ok,
                                               !.outcome = outcome])
    BY <1>1, <1>12 DEF Gate, Processes
  <2> DEFINE status == [p.status EXCEPT !.success = outcome # "unset", !.completed = TRUE,
                                        !.childOK = ok, !.outcome = outcome]
             verdict == GateVerdict(outcome)
  <2>2. status.precondition = p.status.precondition
    BY <1>1 DEF Statuses
  <2>3. p.pc = "loaded" /\ p.mode = "finalize" /\ Goto(w, "ended", status)
    BY <1>1, <1>12, <2>1 DEF Gate, ProcessInv
  <2>4. verdict \in Verdicts /\ verdict \notin FailureVerdicts
    BY DEF GateVerdict, PassedOutcomes, Verdicts, FailureVerdicts
  <2>5. ok \in BOOLEAN /\ p.terminal \in Nat
    BY <1>1 DEF TerminalSucceeded, Processes
  <2>6. rows' = Append(rows, Row(p.packet, verdict, p.terminal, ok))
    BY <2>1
  <2> HIDE DEF status, verdict, ok
  <2> QED BY <1>4, <1>9, <2>2, <2>3, <2>4, <2>5, <2>6
<1>13. CASE Finish(w) \/ GateLost(w)
  BY <1>3, <1>13 DEF Finish, GateLost
<1> QED
  BY <1>6, <1>7, <1>8, <1>10, <1>11, <1>12, <1>13 DEF Proceed

\* What is on record stays on record.
LEMMA RecordsStay ==
  ASSUME TypeInv, [CrashNext]_dispatchVars, NEW packet
  PROVE  /\ HasResult(packet) => HasResult(packet)'
         /\ Settled(packet) => Settled(packet)'
         /\ \A verdicts : Reported(rows, packet, verdicts) => Reported(rows', packet, verdicts)
<1>1. ASSUME HasResult(packet) PROVE HasResult(packet)'
  <2>1. PICK j \in DOMAIN ledger :
          ledger[j].type = "post" /\ PairKey(ledger[j]) = PairKey(packet)
    BY <1>1 DEF HasResult, Posts
  <2>2. j \in DOMAIN ledger' /\ ledger'[j] = ledger[j]
    BY FilesGrow
  <2>3. j \in Posts(packet)'
    BY <2>1, <2>2 DEF Posts, PairKey
  <2> QED BY <2>3 DEF HasResult
<1>2. \A verdicts : Reported(rows, packet, verdicts) => Reported(rows', packet, verdicts)
  BY FilesGrow DEF Reported
<1>3. ~Fits(ledger) => ~Fits(ledger')
  <2>1. PICK S, T : ledger \in Seq(S) /\ ledger' \in Seq(T)
    BY FilesGrow DEF TypeInv
  <2>2. /\ Len(ledger) \in Nat /\ DOMAIN ledger = 1 .. Len(ledger)
        /\ Len(ledger') \in Nat /\ DOMAIN ledger' = 1 .. Len(ledger')
    BY <2>1, LenProperties
  <2>3. Len(ledger) \in DOMAIN ledger => Len(ledger) \in DOMAIN ledger'
    BY FilesGrow
  <2>4. Len(ledger) <= Len(ledger')
    BY <2>2, <2>3
  <2> QED BY <2>2, <2>4, LedgerAssumption DEF Fits
<1>4. Excused(packet) => Excused(packet)'
  BY <1>3, BrokenGrows DEF Excused
<1> QED BY <1>1, <1>2, <1>4 DEF Settled

\* A process that ends without waiting for an integration leaves a result, if
\* anything can be counted on.
LEMMA FinishRecords ==
  ASSUME Inv, AuditInv, NEW w \in Workers, Finish(w), [CrashNext]_dispatchVars,
         ~AwaitingIntegration(worker[w].status),
         NEW packet, packet = worker[w].packet
  PROVE  Settled(packet)'
<1>1. Busy(w) /\ worker[w].pc = "ended" /\ packet \in Packets
  BY StatusType DEF Finish, Busy, Inv, Processes
<1>2. CASE Settled(packet)
  BY <1>2, RecordsStay DEF Inv
<1>3. CASE broken' = broken \union {packet}
  BY <1>3 DEF Settled, Excused
<1>4. ASSUME ~Settled(packet), NEW now \in Clock,
             LET post == PostResult(packet, worker[w].mode, worker[w].status, now)
             IN ledger' = IF CanAppend(post) THEN Append(ledger, post) ELSE ledger
      PROVE  HasResult(packet)'
  <2> DEFINE post == PostResult(packet, worker[w].mode, worker[w].status, now)
  <2>0. ~HasResult(packet) /\ Fits(ledger) /\ packet.time <= now
    BY <1>4 DEF Settled, Excused
  <2>1. CanAppend(post)
    BY <1>1, <2>0, ResultIsAccepted DEF Inv
  <2>2. ledger' = Append(ledger, post)
    BY <1>4, <2>1
  <2>3. post.type = "post" /\ PairKey(post) = PairKey(packet)
    BY <1>1, PostFacts, PacketLinked DEF PostResult
  <2>4. PICK S : ledger \in Seq(S)
    BY DEF Inv, TypeInv
  <2>5. Len(ledger) + 1 \in DOMAIN ledger' /\ ledger'[Len(ledger) + 1] = post
    BY <2>2, <2>4, AppendKeeps
  <2>6. PairKey(ledger'[Len(ledger) + 1]) = PairKey(packet)
    BY <2>3, <2>5
  <2>7. ledger'[Len(ledger) + 1].type = "post"
    BY <2>3, <2>5
  <2> HIDE DEF post
  <2>8. Posts(packet)' # {}
    BY <2>5, <2>6, <2>7 DEF Posts, PairKey
  <2> QED BY <2>8 DEF HasResult
<1>5. \/ broken' = broken \union {packet}
      \/ \E now \in Clock :
           LET post == PostResult(packet, worker[w].mode, worker[w].status, now)
           IN ledger' = IF CanAppend(post) THEN Append(ledger, post) ELSE ledger
  BY DEF Finish
<1> QED BY <1>2, <1>3, <1>4, <1>5 DEF Settled

\* A decision is recorded by a dispatch, which then has its result to record,
\* unless the files fail it at once.
LEMMA DecisionHasDispatch ==
  ASSUME Inv, AuditInv, NEW packet \in Packets, [CrashNext]_dispatchVars,
         Decided(ledger', packet), ~Decided(ledger, packet)
  PROVE  Settled(packet)' \/ \E w \in Workers : Responsible(w, packet)'
<1>1. \E w \in Workers :
        /\ Busy(w) /\ worker[w] \in Processes
        /\ StartAudit(w) /\ worker[w].mode # "finalize"
        /\ ledger' = Append(ledger, worker[w].packet)
  <2>1. ledger' # ledger
    BY DEF Decided
  <2>2. PICK w \in Workers : Busy(w) /\ worker[w] \in Processes /\ (StartAudit(w) \/ Finish(w))
    <3>1. PICK w \in Workers : StartAudit(w) \/ Finish(w)
      BY <2>1, Movers, CallType, StepMoves DEF dispatchVars, Inv
    <3>2. Busy(w)
      BY <3>1 DEF StartAudit, Finish, Busy
    <3> QED BY <3>1, <3>2, StatusType DEF Inv
  <2>3. PICK S : ledger \in Seq(S)
    BY DEF Inv, TypeInv
  <2>4. ASSUME NEW e, ledger' = Append(ledger, e) PROVE e = packet
    BY <2>3, <2>4, AppendKeeps DEF Decided
  <2>5. ~Finish(w)
    <3>1. SUFFICES ASSUME Finish(w) PROVE FALSE
      OBVIOUS
    <3>2. PICK now \in Clock :
            PostResult(worker[w].packet, worker[w].mode, worker[w].status, now) = packet
      BY <2>1, <2>4, <3>1 DEF Finish
    <3> QED BY <3>2, PostFacts, PacketLinked
  <2>6. StartAudit(w) /\ Decides(worker[w].packet, worker[w].mode)
    BY <2>1, <2>2, <2>5 DEF StartAudit, AlreadyDecided
  <2> QED BY <2>2, <2>6 DEF Decides
<1>2. PICK w \in Workers :
        /\ Busy(w) /\ worker[w] \in Processes
        /\ StartAudit(w) /\ worker[w].mode # "finalize"
        /\ ledger' = Append(ledger, worker[w].packet)
  BY <1>1
<1>3. worker[w].packet = packet
  <2>1. PICK S : ledger \in Seq(S)
    BY DEF Inv, TypeInv
  <2> QED BY <1>2, <2>1, AppendKeeps DEF Decided
<1>4. ledger' # ledger
  BY DEF Decided
<1>5. CASE broken' = broken \union {packet}
  BY <1>5 DEF Settled, Excused
<1>6. CASE \E pc \in {"audited", "ended"} : \E status : Goto(w, pc, status)
  <2>1. Busy(w)' /\ worker'[w].packet = packet /\ worker'[w].mode = worker[w].mode
        /\ worker'[w].pc # "called"
    BY <1>2, <1>3, <1>6 DEF Goto, Inv, TypeInv, Processes, Busy
  <2> QED BY <1>2, <2>1 DEF Responsible
<1> QED BY <1>2, <1>3, <1>4, <1>5, <1>6 DEF StartAudit

\* Who may move in a step in which no process dies.
LEMMA LiveMovers ==
  ASSUME TypeInv, [DispatchNext]_dispatchVars
  PROVE  /\ [CrashNext]_dispatchVars
         /\ \/ UNCHANGED dispatchVars
            \/ \E w \in Workers :
                 /\ Call(w) \/ Proceed(w) \/ ChildEnds(w) \/ RunLost(w) \/ ProtectedEnds(w)
                 /\ \A v \in Workers \ {w} : worker'[v] = worker[v]
<1>1. [CrashNext]_dispatchVars
  BY DEF CrashNext
<1>2. ASSUME NEW w \in Workers,
             Call(w) \/ Proceed(w) \/ ChildEnds(w) \/ RunLost(w) \/ ProtectedEnds(w)
      PROVE  \A v \in Workers \ {w} : worker'[v] = worker[v]
  <2>1. CASE Call(w)
    BY <2>1, CallType
  <2>2. CASE Proceed(w) \/ ChildEnds(w) \/ RunLost(w) \/ ProtectedEnds(w)
    <3>1. Moved(w)
      BY <2>2, StepMoves
    <3> QED BY <3>1 DEF Moved
  <2> QED BY <1>2, <2>1, <2>2
<1> QED BY <1>1, <1>2 DEF DispatchNext

\* A process at its end can only record its result and return.
LEMMA OnlyFinish ==
  ASSUME NEW w \in Workers, worker[w].pc = "ended",
         Call(w) \/ Proceed(w) \/ ChildEnds(w) \/ RunLost(w) \/ ProtectedEnds(w)
  PROVE  Finish(w)
BY DEF Call, Busy, Proceed, StartAudit, NativeRefused, NativeMatch, LaunchFails, Launch, Launching,
       FinalizeUnready, LoadTerminal, Gate, GateLost, ChildEnds, RunLost, ProtectedEnds, At

\* A dispatch stays responsible until the attempt has a result or an attested
\* completed child.
LEMMA ResponsibleStays ==
  ASSUME Inv, AuditInv, FailureInv, [DispatchNext]_dispatchVars,
         NEW packet \in Packets, NEW w \in Workers, Responsible(w, packet)
  PROVE  \/ Responsible(w, packet)'
         \/ Settled(packet)'
         \/ Reported(rows', packet, CompletedVerdicts)
<1>1. CASE worker'[w] = worker[w]
  BY <1>1 DEF Responsible, Busy
<1>2. CASE Call(w)
  BY <1>2 DEF Call, Responsible
<1>3. CASE Finish(w)
  <2>1. worker[w].packet = packet /\ worker[w].pc = "ended" /\ worker[w].mode # "finalize"
        /\ Busy(w)
    BY <1>3 DEF Responsible, Finish
  <2>2. ~worker[w].status.precondition
    BY <2>1 DEF AuditInv, StatusInv
  <2>3. CASE AwaitingIntegration(worker[w].status)
    <3>1. worker[w].status.success /\ worker[w].status.completed
      BY <2>2, <2>3 DEF AwaitingIntegration
    <3>2. Reported(rows, packet, CompletedVerdicts)
      BY <2>1, <3>1 DEF FailureInv
    <3>3. rows' = rows
      BY <1>3 DEF Finish
    <3> QED BY <3>2, <3>3
  <2>4. CASE ~AwaitingIntegration(worker[w].status)
    BY <1>3, <2>1, <2>4, FinishRecords, LiveMovers DEF Inv
  <2> QED BY <2>3, <2>4
<1>4. ASSUME Proceed(w) \/ ChildEnds(w) \/ RunLost(w) \/ ProtectedEnds(w), ~Finish(w)
      PROVE  Responsible(w, packet)'
  <2>1. worker[w].pc \notin {"called", "ended"}
    <3>1. worker[w].pc # "ended"
      BY <1>4, OnlyFinish
    <3> QED BY <3>1 DEF Responsible
  <2>2. ~Return(w)
    <3>1. ~StartAudit(w) /\ ~GateLost(w)
      BY <2>1 DEF StartAudit, GateLost, ProcessInv, Inv, Responsible
    <3>2. ASSUME Return(w) PROVE FALSE
      <4>1. worker'[w] = Idle
        BY <3>2 DEF Return, Inv, TypeInv
      <4>2. worker[w] \in Processes
        BY StatusType DEF Inv, Responsible
      <4>3. \E pc \in ProcessSteps : worker'[w].pc = pc
        <5>1. CASE LoadTerminal(w)
          BY <4>2, <5>1 DEF LoadTerminal, Inv, TypeInv, Processes, ProcessSteps
        <5>2. CASE \E pc \in ProcessSteps : \E status : Goto(w, pc, status)
          BY <4>2, <5>2 DEF Goto, Inv, TypeInv, Processes
        <5>3. CASE LaunchFails(w) \/ RunLost(w) \/ FinalizeUnready(w) \/ ChildEnds(w)
                     \/ ProtectedEnds(w) \/ Gate(w)
          <6>1. \E status : Goto(w, "ended", status)
            BY <5>3 DEF LaunchFails, RunLost, FinalizeUnready, ChildEnds, ProtectedEnds, Gate
          <6> QED BY <5>2, <6>1 DEF ProcessSteps
        <5>4. CASE Launch(w) \/ NativeMatch(w) \/ NativeRefused(w)
          <6>1. \E pc \in {"running", "ended", "protected", "fallback"} : \E status :
                  Goto(w, pc, status)
            BY <5>4 DEF Launch, NativeMatch, NativeRefused
          <6> QED BY <5>2, <6>1 DEF ProcessSteps
        <5> QED BY <1>4, <3>1, <5>1, <5>3, <5>4 DEF Proceed
      <4> QED BY <4>1, <4>3 DEF ProcessSteps
    <3> QED BY <3>2
  <2>3. Moved(w)
    BY <1>4, StepMoves DEF Inv
  <2>4. worker'[w] # Idle
    <3>1. ASSUME worker'[w] = Idle PROVE FALSE
      <4>1. \A v \in Workers \ {w} : worker'[v] = worker[v]
        BY <2>3 DEF Moved
      <4>2. worker' = [worker EXCEPT ![w] = Idle]
        BY <2>3, <3>1, <4>1 DEF Moved, Inv, TypeInv
      <4> QED BY <2>2, <4>2 DEF Return
    <3> QED BY <3>1
  <2>5. /\ worker'[w] \in Processes /\ worker'[w].pc # "called"
        /\ worker'[w].packet = worker[w].packet /\ worker'[w].mode = worker[w].mode
    BY <2>3, <2>4 DEF Moved
  <2> QED BY <2>5 DEF Responsible, Busy, Processes, ProcessSteps
<1> QED BY <1>1, <1>2, <1>3, <1>4, LiveMovers DEF dispatchVars, Inv

\* A process about to record a failure does so.
LEMMA FailingStays ==
  ASSUME Inv, AuditInv, [DispatchNext]_dispatchVars,
         NEW packet \in Packets, NEW w \in Workers, Failing(w, packet)
  PROVE  Failing(w, packet)' \/ Settled(packet)'
<1>1. CASE worker'[w] = worker[w]
  BY <1>1 DEF Failing, Busy
<1>2. CASE Finish(w)
  <2>1. ~AwaitingIntegration(worker[w].status) /\ worker[w].packet = packet
    BY DEF Failing, AwaitingIntegration
  <2> QED BY <1>2, <2>1, FinishRecords, LiveMovers DEF Inv
<1> QED BY <1>1, <1>2, LiveMovers, OnlyFinish DEF Failing, dispatchVars, Inv

\* Every step in which no process dies keeps failures accounted for.
LEMMA FailureStep ==
  ASSUME Inv, AuditInv, FailureInv, [DispatchNext]_dispatchVars PROVE FailureInv'
<1> DEFINE Runs(w) == Proceed(w) \/ ChildEnds(w) \/ RunLost(w) \/ ProtectedEnds(w)
<1>1. [CrashNext]_dispatchVars
  BY LiveMovers DEF Inv
<1>2. \A k \in DOMAIN rows : k \in DOMAIN rows' /\ rows'[k] = rows[k]
  BY <1>1, FilesGrow DEF Inv
<1>3. ASSUME NEW v \in Workers, Busy(v)'
      PROVE  /\ worker'[v].pc # "ended" => ~worker'[v].status.completed
             /\ /\ worker'[v].pc = "ended" /\ worker'[v].mode # "finalize"
                /\ worker'[v].status.success /\ worker'[v].status.completed
                => Reported(rows', worker'[v].packet, CompletedVerdicts)
  <2>1. CASE worker'[v] = worker[v]
    BY <1>1, <1>3, <2>1, RecordsStay DEF FailureInv, Busy, Inv
  <2>2. CASE Call(v)
    <3>1. PICK packet \in Packets, mode \in CallerModes, receipt \in Receipts \union {NoReceipt} :
            worker' = [worker EXCEPT ![v] =
                         Process("called", mode, packet, receipt, NoTerminal, EmptyStatus)]
      BY <2>2 DEF Call
    <3>2. worker'[v] = Process("called", mode, packet, receipt, NoTerminal, EmptyStatus)
      BY <3>1 DEF Inv, TypeInv
    <3> QED BY <3>2 DEF Process, EmptyStatus
  <2>3. CASE Runs(v)
    <3>1. /\ worker'[v].pc # "ended" => ~worker'[v].status.completed
          /\ worker'[v].status.success /\ worker'[v].status.completed
               /\ worker'[v].mode # "finalize" =>
               \E r \in RowSet : /\ rows' = Append(rows, r) /\ r.packet = worker[v].packet
                                 /\ r.verdict \in CompletedVerdicts
      BY <1>3, <2>3, RunMoves DEF Inv, AuditInv
    <3>2. worker'[v].packet = worker[v].packet
      BY <1>3, <2>3, StatusMoves DEF Inv, AuditInv
    <3>3. ASSUME NEW r \in RowSet, rows' = Append(rows, r), r.packet = worker[v].packet,
                 r.verdict \in CompletedVerdicts
          PROVE  Reported(rows', worker'[v].packet, CompletedVerdicts)
      <4>1. Len(rows) + 1 \in DOMAIN rows' /\ rows'[Len(rows) + 1] = r
        BY <3>3, AppendKeeps DEF Inv, TypeInv
      <4> QED BY <3>2, <3>3, <4>1 DEF Reported
    <3> QED BY <3>1, <3>3
  <2> QED BY <2>1, <2>2, <2>3, LiveMovers DEF Inv, dispatchVars
<1>4. ASSUME NEW packet \in Packets, Decided(ledger', packet)
      PROVE  \/ Settled(packet)'
             \/ \E w \in Workers : Responsible(w, packet)'
             \/ Reported(rows', packet, CompletedVerdicts)
  <2>1. CASE ~Decided(ledger, packet)
    BY <1>1, <1>4, <2>1, DecisionHasDispatch
  <2>2. CASE Settled(packet)
    BY <1>1, <2>2, RecordsStay DEF Inv
  <2>3. CASE \E w \in Workers : Responsible(w, packet)
    BY <2>3, ResponsibleStays
  <2>4. CASE Reported(rows, packet, CompletedVerdicts)
    BY <1>1, <2>4, RecordsStay DEF Inv
  <2> QED BY <2>1, <2>2, <2>3, <2>4 DEF FailureInv
<1>5. ASSUME NEW packet \in Packets, Reported(rows', packet, FailureVerdicts)
      PROVE  Settled(packet)' \/ \E w \in Workers : Failing(w, packet)'
  <2>1. CASE Reported(rows, packet, FailureVerdicts)
    <3>1. Settled(packet) \/ \E w \in Workers : Failing(w, packet)
      BY <2>1 DEF FailureInv
    <3> QED BY <1>1, <3>1, RecordsStay, FailingStays DEF Inv
  <2>2. CASE ~Reported(rows, packet, FailureVerdicts)
    <3>1. PICK k \in DOMAIN rows' :
            rows'[k].packet = packet /\ rows'[k].verdict \in FailureVerdicts
      BY <1>5 DEF Reported
    <3>2. k \notin DOMAIN rows
      BY <1>2, <2>2, <3>1 DEF Reported
    <3>3. rows' # rows
      BY <3>1, <3>2
    <3>4. PICK w \in Workers : Runs(w)
      BY <3>3, LiveMovers DEF Inv, dispatchVars, Call
    <3>5. PICK r \in RowSet :
            /\ rows' = Append(rows, r) /\ r.packet = worker[w].packet
            /\ r.verdict \in FailureVerdicts =>
                 /\ Busy(w)' /\ worker'[w].pc = "ended"
                 /\ ~worker'[w].status.success /\ ~worker'[w].status.precondition
      BY <3>3, <3>4, RunMoves DEF Inv, AuditInv
    <3>6. rows'[k] = r
      BY <3>1, <3>2, <3>5, AppendKeeps DEF Inv, TypeInv
    <3>7. /\ Busy(w)' /\ worker'[w].pc = "ended"
          /\ ~worker'[w].status.success /\ ~worker'[w].status.precondition
          /\ worker[w].packet = packet
      BY <3>1, <3>5, <3>6
    <3>8. worker'[w].packet = worker[w].packet
      BY <3>4, <3>7, StatusMoves DEF Inv, AuditInv
    <3> QED BY <3>7, <3>8 DEF Failing
  <2> QED BY <2>1, <2>2
<1> QED BY <1>3, <1>4, <1>5 DEF FailureInv

\* What FailureInv says of an attempt that nobody works on.
LEMMA FailureInvSuffices == FailureInv => FailureIsRecorded
<1> SUFFICES ASSUME FailureInv, NEW packet \in Packets, HasPre(packet), Quiet(packet.id),
                    Posts(packet) = {}, packet \notin broken, Fits(ledger),
                    \A now \in Clock : packet.time <= now
             PROVE  LET own == {rows[k].verdict : k \in {i \in DOMAIN rows : rows[i].packet = packet}}
                    IN own \cap FailureVerdicts = {} /\ own \cap CompletedVerdicts # {}
  BY DEF FailureIsRecorded
<1>1. Decided(ledger, packet) /\ ~Settled(packet)
  BY DEF HasPre, Decided, HasResult, Settled, Excused
<1>2. \A w \in Workers : ~Responsible(w, packet) /\ ~Failing(w, packet)
  BY DEF Quiet, Responsible, Failing
<1>3. Reported(rows, packet, CompletedVerdicts) /\ ~Reported(rows, packet, FailureVerdicts)
  BY <1>1, <1>2 DEF FailureInv
<1> QED BY <1>3 DEF Reported

\* Whatever packets are dispatched, and however processes interleave: as long
\* as none dies, an attempt that nobody works on any more and that has no
\* result holds an attested completed child and no attested failure, unless
\* the files failed a call for it, the file is full, or its decision is dated
\* later than the clock may read.  _finish_adaptive_audit records every other
\* outcome, and no other rule of the ledger refuses what it records.
THEOREM FailuresAreRecorded == DispatchSpec => []FailureIsRecorded
<1>1. DispatchInit => FailureInv
  BY DEF DispatchInit, Init, FailureInv, Decided, Reported, Busy
<1>2. Inv /\ AuditInv /\ FailureInv /\ [DispatchNext]_dispatchVars => FailureInv'
  BY FailureStep
<1>3. DispatchSpec => [](Inv /\ AuditInv)
  BY DispatchIsCrash, Invariant, AuditInvariant, PTL
<1> QED BY <1>1, <1>2, <1>3, FailureInvSuffices, PTL DEF DispatchSpec
=============================================================================
