------------------------------ MODULE Dispatcher ------------------------------
(***************************************************************************)
(* The audited dispatcher: processes that dispatch a packet to a child or  *)
(* finalize its integration, and record what happened in two append-only   *)
(* files, the routing ledger (module AttemptLedger) and the attestation    *)
(* ledger (rows).  Translated from                                         *)
(* scripts/adaptive_dispatch_attestation.py.                               *)
(*                                                                         *)
(* Each process runs the same straight line of steps; a step is what       *)
(* happens between two accesses to a file that other processes write.      *)
(***************************************************************************)
EXTENDS AttemptLedger, LeafOutcome

CONSTANTS
  Workers,    \* processes that run the dispatcher
  Packets,    \* the pre_decision events that the packets stand for
  CallerModes,      \* what callers ask for: a subset of Modes
  ReceiptOutcomes,  \* what receipts say: a subset of PassedOutcomes
  LaunchPaths,      \* how callers launch: a subset of AllLaunchPaths
  Faults,           \* what goes wrong with children: a subset of
                    \*   Violations, EvidenceFaults and NativeRefusals
  Clock,            \* what the clock may read when a result is dated
  MaxCalls          \* bound: how often the dispatcher is invoked

VARIABLES
  rows,       \* the attestation ledger, oldest row first
  worker,     \* what each process is doing
  broken,     \* history: packets with a call that the files failed once the
              \*   decision was recorded, and that recorded no result
  calls       \* invocations so far

dispatchVars == <<ledger, installed, rows, worker, broken, calls>>

-----------------------------------------------------------------------------
(* A row names the terminal event it was captured with or finalized from   *)
(* (the nonce: the position of the row that captured it) and tells whether *)
(* that child exited 0.                                                    *)

NoTerminal == 0

Modes == {"dispatch", "validate", "finalize"}

PassedOutcomes == {"terminal_outcome_accepted", "path_accepted", "path_blocked",
                   "all_lanes_exhausted"}

\* The execution status that the steps of one invocation fill in.
EmptyStatus ==
  [success |-> FALSE,          \* the dispatch returned exit code 0
   completed |-> FALSE, childOK |-> FALSE,
   failure |-> "unset",        \* failure class of a policy violation
   outcome |-> "unset",        \* outcome of a receipt the gate passed
   gate |-> FALSE,             \* the main authority is below the policy
   precondition |-> FALSE]     \* finalization could not reach the receipt

Idle == [pc |-> "idle"]

Process(pc, mode, packet, receipt, terminal, status) ==
  [pc |-> pc, mode |-> mode, packet |-> packet, receipt |-> receipt,
   terminal |-> terminal, status |-> status]

Busy(w) == worker[w].pc # "idle"

At(w, pc, mode) == worker[w].pc = pc /\ worker[w].mode = mode

Goto(w, pc, status) ==
  worker' = [worker EXCEPT ![w].pc = pc, ![w].status = status]

Return(w) == worker' = [worker EXCEPT ![w] = Idle]

Row(packet, verdict, terminal, ok) ==
  [packet |-> packet, verdict |-> verdict, terminal |-> terminal, ok |-> ok]

-----------------------------------------------------------------------------
(* _load_terminal_event: the newest terminal event of this packet; none    *)
(* when a row of the same dispatch id belongs to another packet.           *)

TerminalRows(packet) ==
  {k \in DOMAIN rows : rows[k].packet.id = packet.id /\ rows[k].terminal # NoTerminal}

LoadTerminalEvent(packet) ==
  LET own == TerminalRows(packet)
  IN IF own = {} \/ \E k \in own : rows[k].packet # packet
     THEN NoTerminal
     ELSE rows[CHOOSE k \in own : \A j \in own : j <= k].terminal

TerminalSucceeded(n) == \E k \in DOMAIN rows : rows[k].terminal = n /\ rows[k].ok

-----------------------------------------------------------------------------
(* _finish_adaptive_audit: the result that a status amounts to.            *)

\* Mutant: a clean child exit is taken for acceptance.
AcceptedOnExit(status) == status.childOK /\ status.success

Accepted(status) ==
  status.outcome = "terminal_outcome_accepted" /\ status.childOK /\ status.success

\* Failure class and next action, in the order in which the code decides.
Assessment(packet, mode, status) ==
  IF status.outcome = "all_lanes_exhausted" THEN <<"all_lanes_exhausted", "stop">>
  ELSE IF status.outcome = "path_accepted" THEN <<"path_accepted", "continue_lane">>
  ELSE IF status.outcome = "path_blocked" THEN <<"lane_blocked", "return_to_main">>
  ELSE IF Accepted(status) THEN <<"none", "stop">>
  ELSE IF status.gate THEN <<"policy_gate", "stop">>
  ELSE IF status.failure = "context_ceiling"
  THEN <<"context_ceiling", ConfiguredEscalation(packet.class, packet.oracle, packet.route)>>
  ELSE IF status.failure # "unset" THEN <<status.failure, "narrow_scope">>
  ELSE IF status.childOK THEN <<"other", "human_review">>
  ELSE IF mode = "validate" THEN <<"other", "stop">>
  ELSE <<"tool_or_environment", "environment_retry">>

\* The result is dated with a reading of the clock.
PostResult(packet, mode, status, now) ==
  [type |-> "post", id |-> packet.id, task |-> packet.task, index |-> packet.index,
   stamp |-> CurrentStamp(installed), link |-> packet.link,
   digest |-> packet.digest, route |-> packet.route, effort |-> packet.effort,
   model |-> packet.model, accepted |-> Accepted(status),
   executed |-> status.completed,
   failure |-> Assessment(packet, mode, status)[1],
   next |-> Assessment(packet, mode, status)[2], time |-> now]

\* Mutant: any child that exited 0 waits for its integration.
AwaitingAnyExit(status) ==
  \/ status.completed /\ status.childOK /\ ~Accepted(status)
  \/ status.precondition

\* No result is recorded yet: the integration of a finished child is still
\* to come, or its finalization did not get as far as the receipt.
AwaitingIntegration(status) ==
  \/ status.success /\ status.completed /\ status.childOK /\ ~Accepted(status)
  \/ status.precondition

-----------------------------------------------------------------------------
(* Steps of one process.                                                   *)

Captured == {rows[k].terminal : k \in DOMAIN rows}

NoReceipt == [terminal |-> NoTerminal, outcome |-> "unset"]

\* The receipts a checker can have written by now.
Receipts == [terminal : Captured \ {NoTerminal}, outcome : ReceiptOutcomes]

\* A caller starts the dispatcher.
Call(w) ==
  /\ ~Busy(w) /\ calls < MaxCalls
  /\ calls' = calls + 1
  /\ \E packet \in Packets, mode \in CallerModes, receipt \in Receipts \union {NoReceipt} :
       /\ mode # "finalize" => receipt = NoReceipt
       /\ worker' = [worker EXCEPT ![w] =
            Process("called", mode, packet, receipt, NoTerminal, EmptyStatus)]
  /\ UNCHANGED <<ledger, installed, rows, broken>>

\* Mutant: finalization takes no lock.
NeverFinalizing(id) == {}

\* Mutant: a dispatch holds the lock too, for as long as its child runs.
InFlight(id) ==
  {w \in Workers : Busy(w) /\ worker[w].pc # "called" /\ worker[w].packet.id = id}

\* The process that holds the finalization lock of a dispatch id.
Finalizing(id) ==
  {w \in Workers : Busy(w) /\ worker[w].mode = "finalize"
                   /\ worker[w].pc # "called" /\ worker[w].packet.id = id}

HasPre(packet) == \E i \in DOMAIN ledger : ledger[i] = packet

ExactUnpairedPre(packet) ==
  /\ HasPre(packet)
  /\ \A j \in DOMAIN ledger : ledger[j].type = "post" => PairKey(ledger[j]) # PairKey(packet)

\* _parse_ledger accepts the file: it is within the size bound, and every
\* line is valid on its own.
Parses ==
  /\ Fits(ledger)
  /\ \A k \in DOMAIN ledger : ValidEvent(installed, ledger[k])

\* The decision was recorded already by an earlier call: nothing is written,
\* and nothing reviewed.
AlreadyDecided(packet, mode) ==
  /\ Parses
  /\ HasPre(packet)
  /\ mode = "finalize" => ExactUnpairedPre(packet)
  /\ UNCHANGED ledger

\* The decision is recorded now; a finalization records none.
Decides(packet, mode) ==
  /\ mode # "finalize"
  /\ ~HasPre(packet) /\ CanAppend(packet)
  /\ ledger' = Append(ledger, packet)

\* A decision for a Sol route is reviewed at once, for which the ledger is
\* read again: it may have just outgrown its bound.
ReviewIsMade(packet) == IsSol(packet.route) => Fits(ledger')

\* _start_adaptive_audit; finalization holds its lock from here on.  A main
\* authority below the policy goes straight to its terminal result.  The call
\* fails when the ledger refuses the decision or cannot be used, and also when
\* the decision is in it, but its review or the end of its write fails.
StartAudit(w) ==
  LET p == worker[w] IN
  /\ p.pc = "called"
  /\ p.mode = "finalize" => Finalizing(p.packet.id) = {}
  /\ \/ /\ \/ AlreadyDecided(p.packet, p.mode)
           \/ Decides(p.packet, p.mode) /\ ReviewIsMade(p.packet)
        /\ IF p.packet.link \in AuthorizedLinks
           THEN Goto(w, "audited", p.status)
           ELSE Goto(w, "ended", [p.status EXCEPT !.gate = TRUE])
        /\ UNCHANGED broken
     \/ /\ Decides(p.packet, p.mode)
        /\ Return(w)
        /\ broken' = broken \union {p.packet}
     \/ Return(w) /\ UNCHANGED <<ledger, broken>>
  /\ UNCHANGED <<installed, rows, calls>>

\* A dispatch that has yet to launch a child.
Launching(w) ==
  \/ At(w, "audited", "dispatch") \/ At(w, "audited", "validate")
  \/ worker[w].pc = "fallback"

\* Invalid packet, unsafe launch, a launch row that cannot be written: the call
\* fails and no child ran.
LaunchFails(w) ==
  /\ Launching(w)
  /\ Goto(w, "ended", worker[w].status)
  /\ UNCHANGED <<ledger, installed, rows, broken, calls>>

\* The launch is attested; only a dispatch goes on to run the child, which the
\* operating system may still refuse to start.
Launch(w) ==
  /\ Launching(w)
  /\ rows' = Append(rows, Row(worker[w].packet, "launch_config_match", NoTerminal, FALSE))
  /\ \/ /\ worker[w].mode = "dispatch"
        /\ Goto(w, "running", worker[w].status) \/ Goto(w, "ended", worker[w].status)
     \/ /\ worker[w].mode = "validate"
        /\ Goto(w, "ended", [worker[w].status EXCEPT !.success = TRUE])
  /\ UNCHANGED <<ledger, installed, broken, calls>>

\* The run of a typed child is over: what is reported of it is any outcome of
\* its supervision (module LeafRun), attested if the row can be written.
ChildEnds(w) ==
  /\ worker[w].pc = "running"
  /\ \E run \in LeafOutcomes(Faults) :
       /\ rows' = IF run.verdict = "none" THEN rows
                  ELSE Append(rows, Row(worker[w].packet, run.verdict,
                         IF run.captured THEN Len(rows) + 1 ELSE NoTerminal, run.ok))
       /\ Goto(w, "ended",
            [worker[w].status EXCEPT
               !.success = run.verdict = "typed_completed",
               !.completed = TRUE, !.childOK = run.ok, !.failure = run.failure])
  /\ UNCHANGED <<ledger, installed, broken, calls>>

\* The supervision is given up while the child may be running.
RunLost(w) ==
  /\ worker[w].pc = "running"
  /\ Goto(w, "ended", worker[w].status)
  /\ UNCHANGED <<ledger, installed, rows, broken, calls>>

AllLaunchPaths == {"typed", "native"}

NativeRefusals == {"native_admission_rejected", "unavailable", "mismatch",
                   "unsafe_launch_path"}

\* A native session is not admitted, has no trusted rollout or runs another
\* model: the call ends, or goes on with the typed launch it was given.
NativeRefused(w) ==
  /\ "native" \in LaunchPaths
  /\ At(w, "audited", "dispatch") \/ At(w, "audited", "validate")
  /\ \E verdict \in Faults \cap NativeRefusals :
       /\ rows' = Append(rows, Row(worker[w].packet, verdict, NoTerminal, FALSE))
       /\ \E pc \in {"ended"} \union (IF verdict = "unsafe_launch_path" THEN {}
                                      ELSE {"fallback"}) :
            Goto(w, pc, worker[w].status)
  /\ UNCHANGED <<ledger, installed, broken, calls>>

\* A native session is admitted, and a dispatch resumes it.
NativeMatch(w) ==
  /\ "native" \in LaunchPaths
  /\ At(w, "audited", "dispatch") \/ At(w, "audited", "validate")
  /\ rows' = Append(rows, Row(worker[w].packet, "match", NoTerminal, FALSE))
  /\ IF worker[w].mode = "validate"
     THEN Goto(w, "ended", [worker[w].status EXCEPT !.success = TRUE])
     ELSE Goto(w, "protected", worker[w].status)
  /\ UNCHANGED <<ledger, installed, broken, calls>>

\* The resumed session ends, or could not be started; nobody monitors it.
ProtectedEnds(w) ==
  /\ worker[w].pc = "protected"
  /\ \E started, ok, captured, attested \in BOOLEAN :
       LET verdict == IF ok THEN "protected_completed" ELSE "protected_failed"
           terminal == IF captured THEN Len(rows) + 1 ELSE NoTerminal
       IN /\ ok \/ captured => started
          /\ rows' = IF attested
                     THEN Append(rows, Row(worker[w].packet, verdict, terminal, ok))
                     ELSE rows
          /\ Goto(w, "ended", [worker[w].status EXCEPT
               !.success = ok /\ attested, !.completed = started, !.childOK = ok])
  /\ UNCHANGED <<ledger, installed, broken, calls>>

\* _finalize_integration up to the receipt: conflicting arguments, an invalid
\* packet, and a terminal event that is missing, of another packet or no
\* longer backed by its rollout end the call and leave the attempt as it is.
FinalizeUnready(w) ==
  /\ At(w, "audited", "finalize")
  /\ Goto(w, "ended", [worker[w].status EXCEPT !.precondition = TRUE])
  /\ UNCHANGED <<ledger, installed, rows, broken, calls>>

LoadTerminal(w) ==
  LET terminal == LoadTerminalEvent(worker[w].packet) IN
  /\ At(w, "audited", "finalize")
  /\ terminal # NoTerminal
  /\ worker' = [worker EXCEPT ![w].pc = "loaded", ![w].terminal = terminal]
  /\ UNCHANGED <<ledger, installed, rows, broken, calls>>

GateVerdict(outcome) ==
  CASE outcome = "terminal_outcome_accepted" -> "integration_accepted"
    [] outcome = "unset" -> "integration_blocked"
    [] OTHER -> outcome

\* _integration_gate and the attestation of what it decided.  A receipt can
\* pass only when the child exited 0 and the receipt is bound to the terminal
\* event that was loaded; whether its evidence holds is the environment's.
Gate(w) ==
  LET p == worker[w]
      ok == TerminalSucceeded(p.terminal)
      passes == ok /\ p.receipt.terminal = p.terminal
  IN /\ p.pc = "loaded"
     /\ \E outcome \in {"unset"} \union (IF passes THEN {p.receipt.outcome} ELSE {}) :
          /\ rows' = Append(rows, Row(p.packet, GateVerdict(outcome), p.terminal, ok))
          /\ Goto(w, "ended", [p.status EXCEPT !.success = outcome # "unset",
                                               !.completed = TRUE, !.childOK = ok,
                                               !.outcome = outcome])
     /\ UNCHANGED <<ledger, installed, broken, calls>>

\* The terminal event cannot be read or the row not be written: the call fails
\* there and then, and the attempt stays as it is.
GateLost(w) ==
  /\ worker[w].pc = "loaded"
  /\ Return(w)
  /\ UNCHANGED <<ledger, installed, rows, broken, calls>>

\* The end of _audited_dispatch: the result is recorded, unless integration is
\* still to come, the ledger refuses it or cannot be used; either way the call
\* returns, and a finalization releases its lock.
Finish(w) ==
  LET p == worker[w] IN
  /\ p.pc = "ended"
  /\ \/ AwaitingIntegration(p.status) /\ UNCHANGED <<ledger, broken>>
     \/ /\ ~AwaitingIntegration(p.status)
        /\ \E now \in Clock :
             LET post == PostResult(p.packet, p.mode, p.status, now)
             IN ledger' = IF CanAppend(post) THEN Append(ledger, post) ELSE ledger
        /\ UNCHANGED broken
     \/ /\ ~AwaitingIntegration(p.status)
        /\ broken' = broken \union {p.packet}
        /\ UNCHANGED ledger
  /\ Return(w)
  /\ UNCHANGED <<installed, rows, calls>>

\* A process dies; what it wrote stays, and the kernel drops its locks.
Crash(w) ==
  /\ Busy(w)
  /\ Return(w)
  /\ UNCHANGED <<ledger, installed, rows, broken, calls>>

\* The steps a process takes by itself, the exit of its child left out.
Proceed(w) ==
  \/ StartAudit(w) \/ NativeRefused(w) \/ NativeMatch(w)
  \/ LaunchFails(w) \/ Launch(w)
  \/ FinalizeUnready(w) \/ LoadTerminal(w) \/ Gate(w) \/ GateLost(w) \/ Finish(w)

\* A decision is stamped with the policy that is installed when it is made.
DispatchInit ==
  /\ Init
  /\ \A packet \in Packets : Current(installed, packet)
  /\ rows = << >>
  /\ worker = [w \in Workers |-> Idle]
  /\ broken = {}
  /\ calls = 0

DispatchNext == \E w \in Workers : Call(w) \/ Proceed(w) \/ ChildEnds(w) \/ RunLost(w) \/ ProtectedEnds(w)

CrashNext == DispatchNext \/ \E w \in Workers : Crash(w)

\* Processes do not stop between their own steps; a child may never exit.
DispatchSpec ==
  /\ DispatchInit /\ [][DispatchNext]_dispatchVars
  /\ \A w \in Workers : WF_dispatchVars(Proceed(w))

CrashSpec == DispatchInit /\ [][CrashNext]_dispatchVars

-----------------------------------------------------------------------------
\* Only leaf routes are dispatched: a packet names a role of the package.
ASSUME DispatcherAssumption ==
  /\ MaxCalls \in Nat /\ Clock \subseteq Nat
  /\ Faults \subseteq Violations \union EvidenceFaults \union NativeRefusals
  /\ CallerModes \subseteq Modes /\ LaunchPaths \subseteq AllLaunchPaths
  /\ ReceiptOutcomes \subseteq PassedOutcomes
  /\ \A p \in Packets : IsEvent(p) /\ p.type = "pre" /\ Linked(p) /\ ~IsMain(p.route)

\* A fact of the shipped policy file: its failure table allows the actions
\* that the dispatcher writes by itself.
ASSUME AssessmentAssumption ==
  /\ \A f \in {"none", "policy_gate", "other", "all_lanes_exhausted"} :
       "stop" \in FailureActions[f]
  /\ "human_review" \in FailureActions["other"]
  /\ "continue_lane" \in FailureActions["path_accepted"]
  /\ "return_to_main" \in FailureActions["lane_blocked"]
  /\ "narrow_scope" \in FailureActions["scope_or_retrieval_overbreadth"]
  /\ "environment_retry" \in FailureActions["tool_or_environment"]

-----------------------------------------------------------------------------
(* Properties.                                                             *)

Verdicts ==
  {"launch_config_match", "execution_policy_violation", "forbidden_leaf_tool_call",
   "runtime_unavailable", "runtime_mismatch", "typed_completed", "typed_failed",
   "integration_accepted", "path_accepted", "path_blocked", "all_lanes_exhausted",
   "integration_blocked", "match", "protected_completed", "protected_failed"}
  \union NativeRefusals

FailureVerdicts ==
  {"execution_policy_violation", "forbidden_leaf_tool_call", "runtime_unavailable",
   "runtime_mismatch", "typed_failed", "protected_failed"}

CompletedVerdicts == {"typed_completed", "protected_completed"}

Posts(packet) ==
  {j \in DOMAIN ledger : ledger[j].type = "post" /\ PairKey(ledger[j]) = PairKey(packet)}

\* No process is working on a dispatch id.
Quiet(id) == \A w \in Workers : Busy(w) => worker[w].packet.id # id

\* What the attestation ledger and the processes hold.
DispatchTypeOK ==
  /\ \A k \in DOMAIN rows : /\ rows[k].packet \in Packets
                            /\ rows[k].verdict \in Verdicts
                            /\ rows[k].terminal \in 0 .. k
                            /\ rows[k].ok \in BOOLEAN
  /\ \A w \in Workers :
       Busy(w) => /\ worker[w].pc \in {"called", "audited", "fallback", "running",
                                   "protected", "loaded", "ended"}
                  /\ worker[w].mode \in Modes
                  /\ worker[w].packet \in Packets
  /\ broken \subseteq Packets

\* The routing ledger says that an attempt was accepted only when the
\* attestation ledger holds the acceptance, and before it a run of that very
\* packet that exited 0: in whatever order processes run, and wherever one of
\* them dies, the result never gets ahead of its evidence.
AcceptedIsAttested ==
  \A packet \in Packets : \A j \in Posts(packet) :
    HasPre(packet) /\ ledger[j].accepted =>
      \E k \in DOMAIN rows :
        /\ rows[k].packet = packet /\ rows[k].verdict = "integration_accepted"
        /\ \E i \in 1 .. k - 1 : /\ rows[i].packet = packet /\ rows[i].ok
                                 /\ rows[i].terminal = i
                                 /\ rows[k].terminal = i

\* An attempt that was accepted is not accepted a second time, however many
\* processes finalize it and wherever they die: the pending check, the gate
\* and the result are one critical section.
NoSecondAcceptance ==
  [][\A k \in DOMAIN rows' \ DOMAIN rows :
       rows'[k].verdict = "integration_accepted"
       => \A j \in Posts(rows'[k].packet) : ~ledger[j].accepted]_dispatchVars

\* "A failed execution or policy gate records its terminal post_result
\* immediately": once no process works on an attempt any more, an attested
\* failure has a result, and only an attempt with an attested completed child
\* is left without one.  Unless the files failed, the ledger is full, or the
\* caller dated its decision later than the clock may read, the ledger has no
\* rule by which it refuses a result that the dispatcher makes.
FailureIsRecorded ==
  \A packet \in Packets :
    /\ HasPre(packet) /\ Quiet(packet.id) /\ Posts(packet) = {}
    /\ packet \notin broken /\ Fits(ledger) /\ \A now \in Clock : packet.time <= now
    =>
      LET own == {rows[k].verdict : k \in {i \in DOMAIN rows : rows[i].packet = packet}}
      IN own \cap FailureVerdicts = {} /\ own \cap CompletedVerdicts # {}

\* A result that asks for an escalation leaves exactly one route to go on
\* with: the dispatcher names the step that the ledger will demand.
EscalationContinues ==
  \A packet \in Packets : \A j \in Posts(packet) :
    HasPre(packet) /\ ledger[j].next \in EscalationActions =>
      Cardinality({r \in Routes : NextRouteOK(packet, ledger[j], [route |-> r])}) = 1

\* A finalization always returns: it waits for other finalizations of its
\* dispatch id only, never for a child that is running.
FinalizationReturns ==
  \A w \in Workers :
    (Busy(w) /\ worker[w].mode = "finalize") ~> ~Busy(w)

-----------------------------------------------------------------------------
(* What the documentation says of the dispatcher.                          *)

\* "Within one installed terminal/receipt/audit schema, receipt-gate and
\* pre-gate failures remain pending for a corrected submission": a
\* finalization whose receipt the gate blocked records no result.
ReceiptFailureStaysPending ==
  [][\A w \in Workers :
       /\ At(w, "ended", "finalize") /\ ~Busy(w)'
       /\ worker[w].status.completed /\ worker[w].status.outcome = "unset"
       => UNCHANGED ledger]_dispatchVars

\* "This prevents an execution-only success from being frozen as a rejected
\* result that later finalization cannot replace": an attempt with a
\* completed child gets a rejected result from a finalization only.
SuccessIsNotFrozen ==
  [][\A w \in Workers, k \in DOMAIN rows :
       /\ At(w, "ended", "dispatch") /\ ledger' # ledger /\ ~Busy(w)'
       => ~(rows[k].verdict = "typed_completed" /\ rows[k].packet = worker[w].packet)]_dispatchVars
=============================================================================
