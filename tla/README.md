# adaptive-delegation: a TLA+ verification project

adaptive-delegation lets the main session of a coding agent delegate a task to
a child process (a *leaf*) on one of several model routes, and keeps an audit
trail of every attempt. Its Python code decides which routes an attempt may
take, appends what was decided and what came of it to files that several
processes share, and refuses whatever does not fit the history. These modules
model that decision logic, the shared files and the processes that write them.
Source references are to `adaptive-delegation/scripts/` unless they say
otherwise: DP is `dispatch_policy.py`, MR is `model_routing_audit.py`, AD is
`adaptive_dispatch_attestation.py`; INS is `scripts/install.py` and VS is
`scripts/version_status.py` at the top of the repository.

## 1. The system

| component | state | operations | talks to |
|---|---|---|---|
| Route policy (DP, `config/model-routing.defaults.json`) | a policy file, read-only at run time | `validate_policy_routes`, `validate_route_selection`, `route_transition` | everything below calls it |
| Routing ledger (MR) | `attempts.jsonl`, append-only, under a file lock | `record_event`, `exact_unpaired_pre_exists` | called by main sessions and by the dispatcher |
| Audited dispatch, integration finalization (AD) | `dispatch-attestations.jsonl`, append-only; a lock file for each dispatch id | dispatch, `--validate-only`, `--finalize-integration` | writes the routing ledger and its own file, runs a child |
| Leaf supervisor, token monitor (AD `_run_recovery`, `RolloutTokenMonitor`) | the child, its output queue and rollout, counters | start, poll, stop the child's process group | inside one dispatch |
| Native admission, packet validation, typed launch (AD) | none | compare two documents, validate one, build an argv | inside one dispatch |
| Reviews (MR) | one directory for each review | write aggregates after every n-th result | reads the ledger after an append |
| Issue reporting (MR `issue_report`, `record_issue_submission`) | `issue-report-state.jsonl`, append-only, under a lock | prepare a report, record its issue | reads the routing ledger |
| Health report, continuity reader | none | read and summarise | |
| Installer, package manifest (INS) | the installed package and its backup, the dispatcher, the role files, entries of older releases | clean, stage, replace, roll back, copy, remove | replaces the policy and the roles under running dispatches |
| Version status (VS) | none | compare a checkout with the installed package | reads what the installer wrote |
| Release preflight, dogfood verifier | none | development tools | |

How they interact. A main session or the dispatcher appends a `pre_decision`
for attempt *n* of a task; the dispatcher attests the launch, runs the child,
and attests how the run ended together with a *terminal event* (a nonce that
names this run). A failed run gets its `post_result` at once. A run that exited
0 waits: a checker writes a receipt bound to the terminal event, a second
process finalizes the integration, and its gate decides what is attested and
what result is recorded. The next attempt of the task is legal only when the
ledger says that its route follows from that result.

What is hard, and what makes each part correct:

* **Routing ledger.** Any number of processes append to one file. The checks
  look at the last pair, at the current decisions and at the trailing pairs of
  one route, yet what readers rely on concerns the whole history: one open
  attempt for each task, numbers without gaps, nothing after an acceptance, one
  objective lock, a bounded number of tries on a route, counters that tell the
  chain. Events of another policy, schema or lock version are read leniently,
  so installing a policy changes which checks the same line gets. A line that
  an append lets through and a later read refuses makes the file useless to
  every task; so does one that carries the file past the size that readers take.
* **Route policy.** The transition exists twice (DP `route_transition`, which
  the tests use, and MR `_check_current_transition`, which the ledger uses), and
  the dispatcher has a third function that picks an escalation by itself. They
  have to agree, and each result must leave a route to go on with.
* **Dispatcher.** Two files without a common transaction; retries, repeated
  dispatches, racing finalizations and deaths between any two writes; one
  predicate that tells "the integration is still to come" from "this attempt is
  over".
* **Supervisor.** Four things run beside each other: the child, the processes it
  starts, the thread that reads its output and the loop that polls. A violation
  may be written between the last poll and the exit, a rollout may become
  readable only after it, a process may hold the output open after the child is
  gone. A clean verdict has to mean a clean run, a violator has to stop, and the
  loop has to end.
* **Reviews.** A review is asked for after the lock is released, from a ledger
  that others have appended to since; the write before it is not looked at.
* **Issue reporting.** A report is decided on two files that are read at
  different times, and its life has three steps (prepared, published,
  recorded) in which any call may be repeated. No attempt may be reported twice
  or skipped, and what one call appends the next has to accept.
* **Installer.** A sequence of renames and copies that an error, Ctrl-C or a
  death can cut anywhere. What a rerun has to remove it finds through files that
  the broken run may have replaced already, and a dispatch reads the policy twice
  while they change.

`PROJECT.json` lists the components with their status, and under `hazards` the
places in the code where these things bite.

## 2. Modules

    RoutePolicy            parameters and rules of the policy          DP
      AttemptTransitions   the ledger's own transition rules           MR 1130-1196
        RouteWalk          the routes one task can go through          DP and MR compared
        AttemptRules       events, pairs, histories                    MR 518-1294
          AttemptLedger    the file and its appends (state machine)    MR 1337-1424
            Dispatcher     processes that dispatch and finalize        AD 4212-4440
            EventRecorder  appends cut short, reviews after them       MR 1384-1424, 1897-2010
    LeafOutcome            what can be reported of a child (used by Dispatcher)  AD 3873-3994
      LeafRun              abstract specification of LeafSupervisor
      LeafSupervisor       the polling loop around a child             AD 3686-3994
    TaskChains             abstract specification of AttemptLedger
    IssueReport            reporters and the issue state               MR 2013-2444
    Installer              runs of the installer, version status       INS 171-556, VS 141-195
    DefaultPolicy          the shipped policy as values                config/
    <Module>_proofs        theorems about AttemptLedger, RouteWalk, Dispatcher,
                           LeafOutcome, LeafSupervisor, EventRecorder,
                           IssueReport, Installer
    MC<Module>             values for TLC

**RoutePolicy** takes the policy file as constants (`Routes`, `Binding`,
`Ladders`, `TaskDefaults`, `FailureActions`); `ValidPolicy` is what
`validate_policy_routes` accepts, and is assumed. Four further assumptions
(`RoleAssumption`, `TopAssumption`, `OrderAssumption`, `StepAssumption`) and
`ClimbAssumption` about the failure table are facts of the shipped policy file
that the code does not demand; section 5 says which theorem needs which.
`SelectionOK` is
`validate_route_selection`, `RouteTransition` is `route_transition` (a set:
empty where the code raises), `ConfiguredEscalation` is the function of the same
name in AD.

**AttemptRules** has one record for each kind of event, reduced to what the
rules look at. `ValidEvent` is `validate_event`, `PairAgrees` is `_check_pair`,
`EventOK` is the body of the loop of `_check_sequence` with the events before
it. `LedgerOK` is `_parse_ledger`, with its size bound (`Fits`), followed by
`_check_sequence` (`SequenceOK`). Each event is dated: a result may not be older
than its decision. An event is
*current* (`_is_current_policy_event`) when its stamp (schema, lock version,
policy identity) is that of the installed policy.

**AttemptLedger** has two variables: the sequence `ledger` and the `installed`
policy. `_append_event` takes the exclusive lock, parses the file again, re-checks
it with the new event at the end and writes one line, so the whole operation is
the action `RecordEvent`. It looks at the size of the file it found and not at the
size it makes, hence a ledger can get one line past `MaxLedger`. `InstallPolicy`
is what an installation does to the file that `_load_policy` reads. `Submissions`
is the set of events that callers may try to append, in any order: nothing is
assumed of callers.

**TaskChains** is what the ledger promises about a task: attempts start when
none is open and none has closed the task; a result closes it or not.
`AttemptLedger!ImplementsChains` maps the ledger to it: `count`, `open` and
`closed` are computed from the events.

**RouteWalk** starts a task of any class and oracle strength on a route that a
first attempt may select and follows `route_transition` with every failure
class and every action the policy allows for it.

**Dispatcher** extends the ledger with the attestation rows and a set of
processes. A process runs the straight line of `main`. A dispatch or a
`--validate-only` starts with `StartAudit`, which has three outcomes: the decision
is on record and the call goes on; it was refused and the call returns; or it was
appended and the call returns all the same, because something after the append
failed (the second read or the review, AD 2248-2257). The one failure of that kind
that the ledger itself brings about is the decision that makes the file too large
(`ReviewIsMade`); others are I/O and may happen at any time. A call that goes on
takes one of two ways. The native way is `_attest_native`: `NativeRefused`, after
which the call ends or takes the typed launch it was given (`fallback`), or
`NativeMatch` and `ProtectedEnds`, the resumed session that nobody monitors. The
typed way is `Launch` or `LaunchFails`, then `ChildEnds` or `RunLost`. `Finish` is
the end of `_audited_dispatch`. A finalization is `StartAudit` (lock, then
decision), `LoadTerminal` or `FinalizeUnready`, `Gate`, `Finish`. A step is what
happens between two accesses to a file that other processes write.
`Finalizing(id)` is the holder of `_finalization_lock`. A terminal event is named
by the position of the row it was captured with, which stands for the nonce.
`Crash` kills a process between any two steps; the kernel drops its locks.

`Finish` dates the result with a reading of the clock (`Clock`), while the date
of the decision is its caller's (AD 2218): a decision dated ahead makes the
ledger refuse the result (MR 1112). The write may also fail. `broken` is history:
the packets with a call whose decision was appended and then not followed up, or
whose result could not be written.

A row that cannot be written means two things. In a dispatch the OSError is
caught (AD 4273-4290 and 4333-4356) and the result of a failed attempt is
recorded: `LaunchFails` and the outcomes with verdict `none` (`Unattested`). In
a finalization it is caught only outside the lock (AD 4438) and leaves what a
crash leaves: `GateLost`.

**LeafOutcome** is the end of `_run_recovery` as a set of records: the verdict of
the row, the exit code, whether a terminal event was captured, and the failure
class that is left for the result. `ChildEnds` picks one of `LeafOutcomes(Faults)`.

**LeafSupervisor** is how such an outcome comes about. The child's group has two
processes, the child (`leader`) and a helper it may start; either writes records
to the rollout, whole or in part, and lines to the output, and either may go on
when the other is gone. The supervisor's step is one access to what they share:
`TakeLine` (one line of the queue, its end, or a poll that timed out; a line that
cannot be decoded kills the reader thread), `Watch` (attach a trusted rollout,
poll it, start to kill on something new), `LeaderGone` or `GraceExpires` (the two
ends of `_terminate_child_group`: the child exited in its grace time, or SIGKILL
was sent and the wait after it may or may not have seen the exit), `LoopEnds`,
`FinalPoll`, `ReadRuntime`, `Attest`; `CallerGone` is the exception out of passing
a line on. `LeafRun` is what Dispatcher takes of all this: the child exits, then
one outcome with its real exit code is reported, or the run is given up
(`RunLost`). `LeafSupervisor!ImplementsLeafRun` says so. Between SIGKILL and its
effect the child is `killed`, which counts as still there.

**EventRecorder** opens `RecordEvent` up into what `record_event` does: the line
may be cut short, the lock is released, the ledger is read again to count the
acceptances and a third time for the review. `torn` is a file that ends within a
line. `reviewed` is the number of events that the longest whole review covers.
`GiveUp` is any failure after the append. Price changes and assessments, which
also ask for reviews, are a free choice in `Count`.

**Installer** has one variable for each thing a run replaces (`package`, `backup`,
`dispatcher`, `agents`, `legacy`) with the version it is of, and the run itself
with what `install` reads and decides before its first change (`obsolete`,
`stale`). Of older releases' trust entries the marked block goes in any case and
the table of a hook only as long as the hook is there (`RemovableTrust`). `Fail`,
`FailTwice`, `Interrupt` and `Crash` end a run at any step, with what
`_atomic_package` then does to the backup. `last`, `runs` and `broken` are history
for the properties. `Status` is `version_status.compare`.

**IssueReport** stands beside the others: what it needs of the routing ledger is
the sequence of completed attempts, which `CompleteAttempt` extends. A call of
`issue_report` is two steps: `ReadPairs` reads the routing ledger under its shared
lock; `PrepareReport` or `ReturnReport` is everything under the exclusive lock of
the issue state, decided by `ReportAnswer`. As in the ledger, appending does not
look at the size it makes (`MaxState`). `RecordSubmission` is
`record_issue_submission` where it appends; where it returns or raises, nothing
changes and `SubmissionAnswer` says which. A report is named by the position of
the event that prepared it, which stands for its random id. Timestamps are kept,
because the latest report and task are chosen by them and because the reader of
the issue state compares them; `ClockSlips` says whether the clock may be set
back. A reporter that dies between its two steps is one that takes no more steps.

Details that are easy to miss and that the models keep:

* A dispatch records its decision idempotently: when the very same decision is
  in the file, nothing is written and the call goes on, whether the attempt is
  open or closed. On that path only `_parse_ledger` runs, not `_check_sequence`
  (`Parses`).
* A main authority below the policy still gets its decision recorded, and then
  the result `policy_gate`.
* Everything in `_finish_adaptive_audit` for `path_accepted`, `path_blocked` and
  `all_lanes_exhausted` is in `Assessment`, although `AwaitingIntegration` keeps
  the process from getting there (finding 2).

### Abstractions

Sizes are counted in lines: `MaxLedger` and `MaxState` stand for the 64 MiB that
the readers accept, and every event counts as one. Of timestamps the ledger's
events keep the order of decision and result; two readings of the clock are
enough for that. Data the properties do not tell apart is left out: token and cost
numbers, evidence references, signal
lists and their matching with the failure class, `model_capabilities`, the
`prior_failure_class` of a rationale, the upper bound 10^6 on indexes. A link is
one value for all the fields that a linked pair shares; whether its main model
and effort pass `enforce_main_authority` is membership in `AuthorizedLinks`.
`justified` stands for the annotations a selection basis demands. A receipt is
the terminal event it is bound to and its outcome; whether the rest of its
evidence (digests, oracle, worktree) holds is a nondeterministic choice, and so is
whether a native session's runtime passes. Of a record in the rollout the model
keeps what the monitor makes of it (a runtime context, tokens over the budget, a
forbidden search, a collaboration call). The parsers behind that are left out.
A write either happens or does not; that it may be cut short is modelled in
EventRecorder only, so torn lines of the attestation file are not. Installed files
carry the version they come from; files changed by hand are left out. The
installer takes no lock, and two runs of it at the same time are not modelled.

## 3. Runs

Every run of the routing modules uses the shipped policy (`DefaultPolicy`).
"Racing" below means any submission at any time.

| run | question | bounds |
|---|---|---|
| `route_walk` | Do the policy's and the ledger's transition agree on every reachable route (`LedgerFollowsPolicy`)? May the successor be selected (`SuccessorIsSelectable`)? Does the dispatcher's own escalation have exactly one way on (`ConfiguredEscalationLeadsOn`)? Does every failure that may escalate lead on, with one exception (`FailureLeadsOn`)? Is the main authority reached by takeover only, and kept (`MainByTakeoverOnly`)? | none: all classes, oracles, routes, failures |
| `ledger_chain` | Is every line that an append leaves one that readers accept, and is the file at most one line too large (`ReadableOrFull`)? Is it numbered (`NumberedInOrder`), within the retry budget over its whole history (`RouteBudget`), with counters that tell the chain (`CountersTellChain`)? Can racing callers open two attempts (`OnePending`), go on after an acceptance (`AcceptedIsFinal`), swap the lock (`OneLock`)? Does it implement `TaskChains`? | one task of 3 attempts on two ladders that share routes, 8 results; racing callers with another id, lock, main session, task or date; readers take 5 lines, a file of 6 is closed |
| `ledger_upgrade` | When policies come and go, does a ledger that can be read have sound chains (`ReadableIsSound`)? | 2 policies, a legacy format, 2 locks, 3 ids, one route |
| `dispatch` | Does each attested failure and each policy gate get its result (`FailureIsRecorded`)? Does an escalation leave exactly one route (`EscalationContinues`)? Does every finalization return (`FinalizationReturns`)? | 2 processes, 4 packets (one dated ahead of the clock), 2 calls in any mode, both launch paths, a violation, missing evidence and native refusals with and without fallback, receipts of three outcomes, writes that fail, a ledger that the second attempt fills |
| `dispatch_crash` | Is an accepted result always preceded by an attested acceptance and a run that exited 0 (`AcceptedIsAttested`)? Is an accepted attempt never accepted again (`NoSecondAcceptance`)? | 2 processes that may die anywhere, 2 packets with one id, 3 calls |
| `supervisor` | Does a clean verdict mean that the child broke no rule (`CleanVerdictIsClean`)? Is what was seen reported (`SeenIsReported`)? Does a violator stop (`ViolatorIsStopped`) and the loop end (`SupervisorReturns`)? Does it implement `LeafRun`? | 2 records of 5 kinds, each whole or in part, 2 lines of 5 kinds, the child and a helper |
| `recorder` | Do the reviews exist that the policy asks for (`DueReviewsAreMade`)? Is a confirmed result in the ledger (`ConfirmedIsRecorded`)? | 2 callers, 3 tasks, 4 attempts (a failed, an escalated, a Sol route), cadence 2 |
| `issue_reports` | Is an attempt reported twice (`DisjointReports`) or skipped (`ReportedInOrder`)? Can a task have two open reports (`OneOpenReport`), a report two issues (`OneIssueEach`)? Does a reporter whose view of the routing ledger is fresh always get an answer (`FreshReporterAnswers`)? | 2 reporters, 2 tasks, 3 completed attempts, 2 URLs, reports of at most 2 attempts, 2 clock readings |
| `install` | Is a package always left (`PackageSurvives`)? What does a rerun repair (`RerunRepairs`)? When can "current" be relied on (`CurrentIsWhole`)? | 3 runs, 2 releases that rebind, drop and add a role, all four ways to break at every step |

Why the bounds are enough. Three attempts are the least with which a route is
tried, retried and refused, and with which a chain leaves a route and could come
back; two ladders with common routes let attempts change class on the way. Two
callers (ids) for one attempt are what a race needs, and a third id lets it
happen after a completed pair. Two calls cover a dispatch beside, or followed by,
another dispatch or a finalization of its terminal event, two racing
finalizations of an attempt whose decision alone is recorded, and an attempt
followed by its successor; the third call of `dispatch_crash` adds the dispatch
that two racing finalizations need to have something to accept, and the retry
after a death. Two records let a violation come before or after what makes the
rollout readable, and by either process; two lines let session ids agree,
conflict, or be followed by the end of the reader. Four attempts with a cadence
of 2 let an acceptance be overtaken between its append and its count. Three runs
of the installer are an update, a run that breaks, and the rerun. Three completed
attempts let a task be reported, completed again and reported again beside
another task; reports of at most two attempts make the limit bind. Where section
5 has a theorem, nothing rests on TLC's numbers.

`CHECK_DEADLOCK FALSE` stands where the system really stops: after `MaxCalls`
calls the dispatcher has nothing left to do, nor has a child whose supervisor
returned; when the task of `ledger_chain` is closed or at its last number no
submission is legal any more; the installer stops after `MaxRuns`, and a torn
ledger takes no event.

Symmetry is used for names that nothing tells apart: processes (`SameWorkers`,
`SameWriters`), attempt ids (`SameAttempts`), tasks, reporters and URLs
(`SameNames`), in runs without liveness properties.

Fairness. `DispatchSpec` has weak fairness on the steps a process takes by itself
(`Proceed`): a process that is not killed does not stop between its own steps.
There is none on `ChildEnds` and `ProtectedEnds`, because a child may never exit,
and none on `Call`. A process that waits for the finalization lock is served
because calls are bounded: the code's `flock` makes no promise about order, and
with unbounded calls a waiter could starve. `FinalizationReturns` therefore says
that a finalization waits for other finalizations only and never, directly or
not, for a child. `LeafSupervisor!Spec` has weak fairness on `Supervise` as a
whole: the loop goes on polling, with its 50 ms timeout, whatever the child does.
Nothing is assumed of the child: it may never exit, never write, ignore SIGTERM.
Of the kernel it is assumed that SIGKILL takes effect (`KillTakesEffect`); the
supervisor itself waits a second for it and then goes on.
That a helper holds the output open for ever is therefore the one exception of
`SupervisorReturns`: there the code waits without a timeout. The safety runs with
crashes use `CrashSpec`, without fairness.

`NoSecondAcceptance` speaks of attempts with an accepted *result*: after a death
between the attestation of an acceptance and its `post_result`, the retry attests
the acceptance again. That is all a crash can do to acceptance.

## 4. Where documents and code disagree

Each of these runs checks what a document says and is expected to fail.

1. `receipt_failure`: the policy document says that receipt-gate failures remain
   pending for a corrected submission. A finalization whose receipt is blocked
   by the gate is neither awaiting integration nor a precondition failure and
   records a terminal result; the corrected receipt then finds no open attempt.
2. `redispatch`: keeping a successful run open is said to prevent it from being
   frozen as a rejected result. Dispatching the same packet again before it is
   finalized runs the child again, and a failure of the second run is recorded
   as the result of the attempt.
3. `submission_url`: repeating a submission is said to be idempotent. A second
   report recorded with the URL of an earlier one is appended, and the reader
   refuses a URL that occurs twice: from then on every command fails. The same
   happens when the system clock was set back between a report and its
   submission, since the reader refuses a submission that is older than its
   report (the run keeps the clock going forward and shows the first case).

More passages say more than the code does. For most of them a passing property
states what does hold, with the exception spelled out.

* `references/MODEL_ROUTING_POLICY.md:59-61`, a blocked path "ends the current
  lane attempt chain": a receipt `path_blocked` that passes the gate counts as
  awaiting integration (AD 4401), so no result is recorded and the next attempt of
  the task is refused. `FailureIsRecorded` leaves room for it: an attempt with an
  attested completed child may be left without a result.
* `MODEL_ROUTING_POLICY.md:254-255`, a failed execution or policy gate "records its
  terminal `post_result` immediately": not when its decision is dated later than
  the clock reads, when the file is full, or when the review or the write fails
  after the decision was appended. The attempt stays open, and the task with it.
  These are the antecedents of `FailureIsRecorded`.
* `docs/DELEGATION-FLOW.md:117`, "advance the exact Maker ladder":
  `FailureLeadsOn` says that every failure that the policy lets escalate has a
  successor, except `acceptance_quality_failure` on a route whose next step keeps
  the model. The policy allows it `raise_model` and `main_takeover` only, both
  demand an adjacent step, and neither fits there.
* `REPORTING.md:74`, the next history is returned or none remains:
  `FreshReporterAnswers` holds for a reporter that has seen the whole routing
  ledger, when no task has more attempts than a report may hold. One that read the
  routing ledger before another reporter prepared a report of a newer attempt
  takes that report for damaged and fails.
* `MODEL_ROUTING_POLICY.md:254`, "Each attempt has a `pre_decision` record before
  routing": not when the policy is read between the installer's two renames. Without
  a policy file `_adaptive_package_binding` returns no binding (AD 2043-2044) and the
  dispatch goes on without a decision; a moment later `_role_binding` finds the new
  package and the child is launched. No property is about it.
* `MODEL_ROUTING_POLICY.md:310`, a review at every 25 accepted attempts: the count
  is taken after the lock is released, and when another acceptance was appended in
  between both callers can see a number that is no multiple (`Overtaken` in
  `DueReviewsAreMade`). A review that is cut short is counted as made.
* `INSTALL.md:144`, "Each managed file or directory is replaced atomically": not
  the package directory, which two renames replace. `PackageSurvives` says when
  nothing is left of it: an interrupt between the two, or a restore that fails,
  after both of which the backup is deleted as well (INS 457-461), or a death,
  after which the backup stays under a name that nothing looks for.
* `INSTALL.md:144-149` and 204, "Rerunning the installer is the supported repair":
  `RerunRepairs` has the two things a rerun does not know of any more: the trust
  entry of a hook that the broken run had removed already, and roles that only the
  replaced package declared.
* `TOKEN_EFFICIENCY_CONTINUITY.md:84-85`, `parent_enforced` is recorded "only when
  that monitoring proves" it: a typed run is attested with `parent_enforced` also
  when no monitor was ever attached (AD 3970-3981, `budget_monitor` may be None).
  `CleanVerdictIsClean` therefore has an exception for a rollout that became
  readable only after the last poll. It needs a process that wrote to it after the
  child's exit.

## 5. Proofs

Theorems hold for every value of the constants that satisfies the named
assumptions, for ledgers, rows, rollouts and queues of any length and any number
of processes.

**AttemptLedger_proofs.**

| theorem | says |
|---|---|
| `TypeCorrect` | `Spec => []TypeOK` |
| `AlwaysReadableOrFull` | `Spec => []ReadableOrFull`: what an append checks is what the next reader checks, except the size |
| `OnePendingAlways`, `AlwaysNumbered`, `AcceptanceIsFinal`, `LockIsKept` | `Spec => []OnePending`, `[]NumberedInOrder`, `[]AcceptedIsFinal`, `[]OneLock` |
| `UpgradeIsSound` | `UpgradeSpec => []ReadableIsSound` |
| `RouteBudgetKept` | `Spec => []RouteBudget` |
| `CountersAreTrue` | `Spec => []CountersTellChain` |
| `LedgerImplementsChains` | `Spec => ImplementsChains`: the refinement of `TaskChains` |

Assumptions: `PolicyAssumption` (a validated policy), `LedgerAssumption`
(typing of the submissions), and, for `AcceptanceIsFinal`, `UpgradeIsSound` and
`LedgerImplementsChains`, `AcceptanceAssumption`: no acceptance asks for an
escalation. The shipped policy
satisfies it; the code does not check it. It is needed because the ledger
refuses a decision after an acceptance for one reason only: `stop` and
`human_review` lead nowhere, `retain_route` is refused after an acceptance, and
an escalation would be let through. `RouteBudgetKept` also needs
`OrderAssumption`: the ladders agree on what is higher. A task may name another
class with every attempt, and so change its ladder; with two ladders that order
two routes differently it could go up from each to the other, without end.

The argument. The inductive invariant of `Spec` is `TypeOK /\ ReadableOrFull`: the
appended event is checked against the old file exactly as a reader checks it
against the same prefix, and the prefixes of the old lines do not change
(`PrefixOfAppend`, `AppendKeepsSequenceOK`). The four chain properties are not
inductive by themselves, and they need not be: they follow from readability of
one file (`TypedIsSound`). Each is proved by a least counterexample in file
order. `BeforeDecision` says that when a current decision stands in a readable
file every earlier current decision of its task has a result before it, hence
one open attempt at a time (`ReadableHasOnePending`); `LastPairExists` and
`DecisionFollows` say that it follows the pair of the newest current decision,
which carries the lock (`ReadableHasOneLock`), was not accepted
(`OnlyContinuingHasSuccessor`, `ReadableClosesOnce`) and has the number before
(`ReadableIsNumbered`). As the argument is about one file and the installed
policy, it holds across installations: this is `UpgradeIsSound`, where readability
itself is not an invariant.

`RouteBudget` counts over the whole history, while `_check_sequence` counts the
trailing attempts on one route (`TrailingOn`). The two agree because a chain never
comes back. Of the routes a chain is on from one of its attempts to a later one,
`OrderAssumption` gives one that no ladder leads on from to another of them; a
step that leaves a route is up a ladder (`RouteMoves`), so the chain cannot have
left that one (`StaysUntilLedOn`). Hence an attempt on a route that was left would
contradict its own way back (`NeverComesBack`), all attempts on a route are
neighbours, and a third is what the trailing count refuses (`NoThirdOnRoute`).

`CountersTellChain` compares the counters of an attempt with the changes between
all the attempts before it. The ledger compares them with the attempt before
only. Since the numbers of the current attempts rise without a gap (`NumbersRise`,
`EveryNumber`), there is exactly one attempt for each number (`Numbered`), the set
of changes up to an attempt is that of its predecessor with at most one more
(`OneMoreChange`), and every result repeats the counters of its decision
(`CountersStep`). A change that moves neither model nor effort would go uncounted:
that there is none on a shipped ladder (`StepAssumption`) is `MovesAreCounted`.

The refinement maps an append to `Start`, to `Report` or to a stutter of
`TaskChains` (`RecordStepsChains`). What the appended event does to the
sets that the mapping is made of is said once (`DecisionViews`, `ResultViews`); a
decision is possible only where the chain is neither open (`OnePending`) nor
closed (`ClosedHasNoNext`).

**RouteWalk_proofs.** Invariant: a task stays on the ladder of its class and oracle
strength (`OnLadder`, `AlwaysOnLadder`), since every transition leads from a step
of it to a step of it. On that ladder the properties are facts about positions.

| theorem | property | from, beside `PolicyAssumption` |
|---|---|---|
| `LedgerAgrees` | `LedgerFollowsPolicy` | `RoleAssumption`: only the takeover has the main role |
| `SuccessorAccepted` | `SuccessorIsSelectable` | |
| `EscalationWorks` | `ConfiguredEscalationLeadsOn` | `TopAssumption`: ladders end with a takeover; `ClimbAssumption`: what the failure table allows |
| `FailuresLeadOn` | `FailureLeadsOn` | the same two |
| `MainIsTakenOver` | `MainByTakeoverOnly` | |

The shipped policy satisfies the assumptions (TLC evaluates them in every routing
run), so the theorems tell which of its facts the code relies on without a check.

**Dispatcher_proofs** (from `DispatcherAssumption`: packets are decisions in the
linked format). For `CrashSpec`, whose behaviours include those of `DispatchSpec`
(`DispatchIsCrash`): `DispatchTypes` (`DispatchTypeOK`), `AcceptanceIsAttested`
(`AcceptedIsAttested`) and `AcceptanceIsUnique` (`NoSecondAcceptance`). None is
inductive. `TerminalInv` says that a row names its terminal event by the row that
captured it and agrees with that row; without it the gate could accept a run of
another packet. `ProcessInv` carries what a process has learnt across its steps:
that its decision is recorded, which terminal event it loaded, and that an
acceptance it is about to record is attested. `LedgerInv` says that a key has one
decision and that an accepted result is of an attested one; it is where a packet
that reuses the id of another is kept out. `LockInv` is the critical section: one
holder for each id, and no accepted result as long as it holds. It is kept because
the lock is taken together with the check that no result exists, and because only
a holder records an acceptance, and then returns.

`EscalationsContinue` (`CrashSpec => []EscalationContinues`) and
`FailuresAreRecorded` (`DispatchSpec => []FailureIsRecorded`) rest on `AuditInv`:
packets are of the installed policy, the ledger is readable, a result in it is one
that some process worked out for a packet with a decision on record, and a process
knows only failures that its way through `main` can have met (`StatusInv`). From
this, a process that holds a recorded decision can always append its result: the
event is well formed, follows its decision, and names an action that the failure
table allows (`AssessmentAssumption`, `ClimbAssumption`: `_finish_adaptive_audit`
writes its actions as literals, and the shipped table happens to allow them). Then
`FailureInv`: an attempt with a decision has a result, or a process that is
responsible for it, or a completed child on record; a failure on record has a
result or a process that will write it. All this unless the attempt is one of
those that `Excused` names (the files failed it, the ledger is over its bound, its
decision is dated ahead), and it stays excused, since the file only grows.
`FailuresAreRecorded` is about `DispatchSpec` alone: a process that dies leaves an
attempt open, which is what `CrashSpec` allows.

**LeafSupervisor_proofs, LeafOutcome_proofs** (from `SupervisorAssumption`).
`TypeCorrect`, `CleanIsClean` (`CleanVerdictIsClean`), `ReportedAsSeen`
(`SeenIsReported`) and `Refinement` (`Spec => ImplementsLeafRun`). The invariant
relates what the supervisor keeps to how far it has come: once it polled after
the exit, every violation of the child that a trusted rollout shows is in `sup`,
and after that only the helper writes. The refinement needs
`AllOutcomes`: whatever the verdict is decided from is one of `LeafOutcomes`.

**EventRecorder_proofs.** `ConfirmationHolds` (`ConfirmedIsRecorded`) for
`RecorderSpec`. The invariant says of every call that is under way that its event
stands at the position it was appended at, or the file is torn; as the file is
read again before a result is confirmed, the second case cannot get there.
`ReviewsAreMade` (`RecorderSpec /\ OwnPolicy => []DueReviewsAreMade`) uses it
(`ReviewInv`). `OwnPolicy` says that callers submit events of the installed
policy, as its scripts do; of others the ledger checks little, and nothing would
be known of their counters. The review reads one event and asks only for its
counters and failure; the property asks for every due event. What joins them is
that an attempt whose counters are 0 is still on the first route of its task
(`UncountedIsFirst`, from the ledger's `LeavingIsCounted` and `StepAssumption`).

**IssueReport_proofs** (from `ReportAssumption`), with or without a clock that
slips: `ReportsAreTyped` (`IssueTypeOK`), `NeverReportedTwice`
(`DisjointReports`), `OneReportAtATime` (`OneOpenReport`), `OneIssueOnly`
(`OneIssueEach`) and `NothingSkipped` (`ReportedInOrder`). The inductive
invariant is their conjunction. None but the type is inductive alone: a new
report is disjoint from the submitted ones because their attempts are not
available, and from the open ones because those are of other tasks, for which
`IssueTypeOK` says that a report holds attempts of its task only (`NewReport`).
That the reporter's view of the ledger is stale does not matter, since it is a
prefix of it. `FreshReporterIsAnswered` (`FreshReporterAnswers`) adds that times and
indexes stay in the model's bounds (`Bounded`): among finitely many open reports or
completed attempts one is the latest (`GreatestOfGreatest`), which is the choice
that `ReportAnswer` makes and for which it has an answer.

**Installer_proofs** (from `InstallerAssumption`), for any number of releases,
roles and runs: `TypeCorrect` (`InstallTypeOK`), `PackageIsKept`
(`PackageSurvives`), `CompletionRepairs` (`RerunRepairs`) and `CurrentTellsAll`
(`CurrentIsWhole`). The
properties are about the moments between runs; the invariant says what a run owes
them from each of its steps on: where package and backup are (`PackageInv`), what
it has copied (`CopiedInv`), that nothing is forgotten until the package is
replaced (`WholeInv`), that the trust table goes with its hook (`LegacyInv`).

Every safety property of a passing run is a theorem. Only model-checked: the
liveness properties `FinalizationReturns`, `ViolatorIsStopped` and
`SupervisorReturns`, because fairness and ENABLED are out of the prover's reach;
what the three runs of section 4 show; and whatever needs induction over data.
Where a definition ranges over a whole history (`RouteBudget`,
`CountersTellChain`) the proofs use a least counterexample or a set of positions
instead.

## 6. Not modelled, and the plan

What could come next, in this order:

1. Torn lines of the attestation file: `EventRecorder` has them for the routing
   ledger; a torn row stops every later finalization.
2. Issue reports across an installation that renders them differently.

Left out for good. Packet validation and the launch command are stateless
comparisons and constructions of documents: their failure is part of
`LaunchFails` and `FinalizeUnready`; so are the comparisons behind native
admission, whose verdicts and what follows from them are modelled. What a review
computes is arithmetic over one document. Health report, continuity reader,
release preflight and the dogfood verifier read and print. The manifest check of
the installer comes before its first change. Prompts, roles and documents are
text.
