--------------------------- MODULE MCAttemptLedger ---------------------------
(***************************************************************************)
(* Values of the constants of AttemptLedger for model checking.  The       *)
(* submissions of each run are the events its callers try to append, in    *)
(* any order and as often as they like; most of them the ledger refuses.   *)
(***************************************************************************)
EXTENDS AttemptLedger, DefaultPolicy, TLC

CONSTANTS TaskA, TaskB, PolicyA, PolicyB, LockA, LockB, MainSession, SmallSession,
          Attempt1, Attempt2, Attempt3, OldAttempt

MaxAttempts == 3

Decision(i, t, n, stamp, link, digest, shape, basis, effort, model) ==
  [type |-> "pre", id |-> i, task |-> t, index |-> n, stamp |-> stamp,
   link |-> link, digest |-> digest, class |-> shape[1], oracle |-> "strong",
   risk |-> "low", route |-> shape[2], basis |-> basis, justified |-> TRUE,
   prior |-> n - 1, effort |-> effort, model |-> model, time |-> 1]

Outcome(i, t, n, stamp, link, digest, route, effort, model, result) ==
  [type |-> "post", id |-> i, task |-> t, index |-> n, stamp |-> stamp,
   link |-> link, digest |-> digest, route |-> route, effort |-> effort,
   model |-> model, accepted |-> result[1] = "none", executed |-> TRUE,
   failure |-> result[1], next |-> result[2], time |-> 1]

\* A class and a route of its ladder.
Shapes(classes) ==
  UNION {{c} \X Steps(ApplicableLadder(c, "strong")) : c \in classes}

ResultsOf(classes) == UNION {{f} \X FailureActions[f] : f \in classes}

-----------------------------------------------------------------------------
(* ledger_chain: one policy and a task with three attempts, on two ladders *)
(* that share routes, so that an attempt can change the task class; and    *)
(* callers that race with them.                                            *)

ChainShapes == Shapes({LongHorizon, BoundedComplex})

ChainResults ==
  ResultsOf({"context_ceiling", "weak_oracle", "path_accepted"}) \union
  {<<"none", "retain_route">>, <<"tool_or_environment", "environment_retry">>,
   <<"other", "human_review">>}

ChainCounters ==
  {c \in (1 .. MaxAttempts) \X (0 .. 2) \X (0 .. 2) : c[2] + c[3] < c[1]}

ChainDecisions ==
  {Decision(c[1], TaskA, c[1], CurrentStamp(PolicyA), MainSession, LockA, s, b,
            c[2], c[3]) :
     c \in ChainCounters, s \in ChainShapes, b \in SelectionBases}

ChainOutcomes ==
  {Outcome(c[1], TaskA, c[1], CurrentStamp(PolicyA), MainSession, LockA, r,
           c[2], c[3], x) :
     c \in ChainCounters, r \in {s[2] : s \in ChainShapes}, x \in ChainResults}

\* Callers that race with the chain: with another id or lock for the same
\* attempts, with a main session the policy does not authorize, and with an id
\* of the chain for another task; and a result dated before its decision.
Rivals ==
  {<<4, TaskA, n, MainSession, d>> : n \in 1 .. 2, d \in Digests} \union
  {<<4, TaskA, 1, SmallSession, LockA>>, <<2, TaskB, 1, MainSession, LockB>>}

RivalSubmissions ==
  {Decision(v[1], v[2], v[3], CurrentStamp(PolicyA), v[4], v[5],
            <<LongHorizon, "luna_max">>, b, 0, 0) :
     v \in Rivals, b \in {"policy_default", "failure_action"}} \union
  {Outcome(v[1], v[2], v[3], CurrentStamp(PolicyA), v[4], v[5], "luna_max", 0, 0, x) :
     v \in Rivals, x \in {<<"tool_or_environment", "environment_retry">>,
                          <<"policy_gate", "stop">>}} \union
  {[Outcome(1, TaskA, 1, CurrentStamp(PolicyA), MainSession, LockA, "luna_max", 0, 0,
            <<"tool_or_environment", "environment_retry">>) EXCEPT !.time = 0]}

\* Selections that no ledger accepts are left out.
ChainSubmissions ==
  {d \in ChainDecisions : SelectionOK(d)} \union ChainOutcomes \union RivalSubmissions

-----------------------------------------------------------------------------
(* ledger_upgrade: two policies take turns, and callers still hold events  *)
(* of either, and of the formats that older releases wrote.                *)

UpgradeStamps == {CurrentStamp(p) : p \in Policies}

OldStamps == {[schema |-> LegacySchema, lock |-> "none", policy |-> "none"]}

\* Who wrote an attempt: its id, number, stamp and lock.
UpgradeOrigins ==
  ({Attempt1, Attempt2} \X (1 .. 2) \X UpgradeStamps \X Digests) \union
  ({OldAttempt} \X {1} \X OldStamps \X {LockA})

UpgradeRoute == "main_takeover_astra_max"

UpgradeResults == {<<"none", "retain_route">>, <<"tool_or_environment", "environment_retry">>}

UpgradeSubmissions ==
  {Decision(o[1], TaskA, o[2], o[3], MainSession, o[4], <<WeakTask, UpgradeRoute>>,
            IF o[2] = 1 THEN "policy_default" ELSE "failure_action", 0, 0) :
     o \in UpgradeOrigins} \union
  {Outcome(o[1], TaskA, o[2], o[3], MainSession, o[4], UpgradeRoute, 0, 0, x) :
     o \in UpgradeOrigins, x \in UpgradeResults}

SameAttempts == Permutations({Attempt1, Attempt2})
=============================================================================
