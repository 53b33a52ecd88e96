------------------------ MODULE AttemptLedger_proofs ------------------------
(***************************************************************************)
(* Theorems about the routing ledger, for any tasks, ids, policies, locks, *)
(* route policy and submissions.                                           *)
(***************************************************************************)
EXTENDS AttemptLedger, SequenceTheorems, FiniteSetTheorems, WellFoundedInduction, TLAPS

-----------------------------------------------------------------------------
(* Ladders and transitions of any valid policy.                            *)

\* The ladder of a task is one that the policy names.
LEMMA LadderExists ==
  ASSUME NEW class \in TaskClasses, NEW oracle
  PROVE  \E name \in DOMAIN Ladders : /\ ApplicableLadder(class, oracle) = Ladders[name]
                                      /\ LadderOK(name)
BY PolicyAssumption DEF ApplicableLadder, ValidPolicy

\* A ladder is a sequence of routes that no route occurs in twice and that
\* only its last step leaves the leaves with.
LEMMA LadderType ==
  ASSUME NEW class \in TaskClasses, NEW oracle
  PROVE  LET ladder == ApplicableLadder(class, oracle)
         IN /\ ladder \in Seq(Routes)
            /\ Len(ladder) \in Nat \ {0}
            /\ DOMAIN ladder = 1 .. Len(ladder)
            /\ \A i, j \in 1 .. Len(ladder) : ladder[i] = ladder[j] => i = j
            /\ \A i \in 1 .. Len(ladder) : ladder[i] \in Routes
            /\ \A i \in 1 .. Len(ladder) : IsMain(ladder[i]) => i = Len(ladder)
<1> DEFINE ladder == ApplicableLadder(class, oracle)
<1>1. PICK name \in DOMAIN Ladders : ladder = Ladders[name] /\ LadderOK(name)
  BY LadderExists
<1>2. ladder \in Seq(Routes) /\ ladder # << >>
  BY <1>1 DEF LadderOK
<1>3. DOMAIN ladder = 1 .. Len(ladder) /\ Len(ladder) \in Nat \ {0}
  BY <1>2
<1>4. \A i \in 1 .. Len(ladder) : ladder[i] \in Routes
  BY <1>2
<1>5. \A i, j \in 1 .. Len(ladder) : ladder[i] = ladder[j] => i = j
  BY <1>1, <1>3 DEF LadderOK
<1>6. ASSUME NEW i \in 1 .. Len(ladder), IsMain(ladder[i])
      PROVE  i = Len(ladder)
  <2>1. \A k \in 1 .. Len(ladder) - 1 : ~IsMain(ladder[k])
    BY <1>1 DEF LadderOK
  <2>2. i # Len(ladder) => i \in 1 .. Len(ladder) - 1
    <3>1. \A n \in Nat : \A k \in 1 .. n : k # n => k \in 1 .. n - 1
      OBVIOUS
    <3> HIDE DEF ladder
    <3> QED
      BY <1>3, <1>6, <3>1
  <2> QED
    BY <2>1, <2>2, <1>6
<1> QED
  BY <1>2, <1>3, <1>4, <1>5, <1>6

\* The position of a step is where the ladder has it.
LEMMA PositionIs ==
  ASSUME NEW class \in TaskClasses, NEW oracle,
         NEW r \in Steps(ApplicableLadder(class, oracle))
  PROVE  LET ladder == ApplicableLadder(class, oracle)
         IN /\ Position(ladder, r) \in 1 .. Len(ladder)
            /\ ladder[Position(ladder, r)] = r
            /\ \A i \in 1 .. Len(ladder) : ladder[i] = r <=> i = Position(ladder, r)
            /\ r \in Routes
            /\ IsMain(r) => Position(ladder, r) = Len(ladder)
<1> DEFINE ladder == ApplicableLadder(class, oracle)
<1>1. \E i \in DOMAIN ladder : ladder[i] = r
  BY DEF Steps
<1>2. Position(ladder, r) \in DOMAIN ladder /\ ladder[Position(ladder, r)] = r
  BY <1>1 DEF Position
<1>3. DOMAIN ladder = 1 .. Len(ladder)
  BY LadderType
<1>4. \A i, j \in 1 .. Len(ladder) : ladder[i] = ladder[j] => i = j
  BY LadderType
<1>5. r \in Routes
  BY <1>2, <1>3, LadderType
<1>6. IsMain(r) => Position(ladder, r) = Len(ladder)
  BY <1>2, <1>3, LadderType
<1> QED
  BY <1>2, <1>3, <1>4, <1>5, <1>6

\* A leaf and a main route never have the same model.
LEMMA LeafIsNotMain ==
  ASSUME NEW r \in Routes, NEW s \in Routes, ~IsMain(r), IsMain(s)
  PROVE  ~SameModel(r, s)
<1>1. Binding[r].model # MainAuthorityModel
  BY PolicyAssumption DEF ValidPolicy, BindingOK, IsMain
<1>2. Binding[s].model = MainAuthorityModel
  BY PolicyAssumption DEF ValidPolicy, BindingOK, IsMain, MainAuthorityRoute
<1> QED
  BY <1>1, <1>2 DEF SameModel

\* The role of the main authority is the mark of the main routes.
LEMMA MainHasItsRole ==
  ASSUME NEW r \in Routes
  PROVE  IsMain(r) <=> Binding[r].role = MainAuthorityRoute[1]
<1>1. IsMain(r) => Binding[r].role = MainAuthorityRoute[1]
  BY PolicyAssumption DEF ValidPolicy, BindingOK, IsMain, MainAuthorityRoute
<1> QED
  BY <1>1, RoleAssumption

\* One step up from a leaf: there is a next route, the dispatcher's configured
\* escalation names it, and it is the only one that the escalation leads to.
LEMMA EscalationLeadsUp ==
  ASSUME NEW class \in TaskClasses, NEW oracle,
         NEW r \in Steps(ApplicableLadder(class, oracle)), ~IsMain(r),
         NEW failure, failure # "tool_or_environment"
  PROVE  LET ladder == ApplicableLadder(class, oracle)
             at == Position(ladder, r)
             action == ConfiguredEscalation(class, oracle, r)
         IN /\ at < Len(ladder)
            /\ action \in EscalationActions
            /\ RouteTransition(class, oracle, r, action, failure) = {ladder[at + 1]}
<1> DEFINE ladder == ApplicableLadder(class, oracle)
           at == Position(ladder, r)
           following == ladder[at + 1]
           action == ConfiguredEscalation(class, oracle, r)
<1>1. Len(ladder) \in Nat \ {0} /\ at \in 1 .. Len(ladder) /\ ladder[at] = r /\ r \in Routes
  BY LadderType, PositionIs
<1>2. IsMain(ladder[Len(ladder)])
  BY LadderExists, TopAssumption
<1>3. at < Len(ladder)
  BY <1>1, <1>2
<1>4. at + 1 \in 1 .. Len(ladder) /\ following \in Routes
  BY <1>1, <1>3, LadderType
<1>5. \A i \in 1 .. Len(ladder) : IsMain(ladder[i]) => i = Len(ladder)
  BY LadderType
<1>6. following # r
  BY <1>1, <1>4, PositionIs
<1> HIDE DEF ladder, at, following
<1>7. CASE IsMain(following)
  <2>1. action = "main_takeover"
    BY <1>3, <1>7 DEF ConfiguredEscalation, ladder, at, following
  <2>2. at = Len(ladder) - 1 /\ following = ladder[Len(ladder)]
    BY <1>1, <1>4, <1>5, <1>7 DEF following
  <2>3. RouteTransition(class, oracle, r, action, failure) = {following}
    BY <2>1, <2>2, <1>4, <1>6, <1>7
       DEF RouteTransition, TakeoverOpen, StayActions, EscalationActions, ladder, at, following
  <2> QED
    BY <2>1, <2>3, <1>3 DEF EscalationActions, ladder, at, following
<1>8. CASE ~IsMain(following) /\ SameModel(r, following)
  <2>1. action = "raise_effort"
    BY <1>1, <1>3, <1>8 DEF ConfiguredEscalation, ladder, at, following
  <2>2. RouteTransition(class, oracle, r, action, failure) = {following}
    BY <2>1, <1>3, <1>4, <1>8
       DEF RouteTransition, RaisesEffort, StayActions, EscalationActions, ladder, at, following
  <2> QED
    BY <2>1, <2>2, <1>3 DEF EscalationActions, ladder, at, following
<1>9. CASE ~IsMain(following) /\ ~SameModel(r, following)
  <2>1. action = "raise_model"
    BY <1>1, <1>3, <1>9 DEF ConfiguredEscalation, ladder, at, following
  <2>2. RouteTransition(class, oracle, r, action, failure) = {following}
    BY <2>1, <1>3, <1>4, <1>9
       DEF RouteTransition, RaisesModel, StayActions, EscalationActions, ladder, at, following
  <2> QED
    BY <2>1, <2>2, <1>3 DEF EscalationActions, ladder, at, following
<1> QED
  BY <1>7, <1>8, <1>9

\* What the ledger demands of the route after a result that was not accepted
\* is what the policy leads to: _check_current_transition and route_transition
\* agree, but for the actions that keep a lane.
LEMMA SameTransitions ==
  ASSUME NEW pre, NEW post, NEW e, pre.class \in TaskClasses,
         pre.route \in Steps(ApplicableLadder(pre.class, pre.oracle)),
         e.route \in Routes, ~post.accepted
  PROVE  NextRouteOK(pre, post, e) <=>
           IF post.next \in LaneActions THEN e.route = pre.route
           ELSE e.route \in RouteTransition(pre.class, pre.oracle, pre.route,
                                            post.next, post.failure)
<1> DEFINE ladder == ApplicableLadder(pre.class, pre.oracle)
           at == Position(ladder, pre.route)
           last == ladder[Len(ladder)]
           following == ladder[at + 1]
           transition == RouteTransition(pre.class, pre.oracle, pre.route, post.next, post.failure)
<1>1. /\ at \in 1 .. Len(ladder) /\ Len(ladder) \in Nat \ {0}
      /\ ladder[at] = pre.route /\ pre.route \in Routes
  BY PositionIs, LadderType
<1>2. \A i \in 1 .. Len(ladder) : ladder[i] \in Steps(ladder) /\ Position(ladder, ladder[i]) = i
  <2>1. \A i \in 1 .. Len(ladder) : ladder[i] \in Steps(ladder)
    BY LadderType DEF Steps
  <2> QED BY <2>1, PositionIs
<1>3. \A r \in Steps(ladder) :
        Position(ladder, r) = at + 1 <=> at < Len(ladder) /\ r = following
  BY <1>1, <1>2, PositionIs
<1>4. IsMain(e.route) <=> Binding[e.route].role = MainAuthorityRoute[1]
  BY MainHasItsRole
<1>5. last = pre.route <=> at = Len(ladder)
  BY <1>1, <1>2
<1> HIDE DEF ladder, at, following, last, transition
<1>6. StepsUp(pre, e) <=> at < Len(ladder) /\ e.route = following
  <2>1. at < Len(ladder) => following \in Steps(ladder)
    BY <1>1, <1>2 DEF following
  <2>2. StepsUp(pre, e) <=> e.route \in Steps(ladder) /\ Position(ladder, e.route) = at + 1
    BY DEF StepsUp, ladder, at
  <2> QED BY <1>3, <2>1, <2>2
<1>7. TakesOver(pre, post, e) <=>
        /\ at # Len(ladder)
        /\ post.failure = "weak_oracle" \/ at = Len(ladder) - 1
        /\ e.route = last /\ IsMain(e.route)
  BY <1>4 DEF TakesOver, ladder, at, last
<1>8. NextRouteOK(pre, post, e) <=>
        /\ post.failure = "tool_or_environment" => post.next \notin EscalationActions
        /\ \/ post.next \in StayActions \union LaneActions /\ e.route = pre.route
           \/ /\ post.next = "raise_effort"
              /\ at < Len(ladder) /\ e.route = following /\ SameModel(pre.route, e.route)
           \/ /\ post.next = "raise_model"
              /\ at < Len(ladder) /\ e.route = following /\ ~SameModel(pre.route, e.route)
              /\ ~IsMain(e.route)
           \/ post.next = "main_takeover" /\ TakesOver(pre, post, e)
  BY <1>4, <1>6 DEF NextRouteOK, Retries
<1>9. e.route \in transition <=>
        \/ post.next \in StayActions /\ e.route = pre.route
        \/ /\ post.next \in EscalationActions /\ post.failure # "tool_or_environment"
           /\ \/ /\ post.next = "main_takeover"
                 /\ e.route = last /\ e.route # pre.route /\ IsMain(e.route)
                 /\ post.failure = "weak_oracle" \/ at = Len(ladder) - 1
              \/ /\ post.next = "raise_effort" /\ at < Len(ladder)
                 /\ e.route = following /\ SameModel(pre.route, e.route)
              \/ /\ post.next = "raise_model" /\ at < Len(ladder)
                 /\ e.route = following /\ ~IsMain(e.route) /\ ~SameModel(pre.route, e.route)
  BY DEF RouteTransition, TakeoverOpen, RaisesEffort, RaisesModel,
         transition, ladder, at, last, following
<1>10. CASE post.next \in StayActions \union LaneActions
  BY <1>10, <1>8, <1>9 DEF StayActions, LaneActions, EscalationActions, transition
<1>11. CASE post.next \in EscalationActions
  BY <1>11, <1>5, <1>7, <1>8, <1>9 DEF StayActions, LaneActions, EscalationActions, transition
<1>12. CASE post.next \notin StayActions \union LaneActions \union EscalationActions
  BY <1>12, <1>8, <1>9 DEF LaneActions, EscalationActions, transition
<1> QED BY <1>10, <1>11, <1>12

-----------------------------------------------------------------------------
(* Sequences and numbers.                                                  *)

\* What was in a sequence before its last element is what is still before it.
LEMMA PrefixOfAppend ==
  ASSUME NEW S, NEW L \in Seq(S), NEW e \in S, NEW k \in 1 .. Len(L) + 1
  PROVE  SubSeq(Append(L, e), 1, k - 1) = SubSeq(L, 1, k - 1)
<1>1. CASE k = 1
  BY <1>1, SubSeqEmpty
<1>2. CASE k # 1
  <2>1. 1 \in 1 .. Len(L) /\ k - 1 \in 1 .. Len(L)
    BY <1>2, LenProperties
  <2>2. <<e>> \in Seq(S)
    OBVIOUS
  <2>3. SubSeq(L \o <<e>>, 1, k - 1) = SubSeq(L, 1, k - 1)
    BY <2>1, <2>2, SubSeqOfConcat1
  <2> QED
    BY <2>3, AppendIsConcat
<1> QED
  BY <1>1, <1>2

\* A nonempty set of numbers has a least element.
LEMMA LeastExists ==
  ASSUME NEW T, T \subseteq Nat, T # {}
  PROVE  \E m \in T : \A k \in T : m <= k
<1>1. PICK m \in T : \A k \in T : ~(<<k, m>> \in OpToRel(<, Nat))
  BY NatLessThanWellFounded, WFMin
<1>2. \A k \in Nat : k < m => <<k, m>> \in OpToRel(<, Nat)
  BY DEF OpToRel
<1>3. \A k \in T : ~(k < m)
  BY <1>1, <1>2
<1>4. \A k \in T : k \in Nat /\ m \in Nat
  OBVIOUS
<1> QED
  BY <1>3, <1>4

\* A bounded nonempty set of numbers has a greatest element.
LEMMA GreatestExists ==
  ASSUME NEW n \in Nat, NEW T, T \subseteq 0 .. n, T # {}
  PROVE  \E m \in T : \A k \in T : k <= m
<1> DEFINE D == {d \in Nat : \E k \in T : d = n - k}
<1>1. \A k \in T : k \in Nat /\ n - k \in D
  OBVIOUS
<1>2. PICK d \in D : \A c \in D : d <= c
  <2>1. D \subseteq Nat /\ D # {}
    BY <1>1
  <2> HIDE DEF D
  <2> QED
    BY <2>1, LeastExists
<1>3. PICK m \in T : d = n - m
  OBVIOUS
<1>4. ASSUME NEW k \in T PROVE k <= m
  <2>1. n - m <= n - k
    BY <1>1, <1>2, <1>3
  <2> QED
    BY <1>1, <2>1
<1> QED
  BY <1>4

-----------------------------------------------------------------------------
(* One append.                                                             *)

\* An event that the rules allow after a ledger they accept gives a ledger
\* that they accept.
LEMMA AppendKeepsSequenceOK ==
  ASSUME NEW S, NEW policy, NEW L \in Seq(S), NEW e \in S,
         SequenceOK(policy, L), ValidEvent(policy, e), EventOK(policy, L, e)
  PROVE  SequenceOK(policy, Append(L, e))
<1> DEFINE N == Append(L, e)
<1>1. /\ Len(N) = Len(L) + 1 /\ DOMAIN N = 1 .. Len(L) + 1 /\ DOMAIN L = 1 .. Len(L)
      /\ Len(L) \in Nat
      /\ N[Len(L) + 1] = e
      /\ \A k \in 1 .. Len(L) : N[k] = L[k]
  BY AppendProperties, LenProperties
<1>2. SUFFICES ASSUME NEW k \in 1 .. Len(L) + 1
               PROVE  ValidEvent(policy, N[k]) /\ EventOK(policy, SubSeq(N, 1, k - 1), N[k])
  BY <1>1 DEF SequenceOK
<1>3. SubSeq(N, 1, k - 1) = SubSeq(L, 1, k - 1)
  BY PrefixOfAppend
<1>4. CASE k \in 1 .. Len(L)
  <2>1. ValidEvent(policy, L[k]) /\ EventOK(policy, SubSeq(L, 1, k - 1), L[k])
    BY <1>1, <1>4 DEF SequenceOK
  <2> QED
    BY <1>1, <1>3, <1>4, <2>1
<1>5. CASE k = Len(L) + 1
  <2>1. SubSeq(L, 1, k - 1) = L
    BY <1>1, <1>5, SubSeqFull
  <2> QED
    BY <1>1, <1>3, <1>5, <2>1
<1> QED
  BY <1>1, <1>4, <1>5

-----------------------------------------------------------------------------
(* What an accepted ledger looks like.                                     *)

\* A result has at most one earlier event of its key: its decision.
LEMMA OneEventBeforeResult ==
  ASSUME NEW policy, NEW S, NEW L \in Seq(S), SequenceOK(policy, L),
         NEW j \in DOMAIN L, L[j].type = "post",
         NEW a \in DOMAIN L, a < j, PairKey(L[a]) = PairKey(L[j])
  PROVE  /\ L[a].type = "pre" /\ PairAgrees(policy, L[a], L[j])
         /\ \A b \in DOMAIN L : b < j /\ PairKey(L[b]) = PairKey(L[j]) => b = a
<1> DEFINE P == SubSeq(L, 1, j - 1)
<1>1. /\ DOMAIN P = 1 .. j - 1
      /\ \A i \in DOMAIN L : i < j => i \in DOMAIN P /\ P[i] = L[i]
  BY SubSeqProperties, LenProperties
<1>2. KeyOK(policy, P, L[j])
  BY DEF SequenceOK, EventOK
<1>3. PICK i \in DOMAIN P : /\ SameKey(P, L[j]) = {i}
                            /\ P[i].type = "pre"
                            /\ PairAgrees(policy, P[i], L[j])
  <2>1. L[j].type # "pre"
    OBVIOUS
  <2> QED
    BY <1>2, <2>1 DEF KeyOK, SameKey
<1>4. \A b \in DOMAIN L : b < j /\ PairKey(L[b]) = PairKey(L[j]) => b = i
  BY <1>1, <1>3 DEF SameKey
<1> QED
  BY <1>1, <1>3, <1>4

\* A decision comes before the result of its key.
LEMMA DecisionBeforeResult ==
  ASSUME NEW policy, NEW S, NEW L \in Seq(S), SequenceOK(policy, L),
         NEW i \in DOMAIN L, L[i].type = "pre",
         NEW j \in DOMAIN L, L[j].type = "post", PairKey(L[i]) = PairKey(L[j])
  PROVE  i < j
<1> SUFFICES ASSUME j < i PROVE FALSE
  BY LenProperties
<1> DEFINE P == SubSeq(L, 1, i - 1)
<1>1. j \in DOMAIN P /\ P[j] = L[j]
  BY SubSeqProperties, LenProperties
<1>2. SameKey(P, L[i]) = {}
  BY DEF SequenceOK, EventOK, KeyOK
<1> QED
  BY <1>1, <1>2 DEF SameKey

\* Two current attempts of a task do not overlap: the later decision comes
\* after the result of the earlier one.
LEMMA AttemptsDoNotOverlap ==
  ASSUME NEW policy, NEW S, NEW L \in Seq(S), SequenceOK(policy, L), NEW t,
         NEW x \in Pairs(L, t), Current(policy, L[x[1]]),
         NEW k \in CurrentPres(policy, L, t), x[1] < k
  PROVE  x[2] < k
<1> DEFINE P == SubSeq(L, 1, k - 1)
<1>1. /\ x[1] \in DOMAIN L /\ x[2] \in DOMAIN L /\ k \in DOMAIN L
      /\ L[x[1]].type = "pre" /\ L[x[2]].type = "post" /\ L[x[1]].task = t
      /\ PairKey(L[x[1]]) = PairKey(L[x[2]])
      /\ L[k].type = "pre" /\ L[k].task = t /\ Current(policy, L[k])
  BY DEF Pairs, CurrentPres
<1>2. /\ DOMAIN P = 1 .. k - 1 /\ DOMAIN P \subseteq DOMAIN L
      /\ \A i \in DOMAIN L : i < k => i \in DOMAIN P /\ P[i] = L[i]
  BY <1>1, SubSeqProperties, LenProperties
<1>3. Pending(policy, P, t) = {}
  BY <1>1 DEF SequenceOK, EventOK, AttemptOpens
<1>4. x[1] \in CurrentPres(policy, P, t)
  BY <1>1, <1>2 DEF CurrentPres
<1>5. PICK j \in DOMAIN P : P[j].type = "post" /\ PairKey(P[j]) = PairKey(L[x[1]])
  BY <1>1, <1>2, <1>3, <1>4 DEF Pending, Answered
<1>6. j \in DOMAIN L /\ j < k /\ L[j].type = "post" /\ PairKey(L[j]) = PairKey(L[x[2]])
  BY <1>1, <1>2, <1>5, LenProperties
<1>7. ~(j < x[2])
  BY <1>1, <1>6, OneEventBeforeResult
<1> QED
  BY <1>1, <1>6, <1>7, LenProperties

\* A decision has one result.
LEMMA OneResult ==
  ASSUME NEW policy, NEW S, NEW L \in Seq(S), SequenceOK(policy, L), NEW t,
         NEW x \in Pairs(L, t), NEW y \in Pairs(L, t), x[1] = y[1]
  PROVE  x[2] = y[2]
<1>1. /\ x[2] \in DOMAIN L /\ y[2] \in DOMAIN L
      /\ L[x[2]].type = "post" /\ L[y[2]].type = "post"
      /\ PairKey(L[x[2]]) = PairKey(L[y[2]])
  BY DEF Pairs
<1>2. ~(x[2] < y[2])
  BY <1>1, OneEventBeforeResult
<1>3. ~(y[2] < x[2])
  BY <1>1, OneEventBeforeResult
<1> QED
  BY <1>1, <1>2, <1>3, LenProperties

\* The newest pair of a task with a pair.
LEMMA LastPairExists ==
  ASSUME NEW S, NEW L \in Seq(S), NEW t, Pairs(L, t) # {}
  PROVE  /\ LastPair(L, t) \in Pairs(L, t)
         /\ \A y \in Pairs(L, t) : y[2] <= LastPair(L, t)[2]
<1> DEFINE T == {j \in 0 .. Len(L) : \E x \in Pairs(L, t) : j = x[2]}
<1>1. Len(L) \in Nat /\ \A x \in Pairs(L, t) : x[2] \in T
  BY LenProperties DEF Pairs
<1>2. PICK m \in T : \A k \in T : k <= m
  <2>1. T # {} /\ T \subseteq 0 .. Len(L)
    BY <1>1
  <2> HIDE DEF T
  <2> QED
    BY <1>1, <2>1, GreatestExists
<1>3. \E x \in Pairs(L, t) : \A y \in Pairs(L, t) : y[2] <= x[2]
  BY <1>1, <1>2
<1> QED
  BY <1>3 DEF LastPair

\* A decision can follow only a result that lets the task continue.
LEMMA OnlyContinuingHasSuccessor ==
  ASSUME NEW policy, NEW pre, NEW post, NEW e,
         post.type = "post", Current(policy, post), ValidEvent(policy, post),
         TransitionOK(pre, post, e)
  PROVE  Continues(post)
<1>1. NextRouteOK(pre, post, e)
  BY DEF TransitionOK
<1>2. CASE Retries(post)
  BY <1>2 DEF Retries, Continues
<1>3. CASE ~Retries(post)
  <2>1. post.next \in EscalationActions
    BY <1>1, <1>3 DEF NextRouteOK, EscalationActions
  <2>2. post.accepted => post.next \in FailureActions["none"]
    BY DEF ValidEvent, PostOK
  <2>3. ~post.accepted
    BY <2>1, <2>2, AcceptanceAssumption
  <2> QED BY <2>1, <2>3 DEF Continues
<1> QED BY <1>2, <1>3

-----------------------------------------------------------------------------
(* The chains of a ledger that the installed policy accepts are sound.     *)

\* The attempts and results before a decision, seen from the whole ledger.
LEMMA BeforeDecision ==
  ASSUME NEW policy, NEW S, NEW L \in Seq(S), NEW t, NEW k \in CurrentPres(policy, L, t)
  PROVE  LET P == SubSeq(L, 1, k - 1) IN
         /\ P \in Seq(S) /\ k \in DOMAIN L
         /\ \A i : i \in DOMAIN P <=> i \in DOMAIN L /\ i < k
         /\ \A i : i \in CurrentPres(policy, P, t) <=> i \in CurrentPres(policy, L, t) /\ i < k
         /\ \A x : x \in Pairs(P, t) <=> x \in Pairs(L, t) /\ x[1] < k /\ x[2] < k
<1> DEFINE P == SubSeq(L, 1, k - 1)
<1>1. k \in DOMAIN L /\ k \in 1 .. Len(L) /\ Len(L) \in Nat
  BY LenProperties DEF CurrentPres
<1>2. P \in Seq(S) /\ DOMAIN P = 1 .. k - 1 /\ \A i \in DOMAIN P : P[i] = L[i]
  BY <1>1, SubSeqProperties, LenProperties
<1>3. \A i : i \in DOMAIN P <=> i \in DOMAIN L /\ i < k
  BY <1>1, <1>2, LenProperties
<1>4. \A i : i \in CurrentPres(policy, P, t) <=> i \in CurrentPres(policy, L, t) /\ i < k
  BY <1>2, <1>3 DEF CurrentPres
<1>5. \A x : x \in Pairs(P, t) <=> x \in Pairs(L, t) /\ x[1] < k /\ x[2] < k
  BY <1>2, <1>3 DEF Pairs
<1> QED
  BY <1>1, <1>2, <1>3, <1>4, <1>5

\* What a decision that is not the first of its task follows from.
LEMMA DecisionFollows ==
  ASSUME NEW policy, NEW S, NEW L \in Seq(S), SequenceOK(policy, L), NEW t,
         NEW k \in CurrentPres(policy, L, t),
         NEW x \in Pairs(L, t), x[1] < k, x[2] < k
  PROVE  \E y \in Pairs(L, t) :
           /\ y[1] \in CurrentPres(policy, L, t) /\ y[1] < k
           /\ x[2] <= y[2] /\ y[2] < k
           /\ Current(policy, L[y[2]])
           /\ TransitionOK(L[y[1]], L[y[2]], L[k])
<1> DEFINE P == SubSeq(L, 1, k - 1)
           y == LastPair(P, t)
<1>1. /\ P \in Seq(S) /\ k \in DOMAIN L
      /\ \A i : i \in DOMAIN P <=> i \in DOMAIN L /\ i < k
      /\ \A z : z \in Pairs(P, t) <=> z \in Pairs(L, t) /\ z[1] < k /\ z[2] < k
  BY BeforeDecision
<1>2. y \in Pairs(P, t) /\ x[2] <= y[2]
  BY <1>1, LastPairExists
<1>3. L[k].type = "pre" /\ L[k].task = t /\ Current(policy, L[k])
  BY DEF CurrentPres
<1>4. HistoryOK(policy, P, L[k])
  BY <1>1, <1>3 DEF SequenceOK, EventOK
<1>5. /\ Current(policy, P[y[1]]) /\ Current(policy, P[y[2]])
      /\ TransitionOK(P[y[1]], P[y[2]], L[k])
  BY <1>2, <1>3, <1>4 DEF HistoryOK
<1>6. /\ y \in Pairs(L, t) /\ y[1] < k /\ y[2] < k
      /\ y[1] \in DOMAIN P /\ y[2] \in DOMAIN P
      /\ L[y[1]].type = "pre" /\ L[y[1]].task = t /\ y[1] \in DOMAIN L
  BY <1>1, <1>2 DEF Pairs
<1>7. Current(policy, L[y[1]]) /\ Current(policy, L[y[2]])
      /\ TransitionOK(L[y[1]], L[y[2]], L[k])
  BY <1>1, <1>5, <1>6
<1>8. y[1] \in CurrentPres(policy, L, t)
  BY <1>6, <1>7 DEF CurrentPres
<1> QED
  BY <1>2, <1>6, <1>7, <1>8

\* An earlier current attempt has its result before the next decision.
LEMMA AnsweredBeforeNext ==
  ASSUME NEW policy, NEW S, NEW L \in Seq(S), SequenceOK(policy, L), NEW t,
         NEW i \in CurrentPres(policy, L, t), NEW k \in CurrentPres(policy, L, t), i < k
  PROVE  \E x \in Pairs(L, t) : x[1] = i /\ x[2] < k
<1> DEFINE P == SubSeq(L, 1, k - 1)
<1>1. /\ P \in Seq(S) /\ k \in DOMAIN L
      /\ \A j : j \in DOMAIN P <=> j \in DOMAIN L /\ j < k
      /\ i \in CurrentPres(policy, P, t)
  BY BeforeDecision
<1>2. Pending(policy, P, t) = {}
  BY <1>1 DEF SequenceOK, EventOK, AttemptOpens, CurrentPres
<1>3. PICK j \in DOMAIN P : P[j].type = "post" /\ PairKey(P[j]) = PairKey(P[i])
  BY <1>1, <1>2 DEF Pending, Answered
<1>4. /\ i \in DOMAIN L /\ L[i].type = "pre" /\ L[i].task = t /\ i \in DOMAIN P
      /\ j \in DOMAIN L /\ j < k /\ L[j].type = "post"
      /\ PairKey(L[i]) = PairKey(L[j])
  BY <1>1, <1>3 DEF CurrentPres
<1>5. <<i, j>> \in Pairs(L, t)
  BY <1>4 DEF Pairs
<1> QED
  BY <1>4, <1>5

\* At most one current attempt of a task has no result.
LEMMA ReadableHasOnePending ==
  ASSUME NEW policy, NEW S, NEW L \in Seq(S), SequenceOK(policy, L), NEW t,
         NEW i \in Pending(policy, L, t), NEW j \in Pending(policy, L, t)
  PROVE  i = j
<1>1. ASSUME NEW a \in Pending(policy, L, t), NEW b \in Pending(policy, L, t), a < b
      PROVE  FALSE
  <2>1. a \in CurrentPres(policy, L, t) /\ b \in CurrentPres(policy, L, t)
    BY DEF Pending
  <2>2. PICK x \in Pairs(L, t) : x[1] = a
    BY <1>1, <2>1, AnsweredBeforeNext
  <2>3. Answered(L, a)
    BY <2>2 DEF Pairs, Answered
  <2> QED
    BY <2>3 DEF Pending
<1>2. i \in Nat /\ j \in Nat
  BY LenProperties DEF Pending, CurrentPres
<1> QED
  BY <1>1, <1>2

\* No current attempt comes after a result that closed its task.
LEMMA ReadableClosesOnce ==
  ASSUME NEW policy, NEW S, NEW L \in Seq(S), SequenceOK(policy, L), NEW t,
         NEW x \in Pairs(L, t), Current(policy, L[x[1]]), ~Continues(L[x[2]]),
         NEW k0 \in CurrentPres(policy, L, t)
  PROVE  k0 < x[2]
<1> DEFINE After == {k \in CurrentPres(policy, L, t) : x[2] < k}
<1>1. /\ x[1] \in DOMAIN L /\ x[2] \in DOMAIN L
      /\ L[x[1]].type = "pre" /\ L[x[2]].type = "post" /\ L[x[1]].task = t
      /\ PairKey(L[x[1]]) = PairKey(L[x[2]])
      /\ x[1] \in CurrentPres(policy, L, t)
  BY DEF Pairs, CurrentPres
<1>2. DOMAIN L \subseteq Nat /\ CurrentPres(policy, L, t) \subseteq DOMAIN L
  BY LenProperties DEF CurrentPres
<1>3. x[1] < x[2]
  BY <1>1, DecisionBeforeResult
<1>4. SUFFICES ASSUME After # {} PROVE FALSE
  <2>1. k0 # x[2]
    BY <1>1 DEF CurrentPres
  <2> QED
    BY <1>1, <1>2, <1>4, <2>1
<1>5. PICK k \in After : \A i \in After : k <= i
  <2>1. After \subseteq Nat
    BY <1>2
  <2> QED
    BY <1>4, <2>1, LeastExists
<1>6. x[1] < k /\ x[2] < k
  BY <1>1, <1>2, <1>3, <1>5
<1>7. PICK y \in Pairs(L, t) :
        /\ y[1] \in CurrentPres(policy, L, t) /\ y[1] < k
        /\ x[2] <= y[2] /\ y[2] < k
        /\ Current(policy, L[y[2]])
        /\ TransitionOK(L[y[1]], L[y[2]], L[k])
  BY <1>6, DecisionFollows
<1>8. /\ y[1] \in DOMAIN L /\ y[2] \in DOMAIN L /\ L[y[2]].type = "post"
      /\ L[y[1]].type = "pre" /\ ValidEvent(policy, L[y[2]])
  BY DEF Pairs, SequenceOK
<1>9. Continues(L[y[2]])
  BY <1>7, <1>8, OnlyContinuingHasSuccessor
<1>10. x[2] < y[2]
  BY <1>1, <1>2, <1>7, <1>8, <1>9
<1>11. y[1] < x[2]
  <2>1. y[1] \notin After
    BY <1>2, <1>5, <1>7, <1>8
  <2>2. y[1] # x[2]
    BY <1>1, <1>8
  <2> QED
    BY <1>1, <1>2, <1>7, <1>8, <2>1, <2>2
<1>12. CASE x[1] < y[1]
  <2>1. x[2] < y[1]
    BY <1>7, <1>12, AttemptsDoNotOverlap
  <2> QED
    BY <1>1, <1>2, <1>8, <1>11, <2>1
<1>13. CASE y[1] < x[1]
  <2>1. Current(policy, L[y[1]])
    BY <1>7 DEF CurrentPres
  <2>2. y[2] < x[1]
    BY <1>1, <1>13, <2>1, AttemptsDoNotOverlap
  <2> QED
    BY <1>1, <1>2, <1>3, <1>8, <1>10, <2>2
<1>14. CASE x[1] = y[1]
  <2>1. x[2] = y[2]
    BY <1>14, OneResult
  <2> QED
    BY <1>1, <1>2, <1>10, <2>1
<1> QED
  BY <1>1, <1>2, <1>8, <1>12, <1>13, <1>14

\* No current attempt comes after an accepted result of its task.
LEMMA ReadableAcceptsOnce ==
  ASSUME NEW policy, NEW S, NEW L \in Seq(S), SequenceOK(policy, L), NEW t,
         NEW x \in Pairs(L, t), Current(policy, L[x[1]]), L[x[2]].accepted,
         NEW k0 \in CurrentPres(policy, L, t)
  PROVE  k0 < x[2]
<1>1. ~Continues(L[x[2]])
  BY DEF Continues
<1> QED BY <1>1, ReadableClosesOnce

\* All current attempts of a task have one lock digest.
LEMMA ReadableHasOneLock ==
  ASSUME NEW policy, NEW S, NEW L \in Seq(S), SequenceOK(policy, L), NEW t,
         NEW i0 \in CurrentPres(policy, L, t), NEW j0 \in CurrentPres(policy, L, t)
  PROVE  L[i0].digest = L[j0].digest
<1> DEFINE C == CurrentPres(policy, L, t)
           Swapped == {k \in C : \E i \in C : i < k /\ L[i].digest # L[k].digest}
<1>1. C \subseteq Nat
  BY LenProperties DEF CurrentPres
<1>2. SUFFICES ASSUME Swapped # {} PROVE FALSE
  <2>1. ~(i0 < j0 /\ L[i0].digest # L[j0].digest)
    BY <1>2
  <2>2. ~(j0 < i0 /\ L[i0].digest # L[j0].digest)
    BY <1>2
  <2> HIDE DEF C, Swapped
  <2> QED
    BY <1>1, <2>1, <2>2 DEF C
<1>3. PICK k \in Swapped : \A i \in Swapped : k <= i
  <2>1. Swapped \subseteq Nat
    BY <1>1
  <2> HIDE DEF Swapped
  <2> QED
    BY <1>2, <2>1, LeastExists
<1>4. PICK i \in C : i < k /\ L[i].digest # L[k].digest
  BY <1>3
<1>5. PICK x \in Pairs(L, t) : x[1] = i /\ x[2] < k
  BY <1>4, AnsweredBeforeNext
<1>6. PICK y \in Pairs(L, t) : y[1] \in C /\ y[1] < k /\ TransitionOK(L[y[1]], L[y[2]], L[k])
  BY <1>4, <1>5, DecisionFollows
<1>7. L[k].digest = L[y[1]].digest
  BY <1>6 DEF TransitionOK
<1>8. y[1] \notin Swapped /\ i \notin Swapped
  <2>1. k \in Nat /\ i \in Nat /\ y[1] \in Nat
    BY <1>1, <1>3, <1>4, <1>6
  <2>2. i < k /\ y[1] < k
    BY <1>4, <1>6
  <2>3. \A m \in Swapped : k <= m
    BY <1>3
  <2> HIDE DEF Swapped
  <2> QED BY <2>1, <2>2, <2>3
<1>9. ~(i < y[1]) /\ ~(y[1] < i)
  BY <1>4, <1>6, <1>7, <1>8
<1> QED
  BY <1>1, <1>4, <1>6, <1>7, <1>9

\* The current attempts of a task are numbered in their order in the file.
LEMMA ReadableIsNumbered ==
  ASSUME NEW policy, NEW S, NEW L \in Seq(S), SequenceOK(policy, L), NEW t,
         NEW k0 \in CurrentPres(policy, L, t)
  PROVE  L[k0].index = Cardinality({i \in CurrentPres(policy, L, t) : i <= k0})
<1> DEFINE C == CurrentPres(policy, L, t)
           Upto(k) == {i \in C : i <= k}
           Wrong == {k \in C : L[k].index # Cardinality(Upto(k))}
<1>1. Len(L) \in Nat /\ C \subseteq 1 .. Len(L)
  BY LenProperties DEF CurrentPres
<1>2. SUFFICES ASSUME Wrong # {} PROVE FALSE
  BY <1>2
<1>3. PICK k \in Wrong : \A i \in Wrong : k <= i
  <2>1. Wrong \subseteq Nat
    BY <1>1
  <2> HIDE DEF Wrong
  <2> QED
    BY <1>2, <2>1, LeastExists
<1> DEFINE P == SubSeq(L, 1, k - 1)
           Before == {i \in C : i < k}
<1>4. /\ k \in C /\ k \in DOMAIN L /\ L[k].type = "pre" /\ L[k].task = t
      /\ L[k].index # Cardinality(Upto(k))
  BY <1>3 DEF CurrentPres
<1>5. /\ \A i : i \in CurrentPres(policy, P, t) <=> i \in C /\ i < k
      /\ \A x : x \in Pairs(P, t) <=> x \in Pairs(L, t) /\ x[1] < k /\ x[2] < k
  BY <1>4, BeforeDecision
<1>6. AttemptOpens(policy, P, L[k])
  BY <1>4 DEF SequenceOK, EventOK, CurrentPres
<1>7. CASE Before = {}
  <2>1. Pairs(P, t) = {}
    <3> SUFFICES ASSUME NEW x \in Pairs(P, t) PROVE FALSE
      OBVIOUS
    <3>1. x \in Pairs(L, t) /\ x[1] < k /\ x[2] < k
      BY <1>5
    <3>2. PICK y \in Pairs(L, t) : y[1] \in CurrentPres(policy, L, t) /\ y[1] < k
      BY <1>4, <3>1, DecisionFollows
    <3> QED
      BY <1>7, <3>2
  <2>2. L[k].index = 1
    BY <1>4, <1>6, <2>1 DEF AttemptOpens
  <2>3. Upto(k) = {k}
    <3>1. \A i \in C : i <= k => i = k
      BY <1>1, <1>4, <1>7
    <3>2. k \in C /\ k <= k
      BY <1>1, <1>4
    <3> HIDE DEF C
    <3> QED
      BY <3>1, <3>2
  <2> QED
    BY <1>4, <2>2, <2>3, FS_Singleton
<1>8. CASE Before # {}
  <2>1. PICK i \in Before : \A j \in Before : j <= i
    <3>1. Before \subseteq 0 .. Len(L)
      BY <1>1
    <3> HIDE DEF Before
    <3> QED
      BY <1>1, <1>8, <3>1, GreatestExists
  <2>2. i \in C /\ i < k /\ i \notin Wrong
    <3>1. i \in C /\ i < k
      OBVIOUS
    <3>2. i \in Nat /\ k \in Nat
      BY <1>1, <1>4, <3>1
    <3> HIDE DEF Wrong
    <3> QED
      BY <1>3, <3>1, <3>2
  <2>3. L[k].index = L[i].index + 1
    <3>1. i \in CurrentPres(policy, P, t) /\ \A j \in CurrentPres(policy, P, t) : j <= i
      BY <1>5, <2>1, <2>2
    <3>2. L[k].index = P[i].index + 1
      BY <1>4, <1>6, <3>1 DEF AttemptOpens
    <3>3. P[i] = L[i]
      <4>1. k \in 1 .. Len(L) /\ i \in 1 .. k - 1
        BY <1>1, <1>4, <2>2
      <4> QED
        BY <4>1, SubSeqProperties
    <3> QED
      BY <3>2, <3>3
  <2>4. Upto(k) = Upto(i) \union {k} /\ k \notin Upto(i)
    BY <1>1, <1>4, <2>1, <2>2
  <2>5. IsFiniteSet(Upto(i))
    <3>1. 1 \in Int /\ Len(L) \in Int
      BY <1>1
    <3>2. IsFiniteSet(1 .. Len(L))
      BY <3>1, FS_Interval
    <3>3. Upto(i) \subseteq 1 .. Len(L)
      BY <1>1
    <3> QED
      BY <3>2, <3>3, FS_Subset
  <2>6. Cardinality(Upto(k)) = Cardinality(Upto(i)) + 1
    <3> HIDE DEF Upto
    <3> QED
      BY <2>4, <2>5, FS_AddElement
  <2>7. L[i].index = Cardinality(Upto(i))
    BY <2>2
  <2> QED
    BY <1>4, <2>3, <2>6, <2>7
<1> QED
  BY <1>7, <1>8

-----------------------------------------------------------------------------
(* The attempt before an attempt.                                          *)

\* The pair y ends the attempt right before decision k, which follows from it.
Precedes(policy, L, t, y, k) ==
  /\ y \in Pairs(L, t) /\ y[1] \in CurrentPres(policy, L, t) /\ y[1] < k /\ y[2] < k
  /\ Current(policy, L[y[2]])
  /\ \A x \in Pairs(L, t) : x[1] < k /\ x[2] < k => x[2] <= y[2]
  /\ \A i \in CurrentPres(policy, L, t) : i < k => i <= y[1]

\* A current attempt that is not the first of its task follows from the one
\* right before it, whose result is the newest of the task by then.
LEMMA HasPredecessor ==
  ASSUME NEW policy, NEW S, NEW L \in Seq(S), SequenceOK(policy, L), NEW t,
         NEW k \in CurrentPres(policy, L, t),
         \E i \in CurrentPres(policy, L, t) : i < k
  PROVE  \E y : /\ Precedes(policy, L, t, y, k)
                /\ TransitionOK(L[y[1]], L[y[2]], L[k])
                /\ y = LastPair(SubSeq(L, 1, k - 1), t)
                /\ RetryBudgetOK(policy, SubSeq(L, 1, k - 1), L[k])
<1> DEFINE C == CurrentPres(policy, L, t)
           P == SubSeq(L, 1, k - 1)
           y == LastPair(P, t)
<1>1. /\ P \in Seq(S) /\ k \in DOMAIN L
      /\ \A i : i \in DOMAIN P <=> i \in DOMAIN L /\ i < k
      /\ \A z : z \in Pairs(P, t) <=> z \in Pairs(L, t) /\ z[1] < k /\ z[2] < k
  BY BeforeDecision
<1>2. /\ C \subseteq DOMAIN L /\ DOMAIN L \subseteq Nat
      /\ \A z \in Pairs(L, t) : z[1] \in DOMAIN L /\ z[2] \in DOMAIN L
  BY LenProperties DEF CurrentPres, Pairs
<1>3. ASSUME NEW i \in C, i < k PROVE \E x \in Pairs(P, t) : x[1] = i
  <2>1. PICK x \in Pairs(L, t) : x[1] = i /\ x[2] < k
    BY <1>3, AnsweredBeforeNext
  <2> QED BY <1>1, <1>3, <2>1
<1>4. Pairs(P, t) # {}
  BY <1>3
<1>5. y \in Pairs(P, t) /\ \A x \in Pairs(P, t) : x[2] <= y[2]
  BY <1>1, <1>4, LastPairExists
<1>6. L[k].type = "pre" /\ L[k].task = t /\ Current(policy, L[k])
  BY DEF CurrentPres
<1>7. HistoryOK(policy, P, L[k])
  BY <1>1, <1>6 DEF SequenceOK, EventOK
<1>8. /\ Current(policy, P[y[1]]) /\ Current(policy, P[y[2]])
      /\ TransitionOK(P[y[1]], P[y[2]], L[k]) /\ RetryBudgetOK(policy, P, L[k])
  BY <1>4, <1>6, <1>7 DEF HistoryOK
<1>9. /\ y \in Pairs(L, t) /\ y[1] < k /\ y[2] < k
      /\ y[1] \in DOMAIN P /\ y[2] \in DOMAIN P
      /\ L[y[1]].type = "pre" /\ L[y[1]].task = t /\ y[1] \in DOMAIN L
  BY <1>1, <1>5 DEF Pairs
<1>10. \A i \in DOMAIN P : P[i] = L[i]
  <2>1. k \in 1 .. Len(L)
    BY <1>1, LenProperties
  <2> QED BY <2>1, SubSeqProperties, LenProperties
<1>11. /\ Current(policy, L[y[1]]) /\ Current(policy, L[y[2]])
       /\ TransitionOK(L[y[1]], L[y[2]], L[k])
  BY <1>8, <1>9, <1>10
<1>12. y[1] \in C
  BY <1>9, <1>11 DEF CurrentPres
<1> HIDE DEF y
<1>13. ASSUME NEW i \in C, i < k, y[1] < i PROVE FALSE
  <2>1. PICK x \in Pairs(P, t) : x[1] = i
    BY <1>3, <1>13
  <2>2. /\ x[2] <= y[2] /\ x \in Pairs(L, t)
    BY <1>1, <1>5, <2>1
  <2>3. y[2] < i
    BY <1>9, <1>11, <1>13, AttemptsDoNotOverlap
  <2>4. i < x[2]
    <3>1. /\ L[x[1]].type = "pre" /\ L[x[2]].type = "post"
          /\ PairKey(L[x[1]]) = PairKey(L[x[2]])
      BY <2>2 DEF Pairs
    <3> QED BY <1>2, <2>1, <2>2, <3>1, DecisionBeforeResult
  <2>5. i \in Nat /\ x[2] \in Nat /\ y[2] \in Nat
    BY <1>2, <1>9, <2>2
  <2> QED BY <2>2, <2>3, <2>4, <2>5
<1>14. \A i \in C : i < k => i <= y[1]
  BY <1>2, <1>9, <1>13
<1>15. Precedes(policy, L, t, y, k)
  BY <1>1, <1>5, <1>9, <1>11, <1>12, <1>14 DEF Precedes
<1> QED BY <1>8, <1>11, <1>15 DEF y

-----------------------------------------------------------------------------
(* The routes of a chain.                                                  *)

\* Some ladder leads from r on to s.
LeadsOn(r, s) ==
  \E name \in DOMAIN Ladders : \E i, j \in DOMAIN Ladders[name] :
    i < j /\ Ladders[name][i] = r /\ Ladders[name][j] = s

\* Of any routes there is one from which no ladder leads on to another.
LEMMA TopExists ==
  ASSUME NEW D, D \subseteq Routes, D # {}
  PROVE  \E r \in D : \A s \in D : ~LeadsOn(r, s)
BY OrderAssumption DEF LeadsOn

\* The next attempt stays on its route or moves up the ladder it is on.
LEMMA RouteMoves ==
  ASSUME NEW pre, NEW post, NEW e, pre.class \in TaskClasses,
         pre.route \in Steps(ApplicableLadder(pre.class, pre.oracle)),
         NextRouteOK(pre, post, e)
  PROVE  e.route = pre.route \/ LeadsOn(pre.route, e.route)
<1> DEFINE ladder == ApplicableLadder(pre.class, pre.oracle)
           at == Position(ladder, pre.route)
<1>1. /\ at \in 1 .. Len(ladder) /\ Len(ladder) \in Nat \ {0}
      /\ ladder[at] = pre.route /\ DOMAIN ladder = 1 .. Len(ladder)
  BY PositionIs, LadderType
<1>2. PICK name \in DOMAIN Ladders : ladder = Ladders[name]
  BY LadderExists
<1>3. ASSUME NEW j \in 1 .. Len(ladder), at < j, ladder[j] = e.route
      PROVE  LeadsOn(pre.route, e.route)
  BY <1>1, <1>2, <1>3 DEF LeadsOn
<1>4. CASE Retries(post) /\ e.route = pre.route
  BY <1>4
<1>5. CASE StepsUp(pre, e)
  <2>1. e.route \in Steps(ladder) /\ Position(ladder, e.route) = at + 1
    BY <1>5 DEF StepsUp
  <2>2. at + 1 \in 1 .. Len(ladder) /\ ladder[at + 1] = e.route
    BY <2>1, PositionIs
  <2> HIDE DEF ladder, at
  <2> QED BY <1>1, <1>3, <2>2
<1>6. CASE TakesOver(pre, post, e)
  <2>1. at # Len(ladder) /\ ladder[Len(ladder)] = e.route
    BY <1>6 DEF TakesOver
  <2> HIDE DEF ladder, at
  <2>2. Len(ladder) \in 1 .. Len(ladder) /\ at < Len(ladder)
    <3>1. \A n \in Nat \ {0} : n \in 1 .. n /\ \A i \in 1 .. n : i # n => i < n
      OBVIOUS
    <3> QED BY <1>1, <2>1, <3>1
  <2> QED BY <1>3, <2>1, <2>2
<1> QED BY <1>4, <1>5, <1>6 DEF NextRouteOK

\* An attempt has the route of the one right before it, or a higher one.
LEMMA AttemptMoves ==
  ASSUME NEW policy, NEW L \in Seq(Submissions), SequenceOK(policy, L), NEW t,
         NEW k \in CurrentPres(policy, L, t), NEW y,
         Precedes(policy, L, t, y, k), TransitionOK(L[y[1]], L[y[2]], L[k])
  PROVE  L[k].route = L[y[1]].route \/ LeadsOn(L[y[1]].route, L[k].route)
<1>1. /\ y[1] \in DOMAIN L /\ L[y[1]].type = "pre" /\ Current(policy, L[y[1]])
  BY DEF Precedes, CurrentPres
<1>2. L[y[1]] \in Submissions
  BY <1>1, ElementOfSeq, LenProperties
<1>3. L[y[1]].class \in TaskClasses
  BY <1>1, <1>2, LedgerAssumption DEF IsEvent, IsPre, IsPost
<1>4. SelectionOK(L[y[1]])
  BY <1>1 DEF SequenceOK, ValidEvent
<1>5. NextRouteOK(L[y[1]], L[y[2]], L[k])
  BY DEF TransitionOK
<1> QED BY <1>3, <1>4, <1>5, RouteMoves DEF SelectionOK

\* A chain stays on a route until some ladder leads it on from there.
LEMMA StaysUntilLedOn ==
  ASSUME NEW policy, NEW L \in Seq(Submissions), SequenceOK(policy, L), NEW t,
         NEW i \in CurrentPres(policy, L, t), NEW k \in CurrentPres(policy, L, t),
         \A m \in CurrentPres(policy, L, t) :
           i <= m /\ m <= k => ~LeadsOn(L[i].route, L[m].route),
         NEW j \in CurrentPres(policy, L, t), i <= j, j <= k
  PROVE  L[j].route = L[i].route
<1> DEFINE C == CurrentPres(policy, L, t)
           Moved == {m \in C : i <= m /\ m <= k /\ L[m].route # L[i].route}
<1>1. C \subseteq Nat
  BY LenProperties DEF CurrentPres
<1>2. SUFFICES ASSUME Moved # {} PROVE FALSE
  BY <1>2
<1>3. PICK m \in Moved : \A n \in Moved : m <= n
  <2>1. Moved \subseteq Nat
    BY <1>1
  <2> HIDE DEF Moved
  <2> QED BY <1>2, <2>1, LeastExists
<1>4. m \in C /\ i <= m /\ m <= k /\ L[m].route # L[i].route
  BY <1>3
<1>5. i < m
  BY <1>1, <1>4
<1>6. PICK y : Precedes(policy, L, t, y, m) /\ TransitionOK(L[y[1]], L[y[2]], L[m])
  BY <1>4, <1>5, HasPredecessor
<1>7. y[1] \in C /\ y[1] < m /\ i <= y[1]
  BY <1>5, <1>6 DEF Precedes
<1>8. L[y[1]].route = L[i].route
  <2>1. y[1] \notin Moved
    <3>1. m \in Nat /\ y[1] \in Nat
      BY <1>1, <1>4, <1>7
    <3> HIDE DEF Moved
    <3> QED BY <1>3, <1>7, <3>1
  <2>2. y[1] <= k
    BY <1>1, <1>4, <1>7
  <2> QED BY <1>7, <2>1, <2>2
<1>9. L[m].route = L[y[1]].route \/ LeadsOn(L[y[1]].route, L[m].route)
  BY <1>4, <1>6, AttemptMoves
<1> QED BY <1>4, <1>8, <1>9

\* A chain never comes back to a route that it left.
LEMMA NeverComesBack ==
  ASSUME NEW policy, NEW L \in Seq(Submissions), SequenceOK(policy, L), NEW t,
         NEW i \in CurrentPres(policy, L, t), NEW k \in CurrentPres(policy, L, t),
         L[i].route = L[k].route,
         NEW j \in CurrentPres(policy, L, t), i <= j, j <= k
  PROVE  L[j].route = L[i].route
<1> DEFINE C == CurrentPres(policy, L, t)
           Span == {m \in C : i <= m /\ m <= k}
           D == {L[m].route : m \in Span}
<1>1. C \subseteq Nat /\ i \in Span /\ k \in Span
  BY LenProperties DEF CurrentPres
<1>2. D \subseteq Routes
  <2> SUFFICES ASSUME NEW m \in C PROVE L[m].route \in Routes
    OBVIOUS
  <2>1. L[m] \in Submissions
    BY ElementOfSeq, LenProperties DEF CurrentPres
  <2> QED BY <2>1, LedgerAssumption DEF IsEvent
<1>3. PICK r \in D : \A s \in D : ~LeadsOn(r, s)
  <2>1. D # {}
    BY <1>1
  <2> HIDE DEF D
  <2> QED BY <1>2, <2>1, TopExists
<1>4. PICK m \in Span : L[m].route = r
  OBVIOUS
<1>5. ASSUME NEW n \in Span, L[n].route = r PROVE L[k].route = r /\ (n <= j => L[j].route = r)
  <2>1. \A o \in C : n <= o /\ o <= k => ~LeadsOn(L[n].route, L[o].route)
    BY <1>1, <1>3, <1>5
  <2>2. n \in C /\ n <= k /\ k <= k
    BY <1>1
  <2>3. L[k].route = L[n].route
    BY <2>1, <2>2, StaysUntilLedOn
  <2>4. n <= j => L[j].route = L[n].route
    BY <2>1, <2>2, StaysUntilLedOn
  <2> QED BY <1>5, <2>3, <2>4
<1>6. L[i].route = r
  BY <1>4, <1>5
<1> QED BY <1>1, <1>5, <1>6

\* Three attempts on one route would overdraw the budget at the third: the
\* two before it are the end of the task's history.
LEMMA NoThirdOnRoute ==
  ASSUME NEW policy, NEW L \in Seq(Submissions), SequenceOK(policy, L), NEW t,
         NEW a \in CurrentPres(policy, L, t), NEW b \in CurrentPres(policy, L, t),
         NEW c \in CurrentPres(policy, L, t), a < b, b < c,
         L[a].route = L[b].route, L[b].route = L[c].route
  PROVE  FALSE
<1> DEFINE C == CurrentPres(policy, L, t)
           P == SubSeq(L, 1, c - 1)
           r == L[c].route
           Trail == TrailingOn(policy, P, t, r)
<1>1. C \subseteq Nat /\ C \subseteq DOMAIN L
  BY LenProperties DEF CurrentPres
<1>2. a < c /\ a \in Nat /\ b \in Nat /\ c \in Nat
  BY <1>1
<1>3. PICK p : /\ Precedes(policy, L, t, p, c)
               /\ p = LastPair(P, t) /\ RetryBudgetOK(policy, P, L[c])
  BY <1>2, HasPredecessor
<1>4. /\ p \in Pairs(L, t) /\ p[1] \in C /\ p[1] < c /\ p[2] < c /\ b <= p[1]
      /\ Current(policy, L[p[2]])
      /\ \A x \in Pairs(L, t) : x[1] < c /\ x[2] < c => x[2] <= p[2]
  BY <1>3 DEF Precedes
<1>5. a < p[1] /\ p[1] \in Nat
  BY <1>1, <1>2, <1>4
<1>6. PICK q : Precedes(policy, L, t, q, p[1])
  BY <1>4, <1>5, HasPredecessor
<1>7. /\ q \in Pairs(L, t) /\ q[1] \in C /\ q[1] < p[1] /\ q[2] < p[1] /\ a <= q[1]
      /\ Current(policy, L[q[2]])
  BY <1>5, <1>6 DEF Precedes
<1>8. ASSUME NEW m \in C, a <= m, m <= c PROVE L[m].route = r
  BY <1>8, NeverComesBack
<1>9. /\ P \in Seq(Submissions)
      /\ \A i : i \in DOMAIN P <=> i \in DOMAIN L /\ i < c
      /\ \A x : x \in Pairs(P, t) <=> x \in Pairs(L, t) /\ x[1] < c /\ x[2] < c
  BY BeforeDecision
<1>10. \A i \in DOMAIN P : P[i] = L[i]
  <2>1. c \in 1 .. Len(L)
    BY <1>1, LenProperties
  <2> QED BY <2>1, SubSeqProperties, LenProperties
<1>11. /\ \A x \in Pairs(L, t) : /\ x[1] \in DOMAIN L /\ x[2] \in DOMAIN L
                                 /\ x[1] \in Nat /\ x[2] \in Nat
                                 /\ Current(policy, L[x[1]]) => x[1] \in C
       /\ \A x \in Pairs(P, t) : P[x[1]] = L[x[1]] /\ P[x[2]] = L[x[2]]
  BY <1>10, LenProperties DEF Pairs, CurrentPres
<1> DEFINE pairs == {x \in Pairs(P, t) : Current(policy, P[x[1]]) /\ Current(policy, P[x[2]])}
<1>12. p \in pairs /\ q \in pairs
  <2>1. Current(policy, L[p[1]]) /\ Current(policy, L[q[1]])
    BY <1>4, <1>7 DEF CurrentPres
  <2>2. q[1] < c /\ q[2] < c
    BY <1>2, <1>4, <1>5, <1>7, <1>11
  <2> QED BY <1>4, <1>7, <1>9, <1>11, <2>1, <2>2
<1>13. q[1] < q[2] /\ q[2] <= p[2]
  <2>1. L[q[1]].type = "pre" /\ L[q[2]].type = "post" /\ PairKey(L[q[1]]) = PairKey(L[q[2]])
    BY <1>7 DEF Pairs
  <2> QED BY <1>4, <1>7, <1>9, <1>11, <1>12, <2>1, DecisionBeforeResult
<1>14. ASSUME NEW y \in pairs, q[2] <= y[2] PROVE P[y[1]].route = r
  <2>1. /\ y \in Pairs(L, t) /\ y[1] \in C /\ y[1] < c /\ Current(policy, L[y[1]])
        /\ y[1] \in Nat /\ y[2] \in Nat /\ q[1] \in Nat /\ q[2] \in Nat
        /\ P[y[1]] = L[y[1]]
    BY <1>7, <1>9, <1>11
  <2>2. ~(y[1] < q[1])
    <3> SUFFICES ASSUME y[1] < q[1] PROVE FALSE
      OBVIOUS
    <3>1. y[2] < q[1]
      BY <1>7, <2>1, AttemptsDoNotOverlap
    <3> QED BY <1>13, <1>14, <2>1, <3>1
  <2>3. a <= y[1] /\ y[1] <= c
    BY <1>2, <1>7, <2>1, <2>2
  <2> QED BY <1>8, <2>1, <2>3
<1>15. p \in Trail /\ q \in Trail /\ p # q
  <2>1. \A y \in pairs : p[2] <= y[2] => q[2] <= y[2]
    BY <1>4, <1>7, <1>9, <1>11, <1>13
  <2>2. p # q
    BY <1>5, <1>7, <1>11
  <2> QED BY <1>12, <1>14, <2>1, <2>2 DEF TrailingOn
<1>16. IsFiniteSet(Trail)
  <2>1. IsFiniteSet(DOMAIN P)
    <3>1. DOMAIN P = 1 .. Len(P) /\ Len(P) \in Int /\ 1 \in Int
      BY <1>9, LenProperties
    <3> QED BY <3>1, FS_Interval
  <2>2. IsFiniteSet((DOMAIN P) \X (DOMAIN P))
    BY <2>1, FS_Product
  <2>3. Trail \subseteq (DOMAIN P) \X (DOMAIN P)
    BY DEF TrailingOn, Pairs
  <2> QED BY <2>2, <2>3, FS_Subset
<1> DEFINE older == {q}
           both == older \union {p}
<1>17. Cardinality(both) = 2
  <2>1. IsFiniteSet(older) /\ Cardinality(older) = 1
    BY FS_Singleton
  <2>2. p \notin older
    BY <1>15
  <2> HIDE DEF older
  <2>3. Cardinality(both) = Cardinality(older) + 1
    BY <2>1, <2>2, FS_AddElement
  <2> HIDE DEF both
  <2> QED BY <2>1, <2>3
<1>18. Cardinality(both) <= Cardinality(Trail)
  <2>1. both \subseteq Trail
    BY <1>15
  <2> HIDE DEF Trail
  <2> QED BY <1>16, <2>1, FS_Subset
<1>19. Cardinality(Trail) <= 1
  <2>1. L[c].task = t
    BY DEF CurrentPres
  <2>2. P[LastPair(P, t)[1]].route = r
    BY <1>1, <1>2, <1>3, <1>4, <1>5, <1>8, <1>11, <1>12
  <2> QED BY <1>3, <2>1, <2>2 DEF RetryBudgetOK, MaxSameRouteRetries
<1>20. Cardinality(Trail) \in Nat
  BY <1>16, FS_CardinalityType
<1> HIDE DEF Trail, both
<1> QED BY <1>17, <1>18, <1>19, <1>20

\* The current attempts of a task on a route.
AttemptsOn(policy, L, t, r) == {k \in CurrentPres(policy, L, t) : L[k].route = r}

\* A task has at most two attempts on a route.
LEMMA ReadableKeepsBudget ==
  ASSUME NEW policy, NEW L \in Seq(Submissions), SequenceOK(policy, L), NEW t, NEW r
  PROVE  Cardinality(AttemptsOn(policy, L, t, r)) <= MaxSameRouteRetries + 1
<1> DEFINE K == AttemptsOn(policy, L, t, r)
<1>1. K \subseteq 1 .. Len(L) /\ Len(L) \in Nat
  BY LenProperties DEF AttemptsOn, CurrentPres
<1>2. K \subseteq 0 .. Len(L) /\ K \subseteq Nat
  BY <1>1
<1>3. CASE K = {}
  <2>1. Cardinality(K) = 0
    BY <1>3, FS_EmptySet
  <2> HIDE DEF K
  <2>2. Cardinality(K) <= MaxSameRouteRetries + 1
    BY <2>1 DEF MaxSameRouteRetries
  <2> QED BY <2>2 DEF K
<1>4. CASE K # {}
  <2> HIDE DEF K
  <2>1. PICK a \in K : \A k \in K : a <= k
    BY <1>2, <1>4, LeastExists
  <2>2. PICK c \in K : \A k \in K : k <= c
    BY <1>1, <1>2, <1>4, GreatestExists
  <2>3. ASSUME NEW b \in K, b # a, b # c PROVE FALSE
    <3>1. a < b /\ b < c
      BY <1>2, <2>1, <2>2, <2>3
    <3>2. /\ a \in CurrentPres(policy, L, t) /\ L[a].route = r
          /\ b \in CurrentPres(policy, L, t) /\ L[b].route = r
          /\ c \in CurrentPres(policy, L, t) /\ L[c].route = r
      BY DEF K, AttemptsOn
    <3> QED BY <3>1, <3>2, NoThirdOnRoute
  <2>4. K = {a} \/ (K = {a} \union {c} /\ c \notin {a})
    BY <2>3
  <2>5. Cardinality(K) = 1 \/ Cardinality(K) = 1 + 1
    <3>1. IsFiniteSet({a}) /\ Cardinality({a}) = 1
      BY FS_Singleton
    <3>2. c \notin {a} => Cardinality({a} \union {c}) = Cardinality({a}) + 1
      BY <3>1, FS_AddElement
    <3> QED BY <2>4, <3>1, <3>2
  <2>6. Cardinality(K) <= MaxSameRouteRetries + 1
    BY <2>5 DEF MaxSameRouteRetries
  <2> QED BY <2>6 DEF K
<1> QED BY <1>3, <1>4

-----------------------------------------------------------------------------
(* The counters of a chain.                                                *)

\* The attempts of a task up to attempt k, and the one of them with number n.
UpTo(policy, L, t, k) == {i \in CurrentPres(policy, L, t) : i <= k}

Numbered(policy, L, t, k, n) == CHOOSE i \in UpTo(policy, L, t, k) : L[i].index = n

\* The numbers of the attempts up to k whose next one changes the route as a
\* pair in Changed does.
ChangesUpTo(policy, L, t, k, Changed) ==
  {n \in 1 .. Cardinality(UpTo(policy, L, t, k)) - 1 :
     <<L[Numbered(policy, L, t, k, n)].route, L[Numbered(policy, L, t, k, n + 1)].route>> \in Changed}

\* What a submitted decision is made of.
LEMMA DecisionType ==
  ASSUME NEW policy, NEW L \in Seq(Submissions), NEW t, NEW k \in CurrentPres(policy, L, t)
  PROVE  /\ k \in Nat /\ k \in DOMAIN L /\ L[k] \in Submissions
         /\ L[k].index \in Nat \ {0} /\ L[k].route \in Routes
         /\ L[k].effort \in Nat /\ L[k].model \in Nat
<1>1. k \in Nat /\ k \in DOMAIN L /\ L[k] \in Submissions
  BY ElementOfSeq, LenProperties DEF CurrentPres
<1> QED BY <1>1, LedgerAssumption DEF IsEvent

\* The first attempt of a task has number 1.
LEMMA FirstNumber ==
  ASSUME NEW policy, NEW L \in Seq(Submissions), SequenceOK(policy, L), NEW t,
         NEW k \in CurrentPres(policy, L, t),
         ~\E i \in CurrentPres(policy, L, t) : i < k
  PROVE  L[k].index = 1
<1>1. L[k].index = Cardinality({i \in CurrentPres(policy, L, t) : i <= k})
  BY ReadableIsNumbered
<1>2. CurrentPres(policy, L, t) \subseteq Nat
  BY DecisionType
<1>3. {i \in CurrentPres(policy, L, t) : i <= k} = {k}
  BY <1>2
<1> QED BY <1>1, <1>3, FS_Singleton

\* Later attempts have greater numbers.
LEMMA NumbersRise ==
  ASSUME NEW policy, NEW L \in Seq(Submissions), SequenceOK(policy, L), NEW t,
         NEW i0 \in CurrentPres(policy, L, t), NEW k0 \in CurrentPres(policy, L, t), i0 < k0
  PROVE  L[i0].index < L[k0].index
<1> DEFINE C == CurrentPres(policy, L, t)
           Bad == {k \in C : \E i \in C : i < k /\ ~(L[i].index < L[k].index)}
<1>1. C \subseteq Nat /\ \A k \in C : L[k].index \in Nat
  BY DecisionType
<1>2. SUFFICES ASSUME Bad # {} PROVE FALSE
  BY <1>2
<1>3. PICK k \in Bad : \A n \in Bad : k <= n
  <2>1. Bad \subseteq Nat
    BY <1>1
  <2> HIDE DEF Bad
  <2> QED BY <1>2, <2>1, LeastExists
<1>4. PICK i \in C : k \in C /\ i < k /\ ~(L[i].index < L[k].index)
  BY <1>3
<1>5. PICK y : Precedes(policy, L, t, y, k) /\ TransitionOK(L[y[1]], L[y[2]], L[k])
  BY <1>4, HasPredecessor
<1>6. y[1] \in C /\ y[1] < k /\ i <= y[1] /\ L[k].index = L[y[1]].index + 1
  BY <1>4, <1>5 DEF Precedes, TransitionOK
<1>7. y[1] \notin Bad
  <2>1. k \in Nat /\ y[1] \in Nat
    BY <1>1, <1>4, <1>6
  <2> HIDE DEF Bad
  <2> QED BY <1>3, <1>6, <2>1
<1>8. i = y[1] \/ L[i].index < L[y[1]].index
  <2>1. i < y[1] => L[i].index < L[y[1]].index
    BY <1>4, <1>6, <1>7
  <2>2. i \in Nat /\ y[1] \in Nat
    BY <1>1, <1>4, <1>6
  <2> QED BY <1>6, <2>1, <2>2
<1> QED BY <1>1, <1>4, <1>6, <1>8

\* No number is missing.
LEMMA EveryNumber ==
  ASSUME NEW policy, NEW L \in Seq(Submissions), SequenceOK(policy, L), NEW t,
         NEW k0 \in CurrentPres(policy, L, t), NEW n0 \in 1 .. L[k0].index
  PROVE  \E i \in UpTo(policy, L, t, k0) : L[i].index = n0
<1> DEFINE C == CurrentPres(policy, L, t)
           Covers(k) == \A n \in 1 .. L[k].index : \E i \in C : i <= k /\ L[i].index = n
           Bad == {k \in C : ~Covers(k)}
<1>1. C \subseteq Nat /\ \A k \in C : L[k].index \in Nat \ {0}
  BY DecisionType
<1>2. SUFFICES ASSUME Bad # {} PROVE FALSE
  BY <1>2 DEF UpTo
<1>3. PICK k \in Bad : \A n \in Bad : k <= n
  <2>1. Bad \subseteq Nat
    BY <1>1
  <2> HIDE DEF Bad
  <2> QED BY <1>2, <2>1, LeastExists
<1>4. k \in C /\ k \in Nat /\ k <= k
  BY <1>1, <1>3
<1>5. CASE ~\E i \in C : i < k
  <2>1. L[k].index = 1
    BY <1>4, <1>5, FirstNumber
  <2>2. Covers(k)
    BY <1>4, <2>1
  <2> QED BY <1>3, <2>2
<1>6. CASE \E i \in C : i < k
  <2>1. PICK y : Precedes(policy, L, t, y, k) /\ TransitionOK(L[y[1]], L[y[2]], L[k])
    BY <1>4, <1>6, HasPredecessor
  <2>2. y[1] \in C /\ y[1] < k /\ L[k].index = L[y[1]].index + 1
    BY <2>1 DEF Precedes, TransitionOK
  <2>3. y[1] \notin Bad
    <3>1. k \in Nat /\ y[1] \in Nat
      BY <1>1, <1>4, <2>2
    <3> HIDE DEF Bad
    <3> QED BY <1>3, <2>2, <3>1
  <2>4. Covers(y[1])
    BY <2>2, <2>3
  <2>5. ASSUME NEW n \in 1 .. L[k].index PROVE \E i \in C : i <= k /\ L[i].index = n
    <3>1. n = L[k].index \/ n \in 1 .. L[y[1]].index
      BY <1>1, <1>4, <2>2
    <3>2. CASE n = L[k].index
      BY <1>4, <3>2
    <3>3. CASE n \in 1 .. L[y[1]].index
      <4>1. PICK i \in C : i <= y[1] /\ L[i].index = n
        BY <2>4, <3>3
      <4> QED BY <1>1, <1>4, <2>2, <4>1
    <3> QED BY <3>1, <3>2, <3>3
  <2> QED BY <1>3, <2>5
<1> QED BY <1>5, <1>6

\* A number finds the attempt that has it.
LEMMA NumberFinds ==
  ASSUME NEW policy, NEW L \in Seq(Submissions), SequenceOK(policy, L), NEW t,
         NEW k \in CurrentPres(policy, L, t), NEW i \in UpTo(policy, L, t, k)
  PROVE  Numbered(policy, L, t, k, L[i].index) = i
<1>1. ASSUME NEW j \in UpTo(policy, L, t, k), L[j].index = L[i].index PROVE j = i
  <2>1. /\ i \in CurrentPres(policy, L, t) /\ j \in CurrentPres(policy, L, t)
    BY DEF UpTo
  <2>2. /\ i \in Nat /\ j \in Nat /\ L[i].index \in Nat /\ L[j].index \in Nat
    BY <2>1, DecisionType
  <2>3. ~(i < j)
    <3> SUFFICES ASSUME i < j PROVE FALSE
      OBVIOUS
    <3>1. L[i].index < L[j].index
      BY <2>1, NumbersRise
    <3> QED BY <1>1, <2>2, <3>1
  <2>4. ~(j < i)
    <3> SUFFICES ASSUME j < i PROVE FALSE
      OBVIOUS
    <3>1. L[j].index < L[i].index
      BY <2>1, NumbersRise
    <3> QED BY <1>1, <2>2, <3>1
  <2> QED BY <2>2, <2>3, <2>4
<1> DEFINE j == Numbered(policy, L, t, k, L[i].index)
<1>2. j \in UpTo(policy, L, t, k) /\ L[j].index = L[i].index
  BY DEF Numbered
<1> HIDE DEF j
<1>3. j = i
  BY <1>1, <1>2
<1> QED BY <1>3 DEF j

\* An attempt that a number finds up to attempt p is the one it finds later.
LEMMA NumberKept ==
  ASSUME NEW policy, NEW L \in Seq(Submissions), SequenceOK(policy, L), NEW t,
         NEW p \in CurrentPres(policy, L, t), NEW k \in CurrentPres(policy, L, t), p <= k,
         NEW n \in 1 .. L[p].index
  PROVE  /\ Numbered(policy, L, t, k, n) = Numbered(policy, L, t, p, n)
         /\ Numbered(policy, L, t, p, n) \in CurrentPres(policy, L, t)
<1>1. PICK i \in UpTo(policy, L, t, p) : L[i].index = n
  BY EveryNumber
<1>2. i \in CurrentPres(policy, L, t) /\ i \in UpTo(policy, L, t, k)
  <2>1. i \in CurrentPres(policy, L, t) /\ i <= p
    BY DEF UpTo
  <2>2. i \in Nat /\ p \in Nat /\ k \in Nat
    BY <2>1, DecisionType
  <2> QED BY <2>1, <2>2 DEF UpTo
<1>3. Numbered(policy, L, t, p, n) = i
  BY <1>1, NumberFinds
<1>4. Numbered(policy, L, t, k, n) = i
  BY <1>1, <1>2, NumberFinds
<1> QED BY <1>2, <1>3, <1>4

\* The attempts up to k are as many as the number of k says.
LEMMA UpToIsNumbered ==
  ASSUME NEW policy, NEW L \in Seq(Submissions), SequenceOK(policy, L), NEW t,
         NEW k \in CurrentPres(policy, L, t)
  PROVE  Cardinality(UpTo(policy, L, t, k)) = L[k].index
BY ReadableIsNumbered DEF UpTo

\* The first attempt has seen no change.
LEMMA NoChangeYet ==
  ASSUME NEW policy, NEW L \in Seq(Submissions), SequenceOK(policy, L), NEW t,
         NEW k \in CurrentPres(policy, L, t),
         ~\E i \in CurrentPres(policy, L, t) : i < k, NEW Changed
  PROVE  /\ Cardinality(ChangesUpTo(policy, L, t, k, Changed)) = 0
         /\ Numbered(policy, L, t, k, 1) = k
<1>1. L[k].index = 1
  BY FirstNumber
<1>2. ChangesUpTo(policy, L, t, k, Changed) = {}
  <2>1. Cardinality(UpTo(policy, L, t, k)) = 1
    BY <1>1, UpToIsNumbered
  <2> QED BY <2>1 DEF ChangesUpTo
<1>3. k \in UpTo(policy, L, t, k)
  BY DecisionType DEF UpTo
<1> QED BY <1>1, <1>2, <1>3, NumberFinds, FS_EmptySet

\* What attempt k has seen is what attempt p has seen, and the change between
\* their routes.
SeesChange(policy, L, t, p, k, Changed) ==
  /\ Cardinality(ChangesUpTo(policy, L, t, p, Changed)) \in Nat
  /\ Cardinality(ChangesUpTo(policy, L, t, k, Changed)) =
       Cardinality(ChangesUpTo(policy, L, t, p, Changed)) +
       IF <<L[p].route, L[k].route>> \in Changed THEN 1 ELSE 0
  /\ Numbered(policy, L, t, k, 1) = Numbered(policy, L, t, p, 1)

\* An attempt has seen the changes of the one before it, and its own.
LEMMA OneMoreChange ==
  ASSUME NEW policy, NEW L \in Seq(Submissions), SequenceOK(policy, L), NEW t,
         NEW k \in CurrentPres(policy, L, t), NEW y,
         Precedes(policy, L, t, y, k), L[k].index = L[y[1]].index + 1, NEW Changed
  PROVE  SeesChange(policy, L, t, y[1], k, Changed)
<1> DEFINE p == y[1]
           N == L[p].index
           Before == ChangesUpTo(policy, L, t, p, Changed)
           After == ChangesUpTo(policy, L, t, k, Changed)
           At(n) == Numbered(policy, L, t, k, n)
           Changes(n) == <<L[At(n)].route, L[At(n + 1)].route>> \in Changed
<1>1. /\ p \in CurrentPres(policy, L, t) /\ p < k /\ p \in Nat /\ k \in Nat
      /\ N \in Nat \ {0} /\ L[k].index = N + 1
  BY DecisionType DEF Precedes
<1> HIDE DEF p
<1>2. p \in UpTo(policy, L, t, k) /\ k \in UpTo(policy, L, t, k)
  BY <1>1 DEF UpTo
<1>3. At(N) = p /\ At(N + 1) = k
  BY <1>1, <1>2, NumberFinds
<1>4. \A n \in 1 .. N : At(n) = Numbered(policy, L, t, p, n)
  BY <1>1, NumberKept
<1>5. Cardinality(UpTo(policy, L, t, k)) = N + 1 /\ Cardinality(UpTo(policy, L, t, p)) = N
  BY <1>1, UpToIsNumbered
<1>6. After = {n \in 1 .. N : Changes(n)}
  BY <1>1, <1>5 DEF ChangesUpTo
<1>7. Before = {n \in 1 .. N - 1 : Changes(n)}
  <2>1. Before = {n \in 1 .. N - 1 : <<L[Numbered(policy, L, t, p, n)].route,
                                       L[Numbered(policy, L, t, p, n + 1)].route>> \in Changed}
    BY <1>5 DEF ChangesUpTo
  <2>2. \A n \in 1 .. N - 1 : n \in 1 .. N /\ n + 1 \in 1 .. N
    BY <1>1
  <2>3. \A n \in 1 .. N - 1 : /\ At(n) = Numbered(policy, L, t, p, n)
                               /\ At(n + 1) = Numbered(policy, L, t, p, n + 1)
    BY <1>4, <2>2
  <2> QED BY <2>1, <2>3
<1>8. Changes(N) <=> <<L[p].route, L[k].route>> \in Changed
  BY <1>3
<1>9. IsFiniteSet(Before) /\ N \notin Before
  <2>1. IsFiniteSet(1 .. N - 1)
    <3>1. 1 \in Int /\ N - 1 \in Int
      BY <1>1
    <3> QED BY <3>1, FS_Interval
  <2>2. Before \subseteq 1 .. N - 1 /\ N \notin 1 .. N - 1
    BY <1>1, <1>7
  <2> QED BY <2>1, <2>2, FS_Subset
<1> HIDE DEF Before, After, N, Changes, At
<1>10. CASE Changes(N)
  <2>1. After = Before \union {N}
    <3>1. \A n : n \in 1 .. N <=> n \in 1 .. N - 1 \/ n = N
      BY <1>1
    <3> QED BY <1>6, <1>7, <1>10, <3>1
  <2>2. Cardinality(After) = Cardinality(Before) + 1
    BY <1>9, <2>1, FS_AddElement
  <2>3. Cardinality(Before) \in Nat
    BY <1>9, FS_CardinalityType
  <2>4. At(1) = Numbered(policy, L, t, p, 1)
    BY <1>1, <1>4
  <2> QED BY <1>8, <1>10, <2>2, <2>3, <2>4 DEF SeesChange, Before, After, At, p
<1>11. CASE ~Changes(N)
  <2>1. After = Before
    <3>1. \A n : n \in 1 .. N <=> n \in 1 .. N - 1 \/ n = N
      BY <1>1
    <3> QED BY <1>6, <1>7, <1>11, <3>1
  <2>2. Cardinality(Before) \in Nat
    BY <1>9, FS_CardinalityType
  <2>3. At(1) = Numbered(policy, L, t, p, 1)
    BY <1>1, <1>4
  <2>4. Cardinality(After) = Cardinality(Before) + 0
    BY <2>1, <2>2
  <2> QED BY <1>8, <1>11, <2>2, <2>3, <2>4 DEF SeesChange, Before, After, At, p
<1> QED BY <1>10, <1>11

\* The counters of an attempt are those of the one before it, whose result
\* repeats them, plus the change between the two routes.
LEMMA CountersStep ==
  ASSUME NEW policy, NEW L \in Seq(Submissions), SequenceOK(policy, L), NEW t,
         NEW k \in CurrentPres(policy, L, t), NEW y,
         Precedes(policy, L, t, y, k), TransitionOK(L[y[1]], L[y[2]], L[k])
  PROVE  /\ y[1] \in CurrentPres(policy, L, t) /\ y[1] < k
         /\ L[k].index = L[y[1]].index + 1
         /\ L[k].effort = L[y[1]].effort + EffortDelta(L[y[1]].route, L[k].route)
         /\ L[k].model = L[y[1]].model + ModelDelta(L[y[1]].route, L[k].route)
<1>1. /\ y[1] \in CurrentPres(policy, L, t) /\ y[1] < k
      /\ y \in Pairs(L, t) /\ Current(policy, L[y[2]])
      /\ L[k].index = L[y[1]].index + 1
      /\ L[k].effort = L[y[2]].effort + EffortDelta(L[y[1]].route, L[k].route)
      /\ L[k].model = L[y[2]].model + ModelDelta(L[y[1]].route, L[k].route)
  BY DEF Precedes, TransitionOK
<1>2. /\ y[1] \in DOMAIN L /\ y[2] \in DOMAIN L
      /\ L[y[1]].type = "pre" /\ L[y[2]].type = "post"
      /\ PairKey(L[y[1]]) = PairKey(L[y[2]])
  BY <1>1 DEF Pairs
<1>3. y[1] < y[2] /\ Current(policy, L[y[1]])
  BY <1>1, <1>2, DecisionBeforeResult DEF CurrentPres
<1>4. PairAgrees(policy, L[y[1]], L[y[2]])
  BY <1>2, <1>3, OneEventBeforeResult
<1> QED BY <1>1, <1>3, <1>4 DEF PairAgrees

\* The changes that the counters count.
EffortChanges == {x \in Routes \X Routes : EffortDelta(x[1], x[2]) = 1}
ModelChanges == {x \in Routes \X Routes : ModelDelta(x[1], x[2]) = 1}

\* The counters of an attempt are those of its task's first attempt plus the
\* changes since.
LEMMA ReadableCounts ==
  ASSUME NEW policy, NEW L \in Seq(Submissions), SequenceOK(policy, L), NEW t,
         NEW k0 \in CurrentPres(policy, L, t)
  PROVE  /\ L[k0].effort = L[Numbered(policy, L, t, k0, 1)].effort
                           + Cardinality(ChangesUpTo(policy, L, t, k0, EffortChanges))
         /\ L[k0].model = L[Numbered(policy, L, t, k0, 1)].model
                          + Cardinality(ChangesUpTo(policy, L, t, k0, ModelChanges))
<1> DEFINE C == CurrentPres(policy, L, t)
           First(k) == Numbered(policy, L, t, k, 1)
           Efforts(k) == Cardinality(ChangesUpTo(policy, L, t, k, EffortChanges))
           Models(k) == Cardinality(ChangesUpTo(policy, L, t, k, ModelChanges))
           Counts(k) == /\ L[k].effort = L[First(k)].effort + Efforts(k)
                        /\ L[k].model = L[First(k)].model + Models(k)
           Bad == {k \in C : ~Counts(k)}
<1>1. C \subseteq Nat
  BY DecisionType
<1>2. SUFFICES ASSUME Bad # {} PROVE FALSE
  BY <1>2
<1>3. PICK k \in Bad : \A n \in Bad : k <= n
  <2>1. Bad \subseteq Nat
    BY <1>1
  <2> HIDE DEF Bad
  <2> QED BY <1>2, <2>1, LeastExists
<1>4. k \in C /\ k \in Nat /\ ~Counts(k)
  BY <1>1, <1>3
<1>5. L[k].effort \in Nat /\ L[k].model \in Nat /\ L[k].route \in Routes
  BY <1>4, DecisionType
<1>6. CASE ~\E i \in C : i < k
  <2>1. Efforts(k) = 0 /\ Models(k) = 0 /\ First(k) = k
    BY <1>4, <1>6, NoChangeYet
  <2> HIDE DEF Efforts, Models, First
  <2> QED BY <1>4, <1>5, <2>1
<1>7. CASE \E i \in C : i < k
  <2>1. PICK y : Precedes(policy, L, t, y, k) /\ TransitionOK(L[y[1]], L[y[2]], L[k])
    BY <1>4, <1>7, HasPredecessor
  <2> DEFINE p == y[1]
  <2>2. /\ p \in C /\ p < k /\ p \in Nat
        /\ L[k].index = L[p].index + 1
        /\ L[k].effort = L[p].effort + EffortDelta(L[p].route, L[k].route)
        /\ L[k].model = L[p].model + ModelDelta(L[p].route, L[k].route)
    BY <1>1, <1>4, <2>1, CountersStep
  <2>4. /\ L[p].route \in Routes /\ L[p].effort \in Nat /\ L[p].model \in Nat
    BY <2>2, DecisionType
  <2>5. Counts(p)
    <3>1. p \notin Bad
      <4> HIDE DEF Bad, p
      <4> QED BY <1>3, <1>4, <2>2
    <3> QED BY <2>2, <3>1
  <2>6. /\ Efforts(p) \in Nat /\ First(k) = First(p)
        /\ Efforts(k) = Efforts(p) + EffortDelta(L[p].route, L[k].route)
    <3>1. SeesChange(policy, L, t, y[1], k, EffortChanges)
      BY <1>4, <2>1, <2>2, OneMoreChange
    <3>2. EffortDelta(L[p].route, L[k].route) =
            IF <<L[p].route, L[k].route>> \in EffortChanges THEN 1 ELSE 0
      BY <1>5, <2>4 DEF EffortChanges, EffortDelta
    <3> QED BY <3>1, <3>2 DEF SeesChange
  <2>7. /\ Models(p) \in Nat
        /\ Models(k) = Models(p) + ModelDelta(L[p].route, L[k].route)
    <3>1. SeesChange(policy, L, t, y[1], k, ModelChanges)
      BY <1>4, <2>1, <2>2, OneMoreChange
    <3>2. ModelDelta(L[p].route, L[k].route) =
            IF <<L[p].route, L[k].route>> \in ModelChanges THEN 1 ELSE 0
      BY <1>5, <2>4 DEF ModelChanges, ModelDelta
    <3> QED BY <3>1, <3>2 DEF SeesChange
  <2>8. L[First(p)].effort \in Nat /\ L[First(p)].model \in Nat
    <3>1. 1 \in 1 .. L[p].index
      BY <2>2, DecisionType
    <3>2. First(p) \in C
      <4>1. p <= p
        BY <2>2
      <4> QED BY <2>2, <3>1, <4>1, NumberKept
    <3> HIDE DEF First
    <3> QED BY <3>2, DecisionType
  <2>9. EffortDelta(L[p].route, L[k].route) \in Nat /\ ModelDelta(L[p].route, L[k].route) \in Nat
    BY DEF EffortDelta, ModelDelta
  <2>10. L[k].effort = L[First(k)].effort + Efforts(k)
    <3> HIDE DEF Efforts, First, p
    <3> QED BY <2>2, <2>4, <2>5, <2>6, <2>8, <2>9
  <2>11. L[k].model = L[First(k)].model + Models(k)
    <3> HIDE DEF Models, First, p
    <3> QED BY <2>2, <2>4, <2>5, <2>6, <2>7, <2>8, <2>9
  <2> QED BY <1>4, <2>10, <2>11
<1> QED BY <1>6, <1>7

\* A change of route is counted: its model changes, or else its effort.
LEMMA MovesAreCounted ==
  ASSUME NEW pre, NEW post, NEW e, pre.class \in TaskClasses,
         pre.route \in Steps(ApplicableLadder(pre.class, pre.oracle)),
         e.route \in Routes, NextRouteOK(pre, post, e), e.route # pre.route
  PROVE  EffortDelta(pre.route, e.route) + ModelDelta(pre.route, e.route) = 1
<1> DEFINE ladder == ApplicableLadder(pre.class, pre.oracle)
           at == Position(ladder, pre.route)
<1>1. /\ at \in 1 .. Len(ladder) /\ Len(ladder) \in Nat \ {0} /\ pre.route \in Routes
      /\ ladder[at] = pre.route /\ DOMAIN ladder = 1 .. Len(ladder)
  BY PositionIs, LadderType
<1>2. CASE ~SameModel(pre.route, e.route)
  BY <1>2 DEF EffortDelta, ModelDelta
<1>3. CASE SameModel(pre.route, e.route)
  <2>1. PICK name \in DOMAIN Ladders : ladder = Ladders[name]
    BY LadderExists
  <2>2. e.route \in Steps(ladder)
    <3>1. CASE TakesOver(pre, post, e)
      <4>1. e.route = ladder[Len(ladder)]
        BY <3>1 DEF TakesOver
      <4> QED BY <1>1, <4>1 DEF Steps
    <3>2. CASE StepsUp(pre, e)
      BY <3>2 DEF StepsUp
    <3> QED BY <3>1, <3>2 DEF NextRouteOK
  <2>3. PICK j \in DOMAIN ladder : ladder[j] = e.route
    BY <2>2 DEF Steps
  <2>4. j # at
    BY <1>1, <2>3
  <2>5. Binding[pre.route].effort # Binding[e.route].effort
    BY <1>1, <1>3, <2>1, <2>3, <2>4, StepAssumption
  <2> QED BY <1>3, <2>5 DEF EffortDelta, ModelDelta
<1> QED BY <1>2, <1>3

\* An attempt that left the route of an earlier one has a counter that says so.
LEMMA LeavingIsCounted ==
  ASSUME NEW policy, NEW L \in Seq(Submissions), SequenceOK(policy, L), NEW t,
         NEW f \in CurrentPres(policy, L, t), NEW k0 \in CurrentPres(policy, L, t), f <= k0,
         L[k0].effort = 0, L[k0].model = 0
  PROVE  L[k0].route = L[f].route
<1> DEFINE C == CurrentPres(policy, L, t)
           Bad == {k \in C : /\ f <= k /\ L[k].route # L[f].route
                             /\ L[k].effort = 0 /\ L[k].model = 0}
<1>1. C \subseteq Nat
  BY DecisionType
<1>2. SUFFICES ASSUME Bad # {} PROVE FALSE
  BY <1>2
<1>3. PICK k \in Bad : \A n \in Bad : k <= n
  <2>1. Bad \subseteq Nat
    BY <1>1
  <2> HIDE DEF Bad
  <2> QED BY <1>2, <2>1, LeastExists
<1>4. /\ k \in C /\ k \in Nat /\ f \in Nat /\ f < k
      /\ L[k].route # L[f].route /\ L[k].effort = 0 /\ L[k].model = 0
  BY <1>1, <1>3
<1>5. PICK y : Precedes(policy, L, t, y, k) /\ TransitionOK(L[y[1]], L[y[2]], L[k])
  BY <1>4, HasPredecessor
<1> DEFINE p == y[1]
           deltas == EffortDelta(L[p].route, L[k].route) + ModelDelta(L[p].route, L[k].route)
<1>6. /\ p \in C /\ p < k /\ p \in Nat
      /\ L[k].effort = L[p].effort + EffortDelta(L[p].route, L[k].route)
      /\ L[k].model = L[p].model + ModelDelta(L[p].route, L[k].route)
  BY <1>1, <1>4, <1>5, CountersStep
<1>7. f <= p
  BY <1>4, <1>5 DEF Precedes
<1>8. /\ L[p].effort \in Nat /\ L[p].model \in Nat /\ L[p].route \in Routes
      /\ L[k].route \in Routes
  BY <1>4, <1>6, DecisionType
<1>9. EffortDelta(L[p].route, L[k].route) \in Nat /\ ModelDelta(L[p].route, L[k].route) \in Nat
  BY DEF EffortDelta, ModelDelta
<1>10. L[p].effort = 0 /\ L[p].model = 0 /\ deltas = 0
  <2>1. \A m, n \in Nat : m + n = 0 => m = 0 /\ n = 0
    OBVIOUS
  <2>2. /\ L[p].effort + EffortDelta(L[p].route, L[k].route) = 0
        /\ L[p].model + ModelDelta(L[p].route, L[k].route) = 0
    BY <1>4, <1>6
  <2>3. /\ L[p].effort = 0 /\ EffortDelta(L[p].route, L[k].route) = 0
        /\ L[p].model = 0 /\ ModelDelta(L[p].route, L[k].route) = 0
    <3> HIDE DEF p
    <3> QED BY <1>8, <1>9, <2>1, <2>2
  <2> QED BY <2>3
<1>11. L[p].route = L[f].route
  <2>1. p \notin Bad
    <3> HIDE DEF Bad, p
    <3> QED BY <1>3, <1>4, <1>6
  <2> QED BY <1>6, <1>7, <1>10, <2>1
<1>12. deltas = 1
  <2>1. /\ p \in DOMAIN L /\ L[p].type = "pre" /\ Current(policy, L[p]) /\ L[p] \in Submissions
    BY <1>6, DecisionType DEF CurrentPres
  <2>2. L[p].class \in TaskClasses
    BY <2>1, LedgerAssumption DEF IsEvent, IsPre, IsPost
  <2>3. SelectionOK(L[p])
    BY <2>1 DEF SequenceOK, ValidEvent
  <2>4. NextRouteOK(L[p], L[y[2]], L[k])
    BY <1>5 DEF TransitionOK
  <2> QED BY <1>4, <1>8, <1>11, <2>2, <2>3, <2>4, MovesAreCounted DEF SelectionOK
<1> QED BY <1>10, <1>12

-----------------------------------------------------------------------------
(* The state machine.                                                      *)

\* The ledger only ever holds submitted events, in the order of their
\* appends, and the scripts always load one of the policies.
THEOREM TypeCorrect == Spec => []TypeOK
<1>1. Init => TypeOK
  BY DEF Init, TypeOK
<1>2. TypeOK /\ [Next]_vars => TypeOK'
  BY AppendProperties DEF TypeOK, Next, RecordEvent, vars
<1> QED
  BY <1>1, <1>2, PTL DEF Spec

\* The same while installations replace the policy.
THEOREM UpgradeTypeCorrect == UpgradeSpec => []TypeOK
<1>1. Init => TypeOK
  BY DEF Init, TypeOK
<1>2. TypeOK /\ [UpgradeNext]_vars => TypeOK'
  BY AppendProperties
  DEF TypeOK, UpgradeNext, Next, RecordEvent, InstallPolicy, vars
<1> QED
  BY <1>1, <1>2, PTL DEF UpgradeSpec

\* No append leaves lines that the next reader refuses: what _append_event
\* checks of the new event is all that _parse_ledger and _check_sequence will
\* ask of the whole sequence.  Only the size of the file can close it, with one
\* line beyond the bound at most.
THEOREM AlwaysReadableOrFull == Spec => []ReadableOrFull
<1>1. Init => ReadableOrFull
  <2>1. Len(<< >>) = 0 /\ MaxLedger \in Nat
    BY LedgerAssumption
  <2> QED
    BY <2>1 DEF Init, ReadableOrFull, SequenceOK
<1>2. TypeOK /\ ReadableOrFull /\ [Next]_vars => ReadableOrFull'
  <2> SUFFICES ASSUME TypeOK, ReadableOrFull, [Next]_vars PROVE ReadableOrFull'
    OBVIOUS
  <2>1. CASE Next
    <3>1. PICK e \in Submissions : RecordEvent(e)
      BY <2>1 DEF Next
    <3>2. /\ ledger' = Append(ledger, e) /\ installed' = installed
          /\ ValidEvent(installed, e) /\ EventOK(installed, ledger, e)
          /\ Fits(ledger)
      BY <3>1 DEF RecordEvent, CanAppend, LedgerOK
    <3>3. SequenceOK(installed, Append(ledger, e))
      BY <3>2, AppendKeepsSequenceOK DEF TypeOK, ReadableOrFull
    <3>4. Len(ledger') <= MaxLedger + 1
      BY <3>2, AppendProperties, LenProperties, LedgerAssumption DEF Fits, TypeOK
    <3> QED
      BY <3>2, <3>3, <3>4 DEF ReadableOrFull
  <2>2. CASE UNCHANGED vars
    BY <2>2 DEF vars, ReadableOrFull
  <2> QED
    BY <2>1, <2>2
<1> QED
  BY <1>1, <1>2, TypeCorrect, PTL DEF Spec

\* In any state, whatever led to it: if the installed policy accepts the
\* ledger, the chains in it are sound.
LEMMA TypedIsSound == TypeOK => ReadableIsSound
<1> SUFFICES ASSUME TypeOK, SequenceOK(installed, ledger)
             PROVE  OnePending /\ NumberedInOrder /\ AcceptedIsFinal /\ OneLock
  BY DEF ReadableIsSound
<1>1. ledger \in Seq(Submissions) /\ SequenceOK(installed, ledger)
  BY DEF TypeOK
<1>2. OnePending
  BY <1>1, ReadableHasOnePending DEF OnePending
<1>3. NumberedInOrder
  BY <1>1, ReadableIsNumbered DEF NumberedInOrder
<1>4. AcceptedIsFinal
  BY <1>1, ReadableAcceptsOnce DEF AcceptedIsFinal
<1>5. OneLock
  BY <1>1, ReadableHasOneLock DEF OneLock
<1> QED
  BY <1>2, <1>3, <1>4, <1>5

\* Whatever policies were installed while the ledger grew, the lenient
\* reading of the events of other policies hides no second open attempt, gap
\* in the numbers, attempt after an acceptance or swapped lock.
THEOREM UpgradeIsSound == UpgradeSpec => []ReadableIsSound
BY UpgradeTypeCorrect, TypedIsSound, PTL

\* A task never has two current attempts that wait for a result.
THEOREM OnePendingAlways == Spec => []OnePending
<1>1. ReadableOrFull /\ ReadableIsSound => OnePending
  BY DEF ReadableIsSound, ReadableOrFull
<1> QED
  BY <1>1, TypeCorrect, AlwaysReadableOrFull, TypedIsSound, PTL

\* The current attempts of a task are numbered 1, 2, 3, ... in file order.
THEOREM AlwaysNumbered == Spec => []NumberedInOrder
<1>1. ReadableOrFull /\ ReadableIsSound => NumberedInOrder
  BY DEF ReadableIsSound, ReadableOrFull
<1> QED
  BY <1>1, TypeCorrect, AlwaysReadableOrFull, TypedIsSound, PTL

\* No current attempt is recorded after an accepted result of its task.
THEOREM AcceptanceIsFinal == Spec => []AcceptedIsFinal
<1>1. ReadableOrFull /\ ReadableIsSound => AcceptedIsFinal
  BY DEF ReadableIsSound, ReadableOrFull
<1> QED
  BY <1>1, TypeCorrect, AlwaysReadableOrFull, TypedIsSound, PTL

\* The objective lock of a task cannot be swapped between its attempts.
THEOREM LockIsKept == Spec => []OneLock
<1>1. ReadableOrFull /\ ReadableIsSound => OneLock
  BY DEF ReadableIsSound, ReadableOrFull
<1> QED
  BY <1>1, TypeCorrect, AlwaysReadableOrFull, TypedIsSound, PTL

\* A task gets one attempt and one retry on each route over its whole
\* history: the retry budget counts only the attempts at its end, and the
\* chain never comes back to a route it left.
THEOREM RouteBudgetKept == Spec => []RouteBudget
<1>1. TypeOK /\ ReadableOrFull => RouteBudget
  <2> SUFFICES ASSUME ledger \in Seq(Submissions), SequenceOK(installed, ledger),
                      NEW t \in Tasks, NEW r \in Routes
               PROVE  Cardinality(AttemptsOn(installed, ledger, t, r)) <= MaxSameRouteRetries + 1
    BY DEF TypeOK, ReadableOrFull, RouteBudget, AttemptsOn
  <2> QED BY ReadableKeepsBudget
<1> QED
  BY <1>1, TypeCorrect, AlwaysReadableOrFull, PTL

\* The escalation counters of an attempt count the effort and model changes
\* of the whole recorded chain, from the first attempt of the task.
THEOREM CountersAreTrue == Spec => []CountersTellChain
<1>1. TypeOK /\ ReadableOrFull => CountersTellChain
  <2> SUFFICES ASSUME ledger \in Seq(Submissions), SequenceOK(installed, ledger),
                      NEW t \in Tasks, NEW k \in CurrentPres(installed, ledger, t)
               PROVE  LET upto == UpTo(installed, ledger, t, k)
                          At(n) == Numbered(installed, ledger, t, k, n)
                      IN /\ ledger[k].effort = ledger[At(1)].effort +
                              Cardinality({n \in 1 .. Cardinality(upto) - 1 :
                                EffortDelta(ledger[At(n)].route, ledger[At(n + 1)].route) = 1})
                         /\ ledger[k].model = ledger[At(1)].model +
                              Cardinality({n \in 1 .. Cardinality(upto) - 1 :
                                ModelDelta(ledger[At(n)].route, ledger[At(n + 1)].route) = 1})
    BY DEF TypeOK, ReadableOrFull, CountersTellChain, UpTo, Numbered
  <2> DEFINE upto == UpTo(installed, ledger, t, k)
             At(n) == Numbered(installed, ledger, t, k, n)
  <2>1. \A n \in 1 .. Cardinality(upto) : ledger[At(n)].route \in Routes
    <3> SUFFICES ASSUME NEW n \in 1 .. Cardinality(upto) PROVE ledger[At(n)].route \in Routes
      OBVIOUS
    <3>1. k \in Nat /\ k <= k /\ n \in 1 .. ledger[k].index
      BY DecisionType, UpToIsNumbered
    <3>2. At(n) \in CurrentPres(installed, ledger, t)
      BY <3>1, NumberKept
    <3> HIDE DEF At
    <3> QED BY <3>2, DecisionType
  <2>2. Cardinality(upto) \in Nat
    BY DecisionType, UpToIsNumbered
  <2>3. \A n \in 1 .. Cardinality(upto) - 1 :
          <<ledger[At(n)].route, ledger[At(n + 1)].route>> \in Routes \X Routes
    <3>1. \A n \in 1 .. Cardinality(upto) - 1 :
            n \in 1 .. Cardinality(upto) /\ n + 1 \in 1 .. Cardinality(upto)
      BY <2>2
    <3> QED BY <2>1, <3>1
  <2> DEFINE efforts == {n \in 1 .. Cardinality(upto) - 1 :
                           EffortDelta(ledger[At(n)].route, ledger[At(n + 1)].route) = 1}
             models == {n \in 1 .. Cardinality(upto) - 1 :
                          ModelDelta(ledger[At(n)].route, ledger[At(n + 1)].route) = 1}
  <2>4. ChangesUpTo(installed, ledger, t, k, EffortChanges) = efforts
    BY <2>3 DEF ChangesUpTo, EffortChanges
  <2>5. ChangesUpTo(installed, ledger, t, k, ModelChanges) = models
    BY <2>3 DEF ChangesUpTo, ModelChanges
  <2>6. /\ ledger[k].effort = ledger[At(1)].effort + Cardinality(efforts)
        /\ ledger[k].model = ledger[At(1)].model + Cardinality(models)
    <3> HIDE DEF efforts, models
    <3> QED BY <2>4, <2>5, ReadableCounts
  <2> QED BY <2>6, Zenon
<1> QED
  BY <1>1, TypeCorrect, AlwaysReadableOrFull, PTL

-----------------------------------------------------------------------------
(* The ledger implements one chain of attempts for each task.              *)

\* The views of a ledger L that decision e ends, from those of P, the ledger
\* without it.
DecisionViews(policy, P, L, e, t) ==
  LET n == Len(P) + 1 IN
  /\ CurrentPres(policy, L, t) =
       IF e.task = t /\ Current(policy, e)
       THEN CurrentPres(policy, P, t) \union {n} ELSE CurrentPres(policy, P, t)
  /\ Pending(policy, L, t) =
       IF e.task = t /\ Current(policy, e)
       THEN Pending(policy, P, t) \union {n} ELSE Pending(policy, P, t)
  /\ Pairs(L, t) = Pairs(P, t)
  /\ \A i \in DOMAIN P : L[i] = P[i]
  /\ n \notin CurrentPres(policy, P, t)

\* What a decision adds to the views of the ledger: an attempt without a
\* result, if it is current.
LEMMA DecisionAppended ==
  ASSUME NEW policy, NEW S, NEW P \in Seq(S), NEW e, e.type = "pre", SameKey(P, e) = {}, NEW t
  PROVE  DecisionViews(policy, P, Append(P, e), e, t)
<1> DEFINE L == Append(P, e)
           n == Len(P) + 1
<1>1. /\ DOMAIN L = DOMAIN P \union {n} /\ n \notin DOMAIN P /\ L[n] = e
      /\ \A i \in DOMAIN P : L[i] = P[i]
  <2>1. P \in Seq(S \union {e}) /\ e \in S \union {e}
    OBVIOUS
  <2> QED BY <2>1
<1> HIDE DEF L, n
<1>2. CurrentPres(policy, L, t) =
        IF e.task = t /\ Current(policy, e)
        THEN CurrentPres(policy, P, t) \union {n} ELSE CurrentPres(policy, P, t)
  BY <1>1 DEF CurrentPres
<1>3. n \notin CurrentPres(policy, P, t) /\ CurrentPres(policy, P, t) \subseteq DOMAIN P
  BY <1>1 DEF CurrentPres
<1>4. ASSUME NEW i \in DOMAIN P PROVE Answered(L, i) <=> Answered(P, i)
  BY <1>1 DEF Answered
<1>5. ~Answered(L, n)
  <2>1. ASSUME NEW j \in DOMAIN L, L[j].type = "post", PairKey(L[j]) = PairKey(e) PROVE FALSE
    BY <1>1, <2>1 DEF SameKey
  <2> QED BY <1>1, <2>1 DEF Answered
<1>6. Pending(policy, L, t) =
        IF e.task = t /\ Current(policy, e)
        THEN Pending(policy, P, t) \union {n} ELSE Pending(policy, P, t)
  BY <1>2, <1>3, <1>4, <1>5 DEF Pending
<1>7. Pairs(L, t) = Pairs(P, t)
  <2>1. ASSUME NEW x \in Pairs(L, t) PROVE x \in Pairs(P, t)
    <3>1. /\ x \in (DOMAIN L) \X (DOMAIN L)
          /\ L[x[1]].type = "pre" /\ L[x[2]].type = "post"
          /\ PairKey(L[x[1]]) = PairKey(L[x[2]]) /\ L[x[1]].task = t
      BY DEF Pairs
    <3>2. x[2] # n
      BY <1>1, <3>1
    <3>3. x[1] # n
      BY <1>1, <3>1, <3>2 DEF SameKey
    <3>4. x \in (DOMAIN P) \X (DOMAIN P)
      BY <1>1, <3>1, <3>2, <3>3
    <3> QED BY <1>1, <3>1, <3>4 DEF Pairs
  <2>2. ASSUME NEW x \in Pairs(P, t) PROVE x \in Pairs(L, t)
    BY <1>1 DEF Pairs
  <2> QED BY <2>1, <2>2
<1> QED BY <1>1, <1>2, <1>3, <1>6, <1>7 DEF DecisionViews, L, n

\* A result belongs to one decision.
DecidedBy(P, e, i) == i \in DOMAIN P /\ SameKey(P, e) = {i} /\ P[i].type = "pre"

\* The views of a ledger L that a result of decision i ends, from those of P,
\* the ledger without it.
ResultViews(policy, P, L, i, t) ==
  LET n == Len(P) + 1 IN
  /\ CurrentPres(policy, L, t) = CurrentPres(policy, P, t)
  /\ Pending(policy, L, t) = Pending(policy, P, t) \ {i}
  /\ Pairs(L, t) = IF P[i].task = t THEN Pairs(P, t) \union {<<i, n>>} ELSE Pairs(P, t)
  /\ \A k \in DOMAIN P : L[k] = P[k]
  /\ ~Answered(P, i)

\* What a result adds to the views of the ledger: a pair, with its decision.
LEMMA ResultAppended ==
  ASSUME NEW policy, NEW S, NEW P \in Seq(S), NEW e, NEW i, NEW t,
         e.type = "post", DecidedBy(P, e, i)
  PROVE  ResultViews(policy, P, Append(P, e), i, t)
<1> DEFINE L == Append(P, e)
           n == Len(P) + 1
<1>1. /\ DOMAIN L = DOMAIN P \union {n} /\ n \notin DOMAIN P /\ L[n] = e
      /\ \A k \in DOMAIN P : L[k] = P[k]
  <2>1. P \in Seq(S \union {e}) /\ e \in S \union {e}
    OBVIOUS
  <2> QED BY <2>1
<1> HIDE DEF L, n
<1>2. CurrentPres(policy, L, t) = CurrentPres(policy, P, t)
  BY <1>1 DEF CurrentPres
<1>3. CurrentPres(policy, P, t) \subseteq DOMAIN P
  BY DEF CurrentPres
<1>4. i \in DOMAIN P /\ \A k \in DOMAIN P : PairKey(P[k]) = PairKey(e) <=> k = i
  BY DEF DecidedBy, SameKey
<1>5. ASSUME NEW k \in DOMAIN P PROVE Answered(L, k) <=> Answered(P, k) \/ k = i
  BY <1>1, <1>4 DEF Answered
<1>6. ~Answered(P, i)
  BY <1>4 DEF DecidedBy, Answered
<1>7. Pending(policy, L, t) = Pending(policy, P, t) \ {i}
  BY <1>2, <1>3, <1>5 DEF Pending
<1>8. Pairs(L, t) = IF P[i].task = t THEN Pairs(P, t) \union {<<i, n>>} ELSE Pairs(P, t)
  <2>1. ASSUME NEW x \in Pairs(L, t)
        PROVE  x \in Pairs(P, t) \/ (P[i].task = t /\ x = <<i, n>>)
    <3>1. /\ x \in (DOMAIN L) \X (DOMAIN L)
          /\ L[x[1]].type = "pre" /\ L[x[2]].type = "post"
          /\ PairKey(L[x[1]]) = PairKey(L[x[2]]) /\ L[x[1]].task = t
      BY DEF Pairs
    <3>2. x[1] \in DOMAIN P
      BY <1>1, <3>1
    <3>3. CASE x[2] = n
      <4>1. x[1] = i
        BY <1>1, <1>4, <3>1, <3>2, <3>3
      <4>2. x = <<x[1], x[2]>>
        BY <3>1
      <4> QED BY <1>1, <3>1, <3>2, <3>3, <4>1, <4>2
    <3>4. CASE x[2] # n
      <4>1. x \in (DOMAIN P) \X (DOMAIN P)
        BY <1>1, <3>1, <3>2, <3>4
      <4> QED BY <1>1, <3>1, <4>1 DEF Pairs
    <3> QED BY <3>3, <3>4
  <2>2. ASSUME NEW x \in Pairs(P, t) PROVE x \in Pairs(L, t)
    BY <1>1 DEF Pairs
  <2>3. ASSUME P[i].task = t PROVE <<i, n>> \in Pairs(L, t)
    BY <1>1, <1>4, <2>3 DEF DecidedBy, Pairs
  <2> QED BY <2>1, <2>2, <2>3
<1> QED BY <1>1, <1>2, <1>4, <1>6, <1>7, <1>8 DEF ResultViews, L, n

\* An attempt after which no other can start is not followed by one.
LEMMA ClosedHasNoNext ==
  ASSUME NEW S, NEW P \in Seq(S), NEW e \in S, NEW t, SequenceOK(installed, P),
         ValidEvent(installed, e), EventOK(installed, P, e),
         e.type = "pre", e.task = t, Current(installed, e), Closed(P, t)
  PROVE  FALSE
<1> DEFINE L == Append(P, e)
           n == Len(P) + 1
<1>1. L \in Seq(S) /\ SequenceOK(installed, L)
  BY AppendKeepsSequenceOK
<1>2. /\ n \in CurrentPres(installed, L, t) /\ Pairs(L, t) = Pairs(P, t)
      /\ \A i \in DOMAIN P : L[i] = P[i]
  <2>1. SameKey(P, e) = {}
    BY DEF EventOK, KeyOK
  <2>2. DecisionViews(installed, P, L, e, t)
    BY <2>1, DecisionAppended
  <2> QED BY <2>2 DEF DecisionViews
<1>3. PICK x \in Pairs(P, t) : Current(installed, P[x[1]]) /\ ~Continues(P[x[2]])
  BY DEF Closed
<1>4. x[1] \in DOMAIN P /\ x[2] \in DOMAIN P /\ x[2] \in 1 .. Len(P) /\ Len(P) \in Nat
  BY LenProperties DEF Pairs
<1>5. x \in Pairs(L, t) /\ Current(installed, L[x[1]]) /\ ~Continues(L[x[2]])
  BY <1>2, <1>3, <1>4
<1>6. n < x[2]
  <2> HIDE DEF L, n
  <2> QED BY <1>1, <1>2, <1>5, ReadableClosesOnce
<1> QED BY <1>4, <1>6

\* The state of the chains.
AttemptCount(t) == Cardinality(CurrentPres(installed, ledger, t))
OpenTasks == {t \in Tasks : Pending(installed, ledger, t) # {}}
ClosedTasks == {t \in Tasks : Closed(ledger, t)}

\* A recorded event starts the attempt of a task, reports on its open attempt,
\* or is of no account to the chains.
LEMMA RecordStepsChains ==
  ASSUME TypeOK, ReadableOrFull, NEW e \in Submissions, RecordEvent(e)
  PROVE  \/ /\ \A t \in Tasks : AttemptCount(t)' = AttemptCount(t)
            /\ OpenTasks' = OpenTasks /\ ClosedTasks' = ClosedTasks
         \/ \E t \in Tasks :
              /\ t \notin OpenTasks \union ClosedTasks
              /\ \A u \in Tasks : AttemptCount(u)' = IF u = t THEN AttemptCount(u) + 1 ELSE AttemptCount(u)
              /\ OpenTasks' = OpenTasks \union {t} /\ ClosedTasks' = ClosedTasks
         \/ \E t \in Tasks :
              /\ t \in OpenTasks
              /\ \A u \in Tasks : AttemptCount(u)' = AttemptCount(u)
              /\ OpenTasks' = OpenTasks \ {t}
              /\ ClosedTasks' \in {ClosedTasks, ClosedTasks \union {t}}
<1> DEFINE n == Len(ledger) + 1
<1>1. /\ ledger \in Seq(Submissions) /\ SequenceOK(installed, ledger)
      /\ ledger' = Append(ledger, e) /\ installed' = installed
      /\ ValidEvent(installed, e) /\ EventOK(installed, ledger, e)
      /\ KeyOK(installed, ledger, e)
  BY DEF TypeOK, ReadableOrFull, RecordEvent, CanAppend, EventOK
<1>2. IsEvent(e) /\ e.task \in Tasks /\ e.type \in {"pre", "post"}
  BY LedgerAssumption DEF IsEvent, IsPre, IsPost
<1>3. ASSUME NEW t PROVE IsFiniteSet(CurrentPres(installed, ledger, t))
  <2>1. Len(ledger) \in Nat /\ CurrentPres(installed, ledger, t) \in SUBSET (1 .. Len(ledger))
    BY <1>1, LenProperties DEF CurrentPres
  <2>2. IsFiniteSet(1 .. Len(ledger))
    BY <2>1, FS_Interval
  <2> QED BY <2>1, <2>2, FS_Subset
<1>4. \A t, x : x \in Pairs(ledger, t) => x[1] \in DOMAIN ledger /\ x[2] \in DOMAIN ledger
  BY DEF Pairs
<1>5. CASE e.type = "pre"
  <2>1. SameKey(ledger, e) = {}
    BY <1>1, <1>5 DEF KeyOK
  <2>2. ASSUME NEW t
        PROVE  /\ CurrentPres(installed, ledger, t)' =
                    IF e.task = t /\ Current(installed, e)
                    THEN CurrentPres(installed, ledger, t) \union {n}
                    ELSE CurrentPres(installed, ledger, t)
               /\ Pending(installed, ledger, t)' =
                    IF e.task = t /\ Current(installed, e)
                    THEN Pending(installed, ledger, t) \union {n}
                    ELSE Pending(installed, ledger, t)
               /\ Pairs(ledger, t)' = Pairs(ledger, t)
               /\ \A i \in DOMAIN ledger : ledger'[i] = ledger[i]
               /\ n \notin CurrentPres(installed, ledger, t)
    <3>1. DecisionViews(installed, ledger, ledger', e, t)
      BY <1>1, <1>5, <2>1, DecisionAppended
    <3> QED BY <1>1, <3>1 DEF DecisionViews, CurrentPres, Pending, Pairs
  <2>3. ASSUME NEW t PROVE Closed(ledger, t)' <=> Closed(ledger, t)
    BY <1>1, <1>4, <2>2 DEF Closed
  <2>4. ClosedTasks' = ClosedTasks
    BY <2>3 DEF ClosedTasks
  <2> HIDE DEF n
  <2>5. CASE ~Current(installed, e)
    <3>1. \A t : AttemptCount(t)' = AttemptCount(t)
      BY <2>2, <2>5 DEF AttemptCount
    <3>2. OpenTasks' = OpenTasks
      BY <2>2, <2>5 DEF OpenTasks
    <3> QED BY <2>4, <3>1, <3>2
  <2>6. CASE Current(installed, e)
    <3> DEFINE t == e.task
    <3>1. Pending(installed, ledger, t) = {}
      BY <1>1, <1>5, <2>6 DEF EventOK, AttemptOpens
    <3>2. ~Closed(ledger, t)
      BY <1>1, <1>5, <2>6, ClosedHasNoNext
    <3>3. t \notin OpenTasks \union ClosedTasks
      BY <3>1, <3>2 DEF OpenTasks, ClosedTasks
    <3>4. ASSUME NEW u \in Tasks
          PROVE  AttemptCount(u)' = IF u = t THEN AttemptCount(u) + 1 ELSE AttemptCount(u)
      <4>1. CASE u = t
        <5>1. CurrentPres(installed, ledger, u)' = CurrentPres(installed, ledger, u) \union {n}
              /\ n \notin CurrentPres(installed, ledger, u)
          BY <2>2, <2>6, <4>1
        <5>2. Cardinality(CurrentPres(installed, ledger, u) \union {n}) =
                Cardinality(CurrentPres(installed, ledger, u)) + 1
          BY <1>3, <5>1, FS_AddElement
        <5> QED BY <4>1, <5>1, <5>2 DEF AttemptCount
      <4>2. CASE u # t
        BY <2>2, <4>2 DEF AttemptCount
      <4> QED BY <4>1, <4>2
    <3>5. OpenTasks' = OpenTasks \union {t}
      BY <1>2, <2>2, <2>6 DEF OpenTasks
    <3> QED BY <1>2, <2>4, <3>3, <3>4, <3>5
  <2> QED BY <2>5, <2>6
<1>6. CASE e.type = "post"
  <2>1. PICK i \in SameKey(ledger, e) :
          /\ SameKey(ledger, e) = {i} /\ ledger[i].type = "pre"
          /\ PairAgrees(installed, ledger[i], e)
    BY <1>1, <1>6 DEF KeyOK
  <2>2. i \in DOMAIN ledger
    BY DEF SameKey
  <2>3. /\ \A t : ResultViews(installed, ledger, ledger', i, t)
        /\ ledger'[n] = e /\ installed' = installed
    BY <1>1, <1>6, <2>1, <2>2, ResultAppended DEF DecidedBy
  <2>10. ASSUME NEW t
        PROVE  /\ CurrentPres(installed, ledger, t)' = CurrentPres(installed, ledger, t)
               /\ Pending(installed, ledger, t)' = Pending(installed, ledger, t) \ {i}
               /\ Pairs(ledger, t)' =
                    IF ledger[i].task = t THEN Pairs(ledger, t) \union {<<i, n>>}
                    ELSE Pairs(ledger, t)
               /\ \A k \in DOMAIN ledger : ledger'[k] = ledger[k]
               /\ ~Answered(ledger, i)
    BY <2>3 DEF ResultViews
  <2> HIDE DEF n
  <2>4. \A t \in Tasks : AttemptCount(t)' = AttemptCount(t)
    BY <2>3, <2>10 DEF AttemptCount
  <2>5. ASSUME NEW t, Closed(ledger, t) PROVE Closed(ledger, t)'
    BY <1>1, <1>4, <2>3, <2>10, <2>5 DEF Closed
  <2>6. ASSUME NEW t, Closed(ledger, t)', ~Closed(ledger, t)
        PROVE  ledger[i].task = t /\ Current(installed, ledger[i])
    <3>1. PICK x \in Pairs(ledger, t)' :
            Current(installed, ledger'[x[1]]) /\ ~Continues(ledger'[x[2]])
      BY <1>1, <2>6 DEF Closed
    <3>2. x \notin Pairs(ledger, t)
      BY <1>4, <2>3, <2>10, <2>6, <3>1 DEF Closed
    <3>3. ledger[i].task = t /\ x = <<i, n>>
      BY <2>3, <2>10, <3>1, <3>2
    <3> QED BY <2>2, <2>3, <2>10, <3>1, <3>3
  <2>7. CASE ~Current(installed, ledger[i])
    <3>1. \A t : i \notin Pending(installed, ledger, t)
      BY <2>7 DEF Pending, CurrentPres
    <3>2. OpenTasks' = OpenTasks
      BY <2>3, <2>10, <3>1 DEF OpenTasks
    <3>3. ClosedTasks' = ClosedTasks
      BY <2>5, <2>6, <2>7 DEF ClosedTasks
    <3> QED BY <2>4, <3>2, <3>3
  <2>8. CASE Current(installed, ledger[i])
    <3> DEFINE t == ledger[i].task
    <3>1. t \in Tasks
      BY <1>1, <2>2, LedgerAssumption DEF IsEvent
    <3>2. i \in Pending(installed, ledger, t)
      BY <2>1, <2>2, <2>3, <2>10, <2>8 DEF Pending, CurrentPres
    <3>3. Pending(installed, ledger, t) = {i}
      BY <1>1, <3>2, ReadableHasOnePending
    <3>4. \A u : u # t => i \notin Pending(installed, ledger, u)
      BY DEF Pending, CurrentPres
    <3>5. t \in OpenTasks /\ OpenTasks' = OpenTasks \ {t}
      BY <2>3, <2>10, <3>1, <3>3, <3>4 DEF OpenTasks
    <3>6. ClosedTasks' \in {ClosedTasks, ClosedTasks \union {t}}
      BY <2>5, <2>6, <3>1 DEF ClosedTasks
    <3> QED BY <2>4, <3>1, <3>5, <3>6
  <2> QED BY <2>7, <2>8
<1> QED BY <1>2, <1>5, <1>6

\* The routing ledger implements one chain of attempts for each task, for any
\* tasks, policy and submissions: an attempt starts only when none is open and
\* none has closed the task, and only an open attempt gets a result.
THEOREM LedgerImplementsChains == Spec => ImplementsChains
<1> USE DEF AttemptCount, OpenTasks, ClosedTasks
<1>1. Init => Chains!Init
  <2> SUFFICES ASSUME Init PROVE Chains!Init
    OBVIOUS
  <2>1. \A t : CurrentPres(installed, ledger, t) = {} /\ Pairs(ledger, t) = {}
    BY DEF Init, CurrentPres, Pairs
  <2>2. \A t : Pending(installed, ledger, t) = {} /\ ~Closed(ledger, t)
    BY <2>1 DEF Pending, Closed
  <2>3. Cardinality({}) = 0
    BY FS_EmptySet
  <2> QED BY <2>1, <2>2, <2>3 DEF Chains!Init
<1>2. TypeOK /\ ReadableOrFull /\ [Next]_vars => [Chains!Next]_Chains!vars
  <2> SUFFICES ASSUME TypeOK, ReadableOrFull, [Next]_vars PROVE [Chains!Next]_Chains!vars
    OBVIOUS
  <2>1. ASSUME NEW e \in Submissions, RecordEvent(e) PROVE [Chains!Next]_Chains!vars
    <3>1. CASE /\ \A t \in Tasks : AttemptCount(t)' = AttemptCount(t)
               /\ OpenTasks' = OpenTasks /\ ClosedTasks' = ClosedTasks
      BY <3>1 DEF Chains!vars
    <3>2. ASSUME NEW t \in Tasks, t \notin OpenTasks \union ClosedTasks,
                 \A u \in Tasks : AttemptCount(u)' = IF u = t THEN AttemptCount(u) + 1 ELSE AttemptCount(u),
                 OpenTasks' = OpenTasks \union {t}, ClosedTasks' = ClosedTasks
          PROVE  Chains!Next
      <4>1. Chains!Start(t)
        BY <3>2 DEF Chains!Start
      <4> QED BY <4>1 DEF Chains!Next
    <3>3. ASSUME NEW t \in Tasks, t \in OpenTasks, \A u \in Tasks : AttemptCount(u)' = AttemptCount(u),
                 OpenTasks' = OpenTasks \ {t},
                 ClosedTasks' \in {ClosedTasks, ClosedTasks \union {t}}
          PROVE  Chains!Next
      <4>1. Chains!Report(t)
        BY <3>3 DEF Chains!Report
      <4> QED BY <4>1 DEF Chains!Next
    <3> QED BY <2>1, <3>1, <3>2, <3>3, RecordStepsChains
  <2>2. CASE UNCHANGED vars
    <3>1. \A t : /\ CurrentPres(installed, ledger, t)' = CurrentPres(installed, ledger, t)
                 /\ Pending(installed, ledger, t)' = Pending(installed, ledger, t)
                 /\ Closed(ledger, t)' <=> Closed(ledger, t)
      BY <2>2 DEF vars, Closed
    <3> QED BY <3>1 DEF Chains!vars
  <2> QED BY <2>1, <2>2 DEF Next
<1> QED BY <1>1, <1>2, TypeCorrect, AlwaysReadableOrFull, PTL DEF Spec, ImplementsChains, Chains!Spec
=============================================================================
