------------------------------ MODULE TaskChains ------------------------------
(***************************************************************************)
(* What the routing ledger promises its readers about each task: a chain   *)
(* of attempts, one at a time, that some result closes for good.           *)
(***************************************************************************)
EXTENDS Naturals

CONSTANT Tasks

VARIABLES
  count,    \* how many attempts each task has started
  open,     \* the tasks whose newest attempt has no result yet
  closed    \* the tasks that no attempt can continue

vars == <<count, open, closed>>

Init ==
  /\ count = [t \in Tasks |-> 0]
  /\ open = {}
  /\ closed = {}

Start(t) ==
  /\ t \notin open \union closed
  /\ count' = [count EXCEPT ![t] = @ + 1]
  /\ open' = open \union {t}
  /\ UNCHANGED closed

\* A result either lets the task continue or closes it.
Report(t) ==
  /\ t \in open
  /\ open' = open \ {t}
  /\ closed' \in {closed, closed \union {t}}
  /\ UNCHANGED count

Next == \E t \in Tasks : Start(t) \/ Report(t)

Spec == Init /\ [][Next]_vars
=============================================================================
