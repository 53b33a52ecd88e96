---------------------------- MODULE MCIssueReport ----------------------------
(***************************************************************************)
(* Values of the constants of IssueReport for model checking.              *)
(***************************************************************************)
EXTENDS IssueReport, TLC

CONSTANTS TaskA, TaskB, Reporter1, Reporter2, UrlA, UrlB

SameNames == Permutations(Tasks) \union Permutations(Reporters) \union Permutations(Urls)
=============================================================================
