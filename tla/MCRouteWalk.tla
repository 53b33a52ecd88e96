---------------------------- MODULE MCRouteWalk ----------------------------
(***************************************************************************)
(* RouteWalk with the policy the package ships.                            *)
(***************************************************************************)
EXTENDS RouteWalk, DefaultPolicy
=============================================================================
