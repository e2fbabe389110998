--------------------------- MODULE MCRouterHistory ---------------------------
(***************************************************************************)
(* The instances of MCRouter, for Router with its history variable.        *)
(***************************************************************************)
EXTENDS MCRouter, RouterHistory

\* The properties of this instance rest on it.
ASSUME RoutesAreHonest == HonestCosts

=============================================================================
