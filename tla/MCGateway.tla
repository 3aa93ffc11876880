------------------------------- MODULE MCGateway -------------------------------
(***************************************************************************)
(* Gateway for TLC: paths of up to three segments, two of which have routes.*)
(***************************************************************************)
EXTENDS Gateway

CONSTANTS r1, system, job, docs

MCRequests == {r1}
MCSegments == {system, job, docs}
MCServices == {system, job}

=============================================================================
