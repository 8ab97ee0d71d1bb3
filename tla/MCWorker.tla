------------------------------- MODULE MCWorker --------------------------------
(* Instances of Worker for TLC. *)
EXTENDS Worker, TLC

CONSTANTS load, wipe, ask, g1

\* A preparation and a reset around a query that does not parse, and a health
\* request.
MCKind == load :> "prepare" @@ wipe :> "reset" @@ ask :> "query"
MCPayload == load :> g1 @@ wipe :> Garbage @@ ask :> Garbage
MCHeader == load :> g1 @@ wipe :> NoHeader @@ ask :> NoHeader
=============================================================================
