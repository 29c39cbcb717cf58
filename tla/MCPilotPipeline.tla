--------------------------- MODULE MCPilotPipeline ---------------------------
(***************************************************************************)
(* An instance of PilotPipeline for TLC.                                   *)
(***************************************************************************)
EXTENDS PilotPipeline

CONSTANTS c1, c2

MCCells == <<c1, c2>>
MCUnfinished == {<<c2, 1>>}
MCUnapplied == {<<c1, 1>>}
\* The second release refuses a log of the first, the third one of its own.
MCRefused == {<<c2, 1, 2>>, <<c2, 3, 3>>}
=============================================================================
