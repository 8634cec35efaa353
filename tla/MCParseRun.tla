------------------------------ MODULE MCParseRun ------------------------------
(* Sources that share the budget: one whose files a worker can parse, one  *)
(* that parses inline, and one that has no files.                          *)
EXTENDS ParseRun, TLC

CONSTANTS claude, cursor, codex

TwoOneNone == claude :> 2 @@ cursor :> 1 @@ codex :> 0
==============================================================================
