------------------------------- MODULE MCLedger -------------------------------
(* Two files in the usual directories, one of them in a custom one too.    *)
EXTENDS Ledger, TLC

CONSTANTS g, h

Few == {g :> 1 @@ h :> 0, g :> 1 @@ h :> 1}
==============================================================================
