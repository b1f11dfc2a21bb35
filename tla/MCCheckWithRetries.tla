------------------------- MODULE MCCheckWithRetries -------------------------
(* Instance of CheckWithRetries for TLC.                                    *)
EXTENDS CheckWithRetries

DelaysToTry ==
  {[base |-> 3, max |-> 7], [base |-> 9, max |-> 8], [base |-> 2, max |-> -1],
   [base |-> 0, max |-> 7]}
=============================================================================
