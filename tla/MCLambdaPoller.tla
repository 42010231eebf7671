--------------------------- MODULE MCLambdaPoller ---------------------------
(* An instance of LambdaPoller for TLC: two messages, two mappings.        *)
EXTENDS LambdaPoller

CONSTANTS m1, m2

TwoMsgs == {m1, m2}

TwoConfigs ==
  {[unmatched |-> {m2, 2}, windowed |-> FALSE, bisect |-> FALSE, size |-> 3],
   [unmatched |-> {}, windowed |-> TRUE, bisect |-> TRUE, size |-> 2]}
=============================================================================
