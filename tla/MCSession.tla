----------------------------- MODULE MCSession -----------------------------
(* Sessions with a sliding window, with no limit, and with a context that    *)
(* some of the prompts exceed.                                                *)
EXTENDS Session

MCOptions == {[window |-> 2, context |-> 3], [window |-> 0, context |-> 0],
              [window |-> 0, context |-> 4]}
=============================================================================
