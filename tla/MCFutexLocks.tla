---------------------------- MODULE MCFutexLocks ----------------------------
(***************************************************************************)
(* Programs for TLC.  Each exercises one lock, and the locks share no      *)
(* state, so the state space is the sum of theirs and not the product.     *)
(***************************************************************************)
EXTENDS FutexLocks, TLC

CONSTANTS t1, t2, t3, t4

MCThreads == {t1, t2, t3, t4}

Run(a, b, c, d, tells_, glitches_) ==
    [ops |-> t1 :> a @@ t2 :> b @@ t3 :> c @@ t4 :> d,
     tells |-> tells_, glitches |-> glitches_]

MCPrograms ==
    { Run(<<"lock">>, <<"lock">>, <<"try_lock", "lock">>, << >>, TRUE, 1),
      Run(<<"lock">>, <<"lock">>, <<"lock">>, <<"lock">>, TRUE, 0),
      Run(<<"consume">>, <<"consume">>, <<"produce_one", "produce_one">>, << >>, TRUE, 0),
      Run(<<"consume">>, <<"consume_timeout">>, <<"produce_all">>, << >>, TRUE, 0),
      Run(<<"read">>, <<"read">>, <<"write">>, << >>, FALSE, 1),
      Run(<<"write">>, <<"write">>, <<"read">>, << >>, TRUE, 1),
      Run(<<"try_read">>, <<"try_write">>, <<"write">>, << >>, TRUE, 0),
      Run(<<"read">>, <<"read">>, <<"read">>, <<"try_write">>, TRUE, 0),
      Run(<<"call_once">>, <<"call_once">>, <<"call_once_force">>, <<"call_once_force">>, TRUE, 1),
      Run(<<"park", "park">>, <<"unpark">>, <<"unpark">>, << >>, TRUE, 1),
      Run(<<"park_timeout", "park">>, <<"unpark">>, <<"unpark">>, << >>, TRUE, 1) }
=============================================================================
