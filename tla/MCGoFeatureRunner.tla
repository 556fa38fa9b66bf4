-------------------------- MODULE MCGoFeatureRunner --------------------------
(***************************************************************************)
(* Two features; a batch of both, a batch of one or the other, and one     *)
(* feature in the batches of its two variants, after another or alone.     *)
(***************************************************************************)
EXTENDS GoFeatureRunner

Batch(v, fs) == [variant |-> v, features |-> fs]

MCPlans ==
  {<<Batch("", <<"a", "b">>)>>,
   <<Batch("", <<"a">>), Batch("x", <<"b">>), Batch("y", <<"b">>)>>}
=============================================================================
