----------------------------- MODULE MCRunBatch -----------------------------
(* Two features, the first of which expects one unauthenticated proxied    *)
(* connection (features/client/http_proxy/config.json).                    *)
EXTENDS RunBatch

MCExpect ==
  [f \in 1..MaxFeatures |->
     [k \in Kinds |-> IF f = 1 /\ k = "unauthed" THEN 1 ELSE 0]]
=============================================================================
