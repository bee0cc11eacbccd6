----------------------------- MODULE MCResolver -----------------------------
(* Two workers, three addresses competing for two slots. *)
EXTENDS Resolver

CONSTANTS w1, w2, w3, a1, a2, a3

MCWorker == {w1, w2}
MCAddr   == {a1, a2, a3}
=============================================================================
