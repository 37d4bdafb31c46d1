------------------------ MODULE MC_MasterActivation ------------------------
(* Three activations race over three versions of one scope and one version *)
(* of another.                                                             *)
EXTENDS MasterActivation

CONSTANTS v1, v2, v3, w1, north, south, t1, t2, t3

MCVersion == {v1, v2, v3, w1}
MCScope == {north, south}
MCHome == [v \in MCVersion |-> IF v = w1 THEN south ELSE north]
MCTxn == {t1, t2, t3}
=============================================================================
