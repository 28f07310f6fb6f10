----------------------------- MODULE MCFluxMonitor -----------------------------
(* The constants of FluxMonitor for TLC.                                    *)
EXTENDS FluxMonitor

OneOther == {"other"}
OnePrice == {100}
=============================================================================
