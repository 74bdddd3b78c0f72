--------------------------- MODULE MCCertManager ---------------------------
(* The instance of CertManager that TLC checks: one or two replicas, two     *)
(* webhook configurations and one CRD.                                      *)
EXTENDS CertManager

MCWebhooks == <<"mutating", "validating">>
MCCRDs == <<"crd">>

\* Four faults with one replica, one with two.
MCFaults == <<4, 1>>
=============================================================================
