SPECIFICATION FairSpec
CONSTANTS
  Replicas = {r1, r2}
  Webhooks <- MCWebhooks
  CRDs <- MCCRDs
  Faults <- MCFaults
INVARIANTS CertTypeOK OneRoot HostCert
PROPERTIES Trusted TrustKept
CHECK_DEADLOCK FALSE
