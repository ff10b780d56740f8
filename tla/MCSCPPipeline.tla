---------------------------- MODULE MCSCPPipeline ----------------------------
(* Instances of SCPPipeline for TLC: the constants that a cfg cannot write.   *)
EXTENDS SCPPipeline

OkAndRetry == {"ok", "retry"}
OkSoftAndBad == {"ok", "soft", "bad"}
=============================================================================
