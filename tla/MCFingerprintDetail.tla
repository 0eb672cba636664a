------------------------ MODULE MCFingerprintDetail ------------------------
(* One fingerprint's page by itself, opened by a link or by its URL.       *)
EXTENDS FingerprintDetail
=============================================================================
