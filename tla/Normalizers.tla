----------------------------- MODULE Normalizers ----------------------------
(***************************************************************************)
(* The normalizers of all providers (internal/adapter/provider/<p>), and   *)
(* what docs/adr/0037 asks of every one of them.                           *)
(***************************************************************************)
EXTENDS AwsNormalizer, AzureNormalizer, GcpNormalizer, DocNormalizers

(* Drift surfaces (docs/adr/0037): an item of the category asked for that  *)
(* a normalizer can read but not classify is quarantined or fails the      *)
(* fetch, whichever provider's document it is in, unless the code passes   *)
(* it over, against the decision: as GCP's machine types and parts of them *)
(* (GcpPassedOver) and Oracle's fixed shapes and products                  *)
(* (OraclePassesOver), and these do leave no trace.  Names that the code   *)
(* does not look up are not drift to it (AwsUnread, AzureUnread,           *)
(* GcpUnread).                                                             *)
DriftSurfaces == AwsDriftSurfaces /\ AzureDriftSurfaces /\ GcpDriftSurfaces /\ DocDriftSurfaces

=============================================================================
