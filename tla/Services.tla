------------------------------- MODULE Services ------------------------------
(***************************************************************************)
(* The components around the ingestion job, side by side: they share no    *)
(* state, and a behaviour runs one of them.                                *)
(***************************************************************************)
EXTENDS ReadPath, RateLimiter, EmailVerification, FxRates, WebSession, AdapterFetch, Normalizers,
        Matching, Calculation, Requests

VARIABLE component

Parts == {"read", "rate", "verification", "fx", "session", "fetch", "aws", "azure", "gcp", "doc",
          "match", "calculation", "requests"}

(* The callers of a rate limit are fixed before the first of them calls.   *)
ServicesInit ==
  /\ component \in Parts
  /\ ReadInit /\ RateInit /\ VerificationInit /\ FxInit /\ SessionInit /\ FetchInit
  /\ AwsInit /\ AzureInit /\ GcpInit /\ DocInit /\ MatchInit /\ CalculationInit /\ RequestsInit
  /\ component # "rate" => caller = CHOOSE c \in Callers : TRUE

jobVars == <<fetchVars, awsVars, azureVars, gcpVars, docVars>>
priceVars == <<readVars, fxVars, matchVars, calcVars, requestVars>>
peopleVars == <<rateVars, accountVars, sessionVars>>

ServicesNext ==
  \/ /\ component = "read" /\ ReadNext
     /\ UNCHANGED <<component, jobVars, peopleVars, fxVars, matchVars, calcVars, requestVars>>
  \/ /\ component = "fx" /\ FxNext
     /\ UNCHANGED <<component, jobVars, peopleVars, readVars, matchVars, calcVars, requestVars>>
  \/ /\ component = "match" /\ MatchNext
     /\ UNCHANGED <<component, jobVars, peopleVars, readVars, fxVars, calcVars, requestVars>>
  \/ /\ component = "calculation" /\ CalculationNext
     /\ UNCHANGED <<component, jobVars, peopleVars, readVars, fxVars, matchVars, requestVars>>
  \/ /\ component = "requests" /\ RequestsNext
     /\ UNCHANGED <<component, jobVars, peopleVars, readVars, fxVars, matchVars, calcVars>>
  \/ /\ component = "rate" /\ RateNext
     /\ UNCHANGED <<component, jobVars, priceVars, accountVars, sessionVars>>
  \/ /\ component = "verification" /\ VerificationNext
     /\ UNCHANGED <<component, jobVars, priceVars, rateVars, sessionVars>>
  \/ /\ component = "session" /\ SessionNext
     /\ UNCHANGED <<component, jobVars, priceVars, rateVars, accountVars>>
  \/ /\ component = "fetch" /\ FetchNext
     /\ UNCHANGED <<component, priceVars, peopleVars, awsVars, azureVars, gcpVars, docVars>>
  \/ /\ component = "aws" /\ AwsNext
     /\ UNCHANGED <<component, priceVars, peopleVars, fetchVars, azureVars, gcpVars, docVars>>
  \/ /\ component = "azure" /\ AzureNext
     /\ UNCHANGED <<component, priceVars, peopleVars, fetchVars, awsVars, gcpVars, docVars>>
  \/ /\ component = "gcp" /\ GcpNext
     /\ UNCHANGED <<component, priceVars, peopleVars, fetchVars, awsVars, azureVars, docVars>>
  \/ /\ component = "doc" /\ DocNext
     /\ UNCHANGED <<component, priceVars, peopleVars, fetchVars, awsVars, azureVars, gcpVars>>

servicesVars == <<component, jobVars, priceVars, peopleVars>>

(* Nothing that is fair in a component can happen before its first action, *)
(* so the fairness of the others does not bind the one that runs.          *)
ServicesSpec ==
  /\ ServicesInit /\ [][ServicesNext]_servicesVars
  /\ ReadFairness /\ SessionFairness /\ FetchFairness

-----------------------------------------------------------------------------
(* The variables of the component that runs keep their types; the others   *)
(* keep their first values.                                                *)
ServicesTypeOK ==
  CASE component = "read" -> ReadTypeOK
    [] component = "rate" -> RateTypeOK
    [] component = "verification" -> VerificationTypeOK
    [] component = "fx" -> FxTypeOK
    [] component = "session" -> SessionTypeOK
    [] component = "fetch" -> FetchTypeOK
    [] component = "aws" -> AwsTypeOK
    [] component = "azure" -> AzureTypeOK
    [] component = "gcp" -> GcpTypeOK
    [] component = "doc" -> DocTypeOK
    [] component = "match" -> MatchTypeOK
    [] component = "calculation" -> CalculationTypeOK
    [] component = "requests" -> RequestsTypeOK
=============================================================================
