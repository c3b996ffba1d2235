---------------------------- MODULE AwsNormalizer ----------------------------
(***************************************************************************)
(* internal/adapter/provider/aws/normalize.go, kubernetes.go and           *)
(* serverless.go: the price list is read as a stream of top-level keys;    *)
(* the products are triaged, and then the on-demand terms of those kept    *)
(* give the prices.  A document with one product and one term stands for   *)
(* the rest: products are triaged independently of each other.             *)
(*                                                                         *)
(* A product is what the triage reads of it: the words found in usagetype, *)
(* group, operation and description, and whether the curated maps know its *)
(* location and the value (class, transfer type, engine, tier, unit) that  *)
(* its kind is named by.                                                   *)
(***************************************************************************)
EXTENDS Rules

CONSTANTS AwsProducts, AwsOffers, AwsOfferCode

AwsServices == {"AmazonEC2", "AmazonS3", "AWSDataTransfer", "AmazonRDS", "AmazonRDSStorage", "AmazonAurora",
                "AmazonDynamoDB", "AmazonEKS", "AWSLambda"}

ASSUME AwsAssumption ==
  /\ AwsProducts \subseteq
       [family : STRING, service : STRING, machine : {"", "plain", "other"},
        words : SUBSET STRING, location : {"known", "unknown"}, value : {"", "known", "unknown"}]
  /\ AwsOffers \subseteq {"price", "tiered", "noUSD", "invalid", "noOnDemand"}
  /\ AwsOfferCode \in AwsServices

VARIABLES
  awsProduct,  \* the product in the document
  awsRead,     \* the top-level keys read so far
  awsVerdict,  \* what the triage made of the product
  awsOutcome   \* of Normalize

awsVars == <<awsProduct, awsRead, awsVerdict, awsOutcome>>

NoProduct == [family |-> "", service |-> "", machine |-> "", words |-> {},
              location |-> "known", value |-> ""]

AwsTypeOK ==
  /\ awsProduct \in AwsProducts \cup {NoProduct}
  /\ awsRead \subseteq {"offerCode", "products", "terms"}
  /\ awsVerdict \in {"", "kept", "quarantined", "ignored"}
  /\ awsOutcome \in {"", "observed", "nothing", "failed"}

AwsInit ==
  /\ awsProduct = NoProduct
  /\ awsRead = {} /\ awsVerdict = "" /\ awsOutcome = ""

-----------------------------------------------------------------------------
(* What a product is: the first of these tests that it passes.              *)

Mentions(p, words) == p.words \cap words # {}

\* A shared Linux machine without other software, whose capacity is in use.
IsAwsCompute(p) == p.family \in {"", "Compute Instance"} /\ p.machine = "plain"

IsAwsStorage(p) == /\ p.family \in {"", "Storage"} /\ p.value # ""
                   /\ p.words = {} \/ Mentions(p, {"ByteHrs", "Storage"})

IsAwsNetwork(p) ==
  /\ p.family \notin {"Fee", "Storage", "Compute Instance"}
  /\ \/ p.family = "Data Transfer"
     \/ p.service = "AWSDataTransfer"
        /\ Mentions(p, {"DataTransfer-Out", "AWS-Out-Bytes", "fromLocation"})

IsAwsNoSQL(p) ==
  \/ p.service = "AmazonDynamoDB"
  \/ p.family = "Database" /\ Mentions(p, {"ReadCapacityUnit", "WriteCapacityUnit", "RequestUnits"})
  \/ p.family = "Database Storage" /\ Mentions(p, {"TimedStorage", "DDB"})

IsAwsKubernetes(p) ==
  /\ ~Mentions(p, {"EKS-Auto", "Auto Mode", "EKS Auto", "Fargate", "Controller", "CRD",
                   "Capabilities", "Capability", "HybridNodes", "Hybrid Node",
                   "ArgoCD", "KRO", "ACK"})
  /\ p.service = "AmazonEKS" \/ Mentions(p, {"AmazonEKS"})

IsAwsServerless(p) ==
  p.service = "AWSLambda" \/ p.family = "Serverless" \/ Mentions(p, {"Lambda", "AWS-Lambda"})

IsAwsDatabase(p) ==
  /\ p.service # "AmazonDynamoDB" /\ ~Mentions(p, {"DDB"})
  /\ \/ p.family \in {"Database Instance", "Database Storage"}
     \/ p.service \in {"AmazonRDS", "AmazonAurora"}

AwsKinds == <<"compute", "storage", "network", "nosql", "kubernetes", "serverless",
              "database", "other">>

AwsKind(p) ==
  LET test == <<IsAwsCompute(p), IsAwsStorage(p), IsAwsNetwork(p), IsAwsNoSQL(p),
                IsAwsKubernetes(p), IsAwsServerless(p), IsAwsDatabase(p), TRUE>>
  IN AwsKinds[Min({i \in DOMAIN test : test[i]})]

-----------------------------------------------------------------------------
(* Line items of a known kind that are not modelled.                        *)

\* None of DynamoDB's six meters: provisioned and on-demand reads and writes,
\* standard and infrequent storage.
NoSQLOutOfScope(p) ==
  /\ ~Mentions(p, {"ReadCapacityUnit", "WriteCapacityUnit", "RequestUnits", "TimedStorage",
                   "DDB-ReadUnits", "DDB-WriteUnits", "DDB-OnDemandReadUnits",
                   "DDB-OnDemandWriteUnits", "DDB-StorageIA", "DDB-Storage"})
  /\ p.family # "Database Storage"

ServerlessOutOfScope(p) ==
  \/ Mentions(p, {"Edge", "Provisioned", "SnapStart", "Snapshot", "Event-Poller",
                  "SQS-Event-Poller", "Storage", "Storage-Duration", "Managed-Instances"})
  \/ ~Mentions(p, {"Requests", "Request", "Duration", "GB-Second"})

DatabaseOutOfScope(p) == p.family \notin {"Database Instance", "Database Storage"}

-----------------------------------------------------------------------------
(* The rules of each kind.                                                  *)

\* The service is the product's, or else the document's offer code if it has
\* been read; storage and transfer do not look at it.
UnknownService(p, offerCode) ==
  <<(IF p.service = "" THEN offerCode ELSE p.service) \notin AwsServices, "quarantined">>
UnknownLocation(p) == <<p.location = "unknown", "quarantined">>
UnknownValue(p) == <<p.value # "known", "quarantined">>

AwsComputeRules(p, offerCode) == <<UnknownService(p, offerCode), UnknownLocation(p)>>

AwsStorageRules(p) == <<UnknownLocation(p), UnknownValue(p)>>

\* A line without a description is plain egress.
AwsNetworkRules(p) == <<UnknownLocation(p), <<p.value = "unknown", "quarantined">> >>

AwsNoSQLRules(p, offerCode) ==
  <<UnknownService(p, offerCode), UnknownLocation(p), <<NoSQLOutOfScope(p), "ignored">> >>

AwsKubernetesRules(p, offerCode) ==
  <<UnknownService(p, offerCode), UnknownLocation(p), UnknownValue(p)>>

AwsServerlessRules(p, offerCode) ==
  <<UnknownService(p, offerCode), <<ServerlessOutOfScope(p), "ignored">>,
    UnknownLocation(p), UnknownValue(p)>>

\* A storage line of RDS keeps an engine that is not known as none.
AwsDatabaseRules(p, offerCode) ==
  <<UnknownService(p, offerCode), UnknownLocation(p), <<DatabaseOutOfScope(p), "ignored">>,
    <<p.family = "Database Instance" /\ p.value # "known", "quarantined">> >>

\* parseSingleProduct.
Triage(p, offerCode) ==
  LET kind == AwsKind(p) IN
  Decide((CASE kind = "compute"    -> AwsComputeRules(p, offerCode)
            [] kind = "storage"    -> AwsStorageRules(p)
            [] kind = "network"    -> AwsNetworkRules(p)
            [] kind = "nosql"      -> AwsNoSQLRules(p, offerCode)
            [] kind = "kubernetes" -> AwsKubernetesRules(p, offerCode)
            [] kind = "serverless" -> AwsServerlessRules(p, offerCode)
            [] kind = "database"   -> AwsDatabaseRules(p, offerCode)
            [] OTHER               -> << <<TRUE, "ignored">> >>)
         \o << <<TRUE, "kept">> >>)

-----------------------------------------------------------------------------
(* The document.                                                            *)

awsReading == awsOutcome = ""

ReadOfferCode ==
  /\ awsReading /\ "offerCode" \notin awsRead
  /\ awsRead' = awsRead \cup {"offerCode"}
  /\ UNCHANGED <<awsProduct, awsVerdict, awsOutcome>>

ReadProducts ==
  /\ awsReading /\ "products" \notin awsRead
  /\ awsRead' = awsRead \cup {"products"}
  /\ awsProduct' \in AwsProducts
  /\ awsVerdict' = Triage(awsProduct', IF "offerCode" \in awsRead THEN AwsOfferCode ELSE "")
  /\ UNCHANGED awsOutcome

\* Terms before the products are a permanent failure; a price that is not a
\* number, and terms none of which are on demand, fail the document; a tiered
\* term, or one without USD, is skipped.
ReadTerms ==
  /\ awsReading /\ "terms" \notin awsRead
  /\ awsRead' = awsRead \cup {"terms"}
  /\ \E offer \in AwsOffers :
       awsOutcome' = CASE "products" \notin awsRead -> "failed"
                       [] offer = "noOnDemand" -> "failed"
                       [] awsVerdict = "kept" /\ offer = "invalid" -> "failed"
                       [] awsVerdict = "kept" /\ offer = "price" -> "observed"
                       [] OTHER -> ""
  /\ UNCHANGED <<awsProduct, awsVerdict>>

\* The document ends, also where a key is missing.
AwsDocumentEnds ==
  /\ awsReading
  /\ awsOutcome' = "nothing"
  /\ UNCHANGED <<awsProduct, awsRead, awsVerdict>>

AwsNext == ReadOfferCode \/ ReadProducts \/ ReadTerms \/ AwsDocumentEnds

AwsSpec == AwsInit /\ [][AwsNext]_awsVars

-----------------------------------------------------------------------------

\* The product, had the curated maps known what it names.
AwsNamed(p) ==
  [p EXCEPT !.service = IF @ \in AwsServices THEN @ ELSE "", !.location = "known",
            !.value = IF @ = "unknown" THEN "known" ELSE @]

\* It names nothing unknown that the code looks up: storage and transfer do not
\* look at the service, a machine is given no size where it has none, a data
\* model falls back to document, and a storage line of RDS has no engine.
AwsUnread(p) ==
  LET kind == AwsKind(p) IN
  /\ p.location = "known"
  /\ p.service \in AwsServices \cup {""} \/ kind \in {"storage", "network"}
  /\ \/ p.value # "unknown" \/ kind \in {"compute", "nosql"}
     \/ kind = "database" /\ p.family = "Database Storage"

\* Taxonomy drift surfaces (ADR 0037): a product that would be kept, if only the
\* curated maps knew its service, location and value, is quarantined if they do
\* not: it is neither ignored nor does it give a price.  A name that is not
\* looked up does not keep the product back.
AwsDriftSurfaces ==
  LET p == awsProduct IN
  "products" \in awsRead /\ p # AwsNamed(p) /\ Triage(AwsNamed(p), AwsOfferCode) = "kept" =>
    IF AwsUnread(p) THEN awsVerdict = "kept" \/ p.service = ""
    ELSE awsVerdict = "quarantined" /\ awsOutcome # "observed"
=============================================================================
