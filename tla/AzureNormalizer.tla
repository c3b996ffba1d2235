--------------------------- MODULE AzureNormalizer ---------------------------
(***************************************************************************)
(* internal/adapter/provider/azure/normalize.go, kubernetes.go and         *)
(* serverless.go: a page of the retail price list is triaged item by item, *)
(* and the items that give no price are counted as ignored, put in         *)
(* quarantine, or left out of both.                                        *)
(*                                                                         *)
(* An item is what the triage reads of it: the category its service maps   *)
(* to, whether the curated maps know its region and the value it is named  *)
(* by (class, transfer type, engine, tier, or architecture), the words in  *)
(* its product, SKU and meter names, and its unit of measure.              *)
(***************************************************************************)
EXTENDS Rules

CONSTANTS AzureItems,     \* the items a page may hold
          AzurePageSize   \* bound on the items of a page

\* What azureCatalogMap maps a service to.
AzureCategories == {"compute", "storage", "network", "database_rdbms", "database_nosql",
                    "kubernetes", "serverless"}

ASSUME AzureAssumption ==
  /\ AzureItems \subseteq
       [consumption : BOOLEAN, category : AzureCategories \cup {"unknown"},
        region : {"known", "unknown"},
        value : {"known", "unknown"}, unit : {"month", "gigabyte", "hour", "unknown"},
        numeric : BOOLEAN, sized : BOOLEAN, tiered : BOOLEAN, words : SUBSET STRING]
  /\ AzurePageSize \in Nat

VARIABLES
  azureItem,     \* the item that was read last
  azureVerdict,  \* what became of it
  azurePage,     \* the counts of the page
  azureOutcome   \* of Normalize

azureVars == <<azureItem, azureVerdict, azurePage, azureOutcome>>

NoItem == [consumption |-> FALSE]

AzureVerdicts == {"observed", "quarantined", "ignored", "dropped", "failed"}

AzureTypeOK ==
  /\ azureItem \in AzureItems \cup {NoItem}
  /\ azureVerdict \in AzureVerdicts \cup {""}
  /\ azurePage \in [{"observed", "quarantined", "ignored", "dropped"} -> 0..AzurePageSize]
  /\ azureOutcome \in {"", "page", "failed"}

AzureInit ==
  /\ azureItem = NoItem
  /\ azureVerdict = ""
  /\ azurePage = [count \in {"observed", "quarantined", "ignored", "dropped"} |-> 0]
  /\ azureOutcome = ""

-----------------------------------------------------------------------------
(* The rules of each category.  "dropped" is a continue of the loop, which  *)
(* skips the count of ignored items at its end.                             *)

AzureMentions(i, words) == i.words \cap words # {}

\* A Linux machine at its list price, with a size in its name.
AzureComputeRules(i) ==
  << <<AzureMentions(i, {"Windows", "Spot", "Low Priority"}) \/ ~i.sized, "dropped">> >>

AzureStorageRules(i) ==
  << <<\/ AzureMentions(i, {"Storage Tasks", "Operations", "Transactions", "Storage Mover", "Data Box"})
       \/ i.unit # "month", "dropped">>,
     <<i.value = "unknown", "quarantined">> >>

\* Only the first tier of a graduated price is supported, and only where the
\* tier starts at zero.
AzureNetworkRules(i) ==
  << <<i.tiered, "dropped">>,
     <<i.value = "unknown", "quarantined">> >>

\* A mutant: an engine that is not known is a price.
AzureDatabaseUnchecked(i) == << >>

AzureDatabaseRules(i) == << <<i.value = "unknown", "quarantined">> >>

\* A data model that is unknown falls back to document: it is not drift.
AzureNoSQLRules(i) ==
  << <<i.unit \in {"month", "gigabyte"} \/ AzureMentions(i, {"Data Stored", "Storage"}), "observed">>,
     <<AzureMentions(i, {"1M RUs", "Serverless"}), "observed">>,
     <<AzureMentions(i, {"100 RU", "RU/s", "Request Units", "Cosmos DB"}), "observed">>,
     <<TRUE, "dropped">> >>

AzureKubernetesRules(i) ==
  << <<~AzureMentions(i, {"Azure Kubernetes Service", "kubernetes"}), "ignored">>,
     <<i.value = "unknown", "quarantined">> >>

AzureServerlessRules(i) ==
  << <<AzureMentions(i, {"Premium"}), "ignored">>,
     <<~AzureMentions(i, {"Functions", "Azure Functions", "Flex Consumption", "Executions"}), "ignored">>,
     <<~AzureMentions(i, {"Executions", "Execution Time", "Execution", "Time"}), "ignored">>,
     <<i.value = "unknown", "quarantined">>,
     <<i.unit = "unknown", "quarantined">> >>

AzureCategoryRules(i) ==
  CASE i.category = "compute"        -> AzureComputeRules(i)
    [] i.category = "storage"        -> AzureStorageRules(i)
    [] i.category = "network"        -> AzureNetworkRules(i)
    [] i.category = "database_rdbms" -> AzureDatabaseRules(i)
    [] i.category = "database_nosql" -> AzureNoSQLRules(i)
    [] i.category = "kubernetes"     -> AzureKubernetesRules(i)
    [] i.category = "serverless"     -> AzureServerlessRules(i)
    [] OTHER                         -> << >>

\* Before its category's rules: the price model, the service, the region and
\* the number.
AzureTriage(i) ==
  Decide(<< <<~i.consumption, "ignored">>,
            <<i.category = "unknown", "quarantined">>,
            <<i.region = "unknown", "quarantined">>,
            <<~i.numeric, "failed">> >>
         \o AzureCategoryRules(i) \o << <<TRUE, "observed">> >>)

-----------------------------------------------------------------------------
(* The page.                                                                *)

azureReading == azureOutcome = ""

azureRead == azurePage["observed"] + azurePage["quarantined"]
               + azurePage["ignored"] + azurePage["dropped"]

ReadItem ==
  /\ azureReading /\ azureRead < AzurePageSize
  /\ azureItem' \in AzureItems
  /\ azureVerdict' = AzureTriage(azureItem')
  /\ IF azureVerdict' = "failed"
       THEN azureOutcome' = "failed" /\ UNCHANGED azurePage
       ELSE /\ azurePage' = [azurePage EXCEPT ![azureVerdict'] = @ + 1]
            /\ UNCHANGED azureOutcome

AzurePageEnds ==
  /\ azureReading
  /\ azureOutcome' = "page"
  /\ UNCHANGED <<azureItem, azureVerdict, azurePage>>

AzureNext == ReadItem \/ AzurePageEnds

AzureSpec == AzureInit /\ [][AzureNext]_azureVars

-----------------------------------------------------------------------------

\* The item, had the curated maps known its region, value and unit.
AzureNamed(i) ==
  [i EXCEPT !.region = "known", !.value = "known", !.unit = IF @ = "unknown" THEN "hour" ELSE @]

\* It names nothing unknown that the code looks up: a machine without a size it
\* knows has none, a data model falls back to document, and units are a matter
\* of serverless meters only.
AzureUnread(i) ==
  /\ i.region = "known"
  /\ i.value = "known" \/ i.category \in {"compute", "database_nosql"}
  /\ i.unit # "unknown" \/ i.category # "serverless"

\* Taxonomy drift surfaces (ADR 0037): an item at list price of a service or a
\* region that the curated maps do not know is quarantined before anything
\* about it is found out of scope; and one that would be a price, if only they
\* knew its class, transfer type, engine, tier, architecture or unit, is
\* quarantined.  A name that is not looked up does not keep it from its price.
AzureDriftSurfaces ==
  LET i == azureItem IN
  azureVerdict # "" /\ i.consumption =>
    /\ "unknown" \in {i.category, i.region} => azureVerdict = "quarantined"
    /\ i # AzureNamed(i) /\ AzureTriage(AzureNamed(i)) = "observed" =>
         azureVerdict = IF AzureUnread(i) THEN "observed" ELSE "quarantined"
=============================================================================
