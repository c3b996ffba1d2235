---------------------------- MODULE GcpNormalizer ----------------------------
(***************************************************************************)
(* internal/adapter/provider/gcp/normalize.go, kubernetes.go and           *)
(* serverless.go: the pages of the billing catalog, normalized for one     *)
(* category.  Compute Engine and Cloud SQL publish the price of a core and *)
(* of a gigabyte of memory; they are collected over all pages, and the     *)
(* machine types are priced from them when the stream has ended.           *)
(*                                                                         *)
(* A SKU is what the triage reads of it: the category its service maps to, *)
(* whether it is sold on demand, its first rate, whether it is tiered and  *)
(* then the first of its later rates that is not zero, its usage unit,     *)
(* whether the curated maps know the value it is named by (class, transfer *)
(* type, engine, tier, architecture), whether a machine type can be read   *)
(* from it, and the words in its description and resource group.  Its      *)
(* region is a hub, another one that is mapped, or unknown.                *)
(***************************************************************************)
EXTENDS Rules

CONSTANTS GcpSkus,      \* the SKUs the stream may hold
          GcpTargets,   \* the categories of the adapters
          GcpPageSkus,  \* bound on the SKUs of a page
          GcpPages      \* bound on the pages of a stream

GcpPrices == {"low", "high"}

GcpCategories == {"compute", "storage", "network", "database_rdbms", "database_nosql",
                  "kubernetes", "serverless"}

ASSUME GcpAssumption ==
  /\ GcpSkus \subseteq
       [category : GcpCategories \cup {""}, onDemand : BOOLEAN, family : {"", "Compute", "other"},
        price : {"none", "invalid", "zero"} \cup GcpPrices, tiered : BOOLEAN,
        later : {"none", "invalid"} \cup GcpPrices,
        unit : {"hour", "month", "count", "gigabyte"}, region : {"hub", "other", "unknown"},
        value : {"known", "unknown"}, shaped : BOOLEAN, words : SUBSET STRING]
  /\ GcpTargets \subseteq GcpCategories
  /\ GcpPageSkus \in Nat /\ GcpPages \in Nat

VARIABLES
  gcpTarget,    \* the category of the adapter
  gcpSku,       \* the SKU read last
  gcpVerdict,   \* what became of it
  gcpAt,        \* pages read, and SKUs read of this page
  gcpParts,     \* the component prices collected, "" where there is none
  gcpOffered,   \* every component price that the stream offered
  gcpOutcome    \* of the stream

gcpVars == <<gcpTarget, gcpSku, gcpVerdict, gcpAt, gcpParts, gcpOffered, gcpOutcome>>

NoSku == [category |-> ""]

GcpPartNames == {"core", "ram"}

GcpTypeOK ==
  /\ gcpTarget \in GcpTargets \cup {""}
  /\ gcpSku \in GcpSkus \cup {NoSku}
  /\ gcpVerdict \in {"", "observed", "quarantined", "ignored", "nothing", "failed"}
  /\ gcpAt \in [pages : 0..GcpPages, skus : 0..GcpPageSkus]
  /\ gcpParts \in [GcpPartNames -> GcpPrices \cup {""}]
  /\ gcpOffered \subseteq GcpPartNames \X GcpPrices
  /\ gcpOutcome \in {"", "failed", "direct", "composed"}

GcpInit ==
  /\ gcpTarget = "" /\ gcpSku = NoSku /\ gcpVerdict = ""
  /\ gcpAt = [pages |-> 0, skus |-> 0]
  /\ gcpParts = [part \in GcpPartNames |-> ""]
  /\ gcpOffered = {}
  /\ gcpOutcome = ""

-----------------------------------------------------------------------------
(* What a SKU is.                                                           *)

GcpMentions(s, words) == s.words \cap words # {}

\* Egress, by its words, that is not one of the auxiliary network services (a
\* word for each group of them) and not billed by the hour, month or piece.
IsGcpNetwork(s) ==
  /\ s.onDemand
  /\ ~GcpMentions(s, {"IP address", "to Google Services", "Peering", "CDN", "Replication",
                      "Data Transfer between", "Load Balancing", "NAT", "Router", "Armor",
                      "Firewall", "Private Service Connect", "Certificate", "VPN", "Interconnect"})
  /\ s.unit \notin {"hour", "month", "count"} \/ s.price = "none"
  /\ GcpMentions(s, {"Egress", "Data Transfer", "Internet", "Inter-region", "Intra-region", "Inter-zone"})

IsGcpComputeInstance(s) ==
  /\ s.onDemand /\ s.family \in {"", "Compute"}
  /\ ~GcpMentions(s, {"Windows", "SQL Server", "RHEL", "SLES", "Spot", "Preemptible", "Commitment"})

\* A line that names both core and memory is a whole machine.
IsGcpComputeComponent(s) ==
  /\ s.onDemand
  /\ ~GcpMentions(s, {"Windows", "SQL Server", "RHEL", "SLES", "Spot", "Preemptible", "Commitment",
                      "Sole Tenancy", "GPU", "Hyperdisk"})
  /\ GcpMentions(s, {"Instance Core", "Core running"}) # GcpMentions(s, {"Instance Ram", "Ram running"})

IsGcpStorage(s) ==
  /\ s.onDemand /\ s.unit = "month" /\ s.price # "none"
  /\ ~GcpMentions(s, {"Tag Binding", "Autoclass", "Early Delete", "Retrieval", "Operations Class",
                      "Replication", "Data Box"})
  /\ GcpMentions(s, {"Standard", "Nearline", "Coldline", "Archive", "DRA", "Regional",
                     "Multi-Regional", "Dual-Region", "Storage"})

IsGcpKubernetes(s) ==
  /\ s.onDemand
  /\ ~GcpMentions(s, {"Commitment", "Discount", "Autopilot", "Pod", "CPU", "Memory", "Storage",
                      "PD", "SSD", "Accelerator", "Backup", "Security Posture"})

IsGcpDatabase(s) ==
  /\ s.onDemand
  /\ ~GcpMentions(s, {"Network", "Egress", "Data Transfer", "Internet", "Commitment", "Discount", "License"})
  /\ GcpMentions(s, {"Cloud SQL", "AlloyDB", "ApplicationServices", "SQLServer", "PostgreSQL",
                     "MySQL", "PD", "Storage", "Instance", "Core", "RAM"})

\* Surcharges, provisioned throughput, backups, network, replicas, discounts,
\* shared cores, exports and first-generation tiers, by a word of each.
IsOutOfScopeDatabase(s) ==
  GcpMentions(s, {"Extended Support", "IOPS", "Backup", "Egress", "Read Replica", "Commitment",
                  "Micro Instance", "Serverless Export", "usage - hour"})

IsGcpDatabaseStorage(s) ==
  /\ ~IsOutOfScopeDatabase(s)
  /\ (s.unit = "month" /\ s.price # "none") \/ GcpMentions(s, {"Storage", "PD"})

\* Asked of the SKUs of every category, when the ignored ones are counted.
IsGcpDatabaseComponent(s) ==
  /\ s.onDemand /\ ~IsOutOfScopeDatabase(s) /\ ~IsGcpDatabaseStorage(s) /\ ~s.shaped
  /\ GcpMentions(s, {"Instance Core", "Core", "RAM"})

IsOutOfScopeServerless(s) ==
  GcpMentions(s, {"Network", "Data Transfer", "Egress", "ingress"})

-----------------------------------------------------------------------------
(* The rules of each category.                                              *)

\* extractUnitPrice of a rate.
GcpPriceRules(price) ==
  << <<price = "none", "nothing">>, <<price = "invalid", "failed">>, <<price = "zero", "nothing">> >>

\* Serverless meters are free up to a tier: their price is the first that is
\* not zero.
GcpFirstPaid(s) == IF s.price = "zero" THEN s.later ELSE s.price

\* A region that is mapped but is not a hub is skipped.
GcpRegionRules(s) ==
  << <<s.region = "unknown", "quarantined">>, <<s.region = "other", "nothing">> >>

GcpComputeRules(s) ==
  << <<~IsGcpComputeInstance(s), "nothing">> >> \o GcpPriceRules(s.price)
    \o << <<~s.shaped, "nothing">> >> \o GcpRegionRules(s)

GcpStorageRules(s) ==
  << <<~IsGcpStorage(s), "nothing">> >> \o GcpPriceRules(s.price)
    \o << <<s.value = "unknown", "quarantined">> >> \o GcpRegionRules(s)

\* Egress is kept in every region that is mapped.
GcpNetworkRules(s) ==
  << <<~IsGcpNetwork(s) \/ s.tiered, "nothing">> >> \o GcpPriceRules(s.price)
    \o << <<s.value = "unknown", "quarantined">>, <<s.region = "unknown", "quarantined">> >>

GcpDatabaseRules(s) ==
  << <<~IsGcpDatabase(s) \/ IsOutOfScopeDatabase(s) \/ IsGcpDatabaseComponent(s), "nothing">> >>
    \o GcpPriceRules(s.price)
    \o << <<~IsGcpDatabaseStorage(s) /\ ~s.shaped, "quarantined">>,
          <<~IsGcpDatabaseStorage(s) /\ s.value = "unknown", "quarantined">> >>
    \o GcpRegionRules(s)

\* An unknown data model falls back to document; deletes are not priced.
GcpNoSQLRules(s) ==
  GcpPriceRules(s.price) \o GcpRegionRules(s)
    \o << <<s.unit # "month" /\ ~GcpMentions(s, {"Database Stored Data", "Storage", "Node", "Read", "Write"}),
            "nothing">> >>

GcpKubernetesRules(s) ==
  << <<~IsGcpKubernetes(s), "nothing">> >> \o GcpPriceRules(s.price)
    \o << <<s.value = "unknown", "quarantined">> >> \o GcpRegionRules(s)

GcpServerlessRules(s) ==
  << <<IsOutOfScopeServerless(s), "nothing">> >> \o GcpPriceRules(GcpFirstPaid(s))
    \o << <<~GcpMentions(s, {"CPU", "Memory", "Invocation", "Request", "Time"}), "nothing">>,
          <<s.value = "unknown", "quarantined">> >> \o GcpRegionRules(s)

GcpCategoryRules(s) ==
  CASE s.category = "compute"        -> GcpComputeRules(s)
    [] s.category = "storage"        -> GcpStorageRules(s)
    [] s.category = "network"        -> GcpNetworkRules(s)
    [] s.category = "database_rdbms" -> GcpDatabaseRules(s)
    [] s.category = "database_nosql" -> GcpNoSQLRules(s)
    [] s.category = "kubernetes"     -> GcpKubernetesRules(s)
    [] OTHER                         -> GcpServerlessRules(s)

\* Network lines that Compute Engine publishes are network prices for every
\* adapter but compute's.
GcpTriage(s, target) ==
  LET egress == s.category = "compute" /\ IsGcpNetwork(s)
      other == s.category # target /\ ~egress
  IN Decide(<< <<s.category = "", "ignored">>,
               <<egress /\ target = "compute", "ignored">>,
               <<other, "ignored">> >>
            \o (IF egress THEN GcpNetworkRules(s) ELSE IF s.category = "" THEN << >>
                ELSE GcpCategoryRules(s)) \o << <<TRUE, "observed">> >>)

\* What gave nothing is counted as ignored, unless a component test takes it.
GcpCount(s, verdict) ==
  IF /\ verdict = "nothing"
     /\ ~(s.category = "compute" /\ IsGcpNetwork(s))
     /\ ~IsGcpComputeComponent(s)
     /\ ~IsGcpDatabaseComponent(s) \/ (s.category = "database_rdbms" /\ IsOutOfScopeDatabase(s))
  THEN "ignored" ELSE verdict

-----------------------------------------------------------------------------
(* The stream.                                                              *)

gcpReading == gcpTarget # "" /\ gcpOutcome = ""

GcpStreamStarts ==
  /\ gcpTarget = ""
  /\ gcpTarget' \in GcpTargets
  /\ UNCHANGED <<gcpSku, gcpVerdict, gcpAt, gcpParts, gcpOffered, gcpOutcome>>

GcpPartsOf(s) == {part \in GcpPartNames :
                    GcpMentions(s, IF part = "core" THEN {"Instance Core", "Core running", "Core"}
                                                    ELSE {"Instance Ram", "Ram running", "RAM"})}

\* collectComponentPricing, collectDatabaseComponentPricing: a price in a hub,
\* of a family or engine that is known.
GcpCollects(s, target) ==
  /\ s.category = target /\ ~IsGcpNetwork(s)
  /\ \/ target = "compute" /\ IsGcpComputeComponent(s)
     \/ target = "database_rdbms" /\ IsGcpDatabase(s) /\ IsGcpDatabaseComponent(s)
  /\ s.price \in GcpPrices /\ s.region = "hub" /\ s.value = "known"

\* The last price of a part is kept.
ReadSku ==
  /\ gcpReading /\ gcpAt.skus < GcpPageSkus /\ gcpAt.pages < GcpPages
  /\ gcpSku' \in GcpSkus
  /\ LET verdict == GcpTriage(gcpSku', gcpTarget)
         parts == IF GcpCollects(gcpSku', gcpTarget) THEN GcpPartsOf(gcpSku') ELSE {}
     IN
     /\ gcpVerdict' = GcpCount(gcpSku', verdict)
     /\ gcpAt' = [gcpAt EXCEPT !.skus = @ + 1]
     /\ gcpParts' = [part \in GcpPartNames |-> IF part \in parts THEN gcpSku'.price ELSE gcpParts[part]]
     /\ gcpOffered' = gcpOffered \cup (parts \X {gcpSku'.price})
     /\ gcpOutcome' = IF verdict = "failed" THEN "failed" ELSE ""
  /\ UNCHANGED gcpTarget

\* A mutant: each page collects its own component prices.
GcpPageForgets ==
  /\ gcpReading /\ gcpAt.pages < GcpPages
  /\ gcpAt' = [pages |-> gcpAt.pages + 1, skus |-> 0]
  /\ gcpSku' = NoSku /\ gcpVerdict' = ""
  /\ gcpParts' = [part \in GcpPartNames |-> ""]
  /\ UNCHANGED <<gcpTarget, gcpOffered, gcpOutcome>>

GcpPageEnds ==
  /\ gcpReading /\ gcpAt.pages < GcpPages
  /\ gcpAt' = [pages |-> gcpAt.pages + 1, skus |-> 0]
  /\ gcpSku' = NoSku /\ gcpVerdict' = ""
  /\ UNCHANGED <<gcpTarget, gcpParts, gcpOffered, gcpOutcome>>

\* FinalizeComposedObservations: a family is priced when both parts are known.
GcpStreamEnds ==
  /\ gcpReading /\ gcpAt.pages > 0 /\ gcpAt.skus = 0
  /\ gcpOutcome' = IF \A part \in GcpPartNames : gcpParts[part] # "" THEN "composed" ELSE "direct"
  /\ UNCHANGED <<gcpTarget, gcpSku, gcpVerdict, gcpAt, gcpParts, gcpOffered>>

GcpNext == GcpStreamStarts \/ ReadSku \/ GcpPageEnds \/ GcpStreamEnds

GcpSpec == GcpInit /\ [][GcpNext]_gcpVars

-----------------------------------------------------------------------------

\* A whole machine; and the price of the cores or the memory of some.
GcpMachine(s) == s.category = "compute" /\ ~IsGcpNetwork(s)
GcpPart(s) == \/ GcpMachine(s) /\ IsGcpComputeComponent(s)
              \/ s.category = "database_rdbms" /\ IsGcpDatabase(s) /\ IsGcpDatabaseComponent(s)

\* The SKU, had the curated maps known its region, value and machine type.
GcpNamed(s) ==
  [s EXCEPT !.region = IF @ = "unknown" THEN "hub" ELSE @, !.value = "known",
            !.shaped = @ \/ ((GcpMachine(s) \/ s.category = "database_rdbms") /\ ~GcpPart(s))]

\* It names nothing unknown that the code looks up: the family of a machine
\* whose type is read, the data model, and the engine and type of a storage line
\* of Cloud SQL are taken as they come.
GcpUnread(s) ==
  /\ s.region # "unknown"
  /\ \/ GcpMachine(s) /\ s.shaped
     \/ s.category = "database_nosql"
     \/ s.category = "database_rdbms" /\ IsGcpDatabaseStorage(s)

\* What the code passes over although it has drifted: a machine type that it
\* cannot read, and a part of a family or an engine that it does not know, or
\* in a region that it does not know.
GcpPassedOver(s) == IF GcpMachine(s) THEN ~(IsGcpComputeInstance(s) /\ s.shaped) ELSE GcpPart(s)

\* Taxonomy drift surfaces (ADR 0037) except as machine types and their parts:
\* a SKU of the adapter's category that would be a price or a part of one, if
\* only the curated maps knew its region, value and machine type, is
\* quarantined where they do not, if it is not one of those that the code, not
\* as the ADR decides, passes over in silence.  A name that is not looked up
\* does not keep the SKU from its price.
GcpDriftSurfaces ==
  LET s == gcpSku
      inScope == \/ GcpTriage(GcpNamed(s), gcpTarget) = "observed"
                 \/ GcpCollects(GcpNamed(s), gcpTarget)
  IN gcpVerdict # "" /\ s # GcpNamed(s) /\ inScope =>
       gcpVerdict \in IF GcpPassedOver(s) THEN {"nothing", "ignored"}
                      ELSE IF GcpUnread(s) THEN {"observed"} ELSE {"quarantined"}

\* Machine types are priced from a core and a memory price however the pages
\* divide the stream: if both were offered in a hub the family is priced, and
\* each part's price is one that the stream offered for that part.
ComposedAcrossPages ==
  /\ gcpOutcome \in {"direct", "composed"} =>
       (gcpOutcome = "composed" <=> \A part \in GcpPartNames : \E p \in GcpPrices : <<part, p>> \in gcpOffered)
  /\ \A part \in GcpPartNames : gcpParts[part] # "" => <<part, gcpParts[part]>> \in gcpOffered
=============================================================================
