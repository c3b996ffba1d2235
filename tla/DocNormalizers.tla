---------------------------- MODULE DocNormalizers ----------------------------
(***************************************************************************)
(* internal/adapter/provider/{alibaba,digitalocean,ibm,oracle}: compute.go,*)
(* storage.go, network.go.  Each provider's price list is one document,    *)
(* whose items are normalized in order, in every region an item names; a   *)
(* SKU is taken once per region, the first time it appears.                *)
(*                                                                         *)
(* An item is what the rules read of it: the category its product maps to  *)
(* ("" where there is none), its kind in that category, whether the value  *)
(* it is named by (family, class, transfer type) is known, whether it has  *)
(* a size and a price, its SKU and its regions, of which "nowhere" is in   *)
(* no curated map.                                                         *)
(***************************************************************************)
EXTENDS Rules

CONSTANTS DocItems,   \* the items a document may hold
          DocLength   \* bound on the items of a document

DocProviders == {"alibaba", "digitalocean", "ibm", "oracle"}

ASSUME DocAssumption ==
  /\ DocItems \subseteq
       [category : {"unknown", "", "compute", "storage", "network", "other"},
        kind : {"plain", "auxiliary", "ocpu", "memory", "unnamed"},
        value : {"known", "unknown"}, sized : BOOLEAN, priced : BOOLEAN,
        sku : STRING, regions : SUBSET STRING]
  /\ DocLength \in Nat

VARIABLES
  docProvider,     \* whose document it is
  docItem,         \* the item read last
  docLength,       \* the items read
  docSeen,         \* the SKU and region pairs that were taken
  docPrices,       \* how many prices each pair was given
  docQuarantined,  \* the items in quarantine, with the region at fault if it is the region;
                   \* a composed shape is no item
  docFlex,         \* Oracle's flexible shape: its parts' prices, and its regions
  docEnded

docVars == <<docProvider, docItem, docLength, docSeen, docPrices, docQuarantined, docFlex, docEnded>>

NoDocItem == [category |-> "none"]
Flexible == "flex"  \* the SKU of the shape that is composed
DocSkus == {i.sku : i \in DocItems} \cup {Flexible}
DocRegions == UNION {i.regions : i \in DocItems}
IbmRegions == DocRegions \ {"nowhere"}  \* defaultIBMRegions

DocTypeOK ==
  /\ docProvider \in DocProviders \cup {""}
  /\ docItem \in DocItems \cup {NoDocItem}
  /\ docLength \in 0..DocLength
  /\ docSeen \subseteq DocSkus \X DocRegions
  /\ docPrices \in [DocSkus \X DocRegions -> 0..DocLength]
  /\ docQuarantined \subseteq (DocItems \cup {NoDocItem}) \X (DocRegions \cup {"", "missing"})
  /\ docFlex \in [parts : SUBSET {"ocpu", "memory"}, regions : SUBSET DocRegions]
  /\ docEnded \in BOOLEAN

DocInit ==
  /\ docProvider = "" /\ docItem = NoDocItem /\ docLength = 0
  /\ docSeen = {} /\ docPrices = [pair \in DocSkus \X DocRegions |-> 0]
  /\ docQuarantined = {}
  /\ docFlex = [parts |-> {}, regions |-> {}]
  /\ docEnded = FALSE

-----------------------------------------------------------------------------
(* Each provider's rules, up to the regions of an item.                     *)

\* A family that is not known, or a type without cores or memory, is drift.
AlibabaComputeRules(i) ==
  << <<i.category = "unknown", "quarantined">>,
     <<i.category = "other" \/ i.kind = "unnamed", "nothing">>,
     <<i.value = "unknown" \/ ~i.sized, "quarantined">>,
     <<~i.priced, "nothing">>, <<i.regions = {}, "nowhere">>, <<TRUE, "regions">> >>

AlibabaStorageRules(i) ==
  << <<i.value = "unknown", "quarantined">>, <<~i.priced, "nothing">>,
     <<i.regions = {}, "nowhere">>, <<TRUE, "regions">> >>

\* The same checks, of the transfer type.
AlibabaNetworkRules(i) == AlibabaStorageRules(i)

\* A droplet's family is never unknown: it falls back to general purpose.
DropletRules(i) ==
  << <<i.kind = "unnamed", "nothing">>, <<~i.sized, "quarantined">>,
     <<~i.priced, "nothing">>, <<i.regions = {}, "nowhere">>, <<TRUE, "regions">> >>

DigitalOceanProductRules(i) ==
  << <<i.category \in {"unknown", ""}, "quarantined">>, <<i.category = "other", "nothing">> >>

DigitalOceanStorageRules(i) ==
  << <<i.value = "unknown", "quarantined">>, <<~i.priced, "nothing">>,
     <<i.regions = {}, "nowhere">>, <<TRUE, "regions">> >>

DigitalOceanNetworkRules(i) == DigitalOceanStorageRules(i)

\* A resource without metrics, as an unpriced item, is not recorded; one
\* without a name or id is taken for a compute profile.
IbmProductRules(i) ==
  << <<i.category = "unknown" /\ i.priced, "quarantined">>,
     <<i.category \in {"unknown", "other"}, "nothing">> >>

\* Its regions are its own, its parent's, or the default ones.
IbmComputeRules(i) ==
  << <<i.value = "unknown", "quarantined">>, <<~i.priced, "nothing">>, <<TRUE, "regions">> >>

IbmStorageRules(i) == IbmComputeRules(i)
IbmNetworkRules(i) == IbmComputeRules(i)

OracleProductRules(i) == << <<i.category \in {"unknown", "", "other"}, "nothing">> >>

OracleStorageRules(i) ==
  << <<i.kind = "auxiliary", "nothing">>, <<i.value = "unknown", "quarantined">>,
     <<~i.priced, "nothing">>, <<i.regions = {}, "nowhere">>, <<TRUE, "regions">> >>

OracleNetworkRules(i) ==
  << <<i.value = "unknown", "quarantined">>, <<~i.priced, "nothing">>,
     <<i.regions = {}, "nowhere">>, <<TRUE, "regions">> >>

\* A fixed shape that is not known is out of scope; a flexible one is drift.
OracleComputeRules(i) ==
  << <<~i.priced, "nothing">>, <<i.regions = {}, "nowhere">>,
     <<i.kind \in {"ocpu", "memory"} /\ i.value = "unknown", "quarantined">>,
     <<i.kind \in {"ocpu", "memory"}, "part">>,
     <<i.value = "unknown", "nothing">>, <<TRUE, "regions">> >>

\* The rules of a provider, up to and in the category of the item.
DocRules(provider, i) ==
  LET Of(storage, network, compute) ==
        CASE i.category = "storage" -> storage [] i.category = "network" -> network [] OTHER -> compute
  IN CASE provider = "alibaba" ->
            Of(AlibabaStorageRules(i), AlibabaNetworkRules(i), AlibabaComputeRules(i))
       [] provider = "digitalocean" ->
            IF i.category = "compute" THEN DropletRules(i)
            ELSE DigitalOceanProductRules(i)
                   \o Of(DigitalOceanStorageRules(i), DigitalOceanNetworkRules(i), << >>)
       [] provider = "ibm" ->
            IbmProductRules(i) \o Of(IbmStorageRules(i), IbmNetworkRules(i), IbmComputeRules(i))
       [] OTHER ->
            OracleProductRules(i)
              \o Of(OracleStorageRules(i), OracleNetworkRules(i), OracleComputeRules(i))

DocDecide(provider, i) == Decide(DocRules(provider, i))

-----------------------------------------------------------------------------
(* The document.                                                            *)

docReading == docProvider # "" /\ ~docEnded

DocRegionsOf(provider, i) == IF provider = "ibm" /\ i.regions = {} THEN IbmRegions ELSE i.regions

\* A mutant: the SKUs that were taken are forgotten.
DocKeepsAll(provider, i) == FALSE

\* Oracle's compute shapes are not looked up among those that were taken.
DocDedups(provider, i) == ~(provider = "oracle" /\ i.category = "compute")

DocStarts ==
  /\ docProvider = ""
  /\ docProvider' \in DocProviders
  /\ UNCHANGED <<docItem, docLength, docSeen, docPrices, docQuarantined, docFlex, docEnded>>

\* The mapped regions where the SKU is new are taken, the others quarantined.
DocReadItem ==
  /\ docReading /\ docLength < DocLength
  /\ docLength' = docLength + 1
  /\ \E i \in DocItems :
       LET step == DocDecide(docProvider, i)
           regions == IF step = "regions" THEN DocRegionsOf(docProvider, i) ELSE {}
           dedups == DocDedups(docProvider, i)
           taken == {<<i.sku, r>> : r \in regions \ {"nowhere"}} \ (IF dedups THEN docSeen ELSE {})
       IN
       /\ docItem' = i
       /\ docPrices' = [pair \in DOMAIN docPrices |-> docPrices[pair] + (IF pair \in taken THEN 1 ELSE 0)]
       /\ docSeen' = IF dedups THEN docSeen \cup taken ELSE docSeen
       /\ docQuarantined' = docQuarantined \cup
            ({<<i, r>> : r \in regions \cap {"nowhere"}}
             \cup (IF step = "quarantined" THEN {<<i, "">>} ELSE {})
             \cup (IF step = "nowhere" THEN {<<i, "missing">>} ELSE {}))
       /\ docFlex' = IF step = "part" THEN [parts |-> docFlex.parts \cup {i.kind}, regions |-> i.regions]
                     ELSE docFlex
  /\ UNCHANGED <<docProvider, docEnded>>

\* synthesizeFlexShapes: in the regions of the part that was read last.
DocEnds ==
  /\ docReading
  /\ docEnded' = TRUE
  /\ LET regions == IF docFlex.parts = {"ocpu", "memory"} THEN docFlex.regions ELSE {} IN
     /\ docPrices' = [pair \in DOMAIN docPrices |->
                        IF pair \in {Flexible} \X (regions \ {"nowhere"}) THEN 1 ELSE docPrices[pair]]
     /\ docQuarantined' = docQuarantined \cup {<<NoDocItem, r>> : r \in regions \cap {"nowhere"}}
  /\ UNCHANGED <<docProvider, docItem, docLength, docSeen, docFlex>>

DocNext == DocStarts \/ DocReadItem \/ DocEnds

DocSpec == DocInit /\ [][DocNext]_docVars

-----------------------------------------------------------------------------

\* The item, had its value been known and its size been given.
DocNamed(i) == [i EXCEPT !.value = "known", !.sized = TRUE]

\* What the code looks up and does not find; a droplet's family falls back to
\* general purpose, and only Alibaba and DigitalOcean give sizes.
DocUnknown(provider, i) ==
  \/ i.value = "unknown" /\ ~(provider = "digitalocean" /\ i.category = "compute")
  \/ ~i.sized /\ i.category \in {"", "compute"} /\ provider \in {"alibaba", "digitalocean"}

\* What the code passes over although it has drifted: a fixed shape of Oracle's
\* that it does not know, and a product that it does not know.
OraclePassesOver(i) ==
  \/ i.category = "unknown"
  \/ i.category = "compute" /\ i.kind \notin {"ocpu", "memory"} /\ i.value = "unknown" /\ i.regions # {}

\* Taxonomy drift surfaces (ADR 0037) except in Oracle's shapes and products: an
\* item with a price that would be taken, if only its product and value were
\* known and it had a size, is quarantined where it does not, and one without a
\* region too, if it is not one of those that the code, not as the ADR decides,
\* passes over in silence.  An item that is taken is quarantined for each region
\* that the curated maps do not know, and so is a shape composed of such parts.
DocDriftSurfaces ==
  LET i == docItem
      named == DocDecide(docProvider, DocNamed(i))
      drifted == \/ i.category = "unknown"
                 \/ named \in {"regions", "nowhere", "part"} /\ DocUnknown(docProvider, i)
                 \/ named = "nowhere"
      reasons == {r \in DocRegions \cup {"", "missing"} : <<i, r>> \in docQuarantined}
  IN
  /\ docItem # NoDocItem /\ i.priced =>
       /\ drifted => (reasons = {} <=> docProvider = "oracle" /\ OraclePassesOver(i))
       /\ named = "regions" /\ ~drifted /\ "nowhere" \in i.regions => "nowhere" \in reasons
  /\ docEnded /\ docFlex.parts = {"ocpu", "memory"} /\ "nowhere" \in docFlex.regions =>
       <<NoDocItem, "nowhere">> \in docQuarantined

\* A document prices a SKU at most once in a region, however often its items
\* name it; Oracle's documents are not covered, for their compute shapes are
\* not looked up.
PricedOnceInARegion ==
  docProvider # "oracle" => \A pair \in DOMAIN docPrices : docPrices[pair] <= 1
=============================================================================
