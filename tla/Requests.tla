------------------------------ MODULE Requests ------------------------------
(***************************************************************************)
(* How the two transports read the parameters of a pricing request:        *)
(* internal/transport/rest (a query string, or the JSON body of            *)
(* /calculate) and internal/transport/mcp (the typed input of a tool).     *)
(* Each has its own copy of every check; what passes is the MatchTarget    *)
(* the pricing service is called with.                                     *)
(*                                                                         *)
(* A parameter's raw value is one of a few classes: a number is judged by  *)
(* where it lies, a name by whether it is known to its taxonomy map.       *)
(***************************************************************************)
EXTENDS Integers, Sequences, FiniteSetsExt

CONSTANT RequestsAsked   \* per endpoint, the requests: parameters and their raw values

RequestCategories == {"compute", "storage", "network", "database_rdbms", "database_nosql",
                      "kubernetes", "serverless"}

(* The sections a body of /calculate may have.                             *)
ASSUME RequestsAssumption ==
  /\ DOMAIN RequestsAsked = RequestCategories \cup {"calculate"}
  /\ \A body \in RequestsAsked["calculate"] : DOMAIN body \subseteq RequestCategories \cup {"database"}

VARIABLES
  asked_of,   \* the endpoint and the parameters both transports were given last
  heard       \* what each transport made of them

requestVars == <<asked_of, heard>>

(* A field of an endpoint: what its raw values mean (one that has no       *)
(* meaning is refused) and what its absence means.                         *)
Refused == "refused"
Field(name, meaning, default) == [name |-> name, meaning |-> meaning, default |-> default]
Each(values) == [v \in values |-> v]

Untyped == {"junk", "nan"}                          \* text that is no JSON number
Positive == {"small", "usual", "limit", "beyond"}   \* "small" is below 1, "beyond" above any limit
Whole == Positive \ {"small"}                       \* the others are whole numbers
AtMost == Positive \ {"beyond"}
NonNegative == AtMost \cup {"zero"}
Within == AtMost \ {"small"}

Spellings == {"known", "spaced", "offstage", "unknown", "blank"}
Free == Each(Spellings)                             \* taken as it comes
ResolvedTo(default) == [known |-> "known", spaced |-> "known", blank |-> default]
Lowered(default) == [Each(Spellings) EXCEPT !["spaced"] = "known", !["blank"] = default]
Switch == Each({"true", "false"})
Loose(default) == [true |-> "true", false |-> "false", junk |-> default]

Meaning(field, given) ==
  IF field.name \notin DOMAIN given THEN field.default
  ELSE IF given[field.name] \in DOMAIN field.meaning THEN field.meaning[given[field.name]]
  ELSE Refused

Refusal(why) == [refused |-> why, target |-> {}]

(* The first field that is refused decides the answer; a target is a set   *)
(* of named values.                                                        *)
Parse(fields, given) ==
  LET refused == {i \in DOMAIN fields : Meaning(fields[i], given) = Refused}
  IN  IF refused # {} THEN Refusal(fields[Min(refused)].name)
      ELSE [refused |-> "",
            target |-> {<<fields[i].name, Meaning(fields[i], given)>> : i \in DOMAIN fields}]

Everywhere == <<Field("region", Free, "us-east")>>

-----------------------------------------------------------------------------
(* GET /api/v1/prices/<category>: a query string.  ParseFloat reads "NaN", *)
(* which is neither below nor above any limit.                             *)

RestCompute == Everywhere \o
  <<Field("strict_family", Loose("true"), "true"), Field("family", Free, ""),
    Field("vcpu", Each(Positive \cup {"nan"}), "zero"), Field("ram_gb", Each(Positive \cup {"nan"}), "zero")>>

RestStorage == Everywhere \o
  <<Field("size_gb", Each(AtMost), "usual"), Field("storage_class", Free, "")>>

RestNetwork == Everywhere \o
  <<Field("egress_gb", Each(AtMost), "usual"), Field("transfer_type", Free, "")>>

RestDatabase == Everywhere \o
  <<Field("engine", ResolvedTo(""), ""),
    Field("vcpu", Each(Positive \cup {"nan"}), "zero"), Field("ram_gb", Each(Positive \cup {"nan"}), "zero"),
    Field("storage_gb", Each(AtMost \cup {"nan"}), "zero"), Field("iops", Each(Whole), "none"),
    Field("multi_az", Loose("false"), "false"), Field("storage_family", Free, "")>>

RestNoSQL == Everywhere \o
  <<Field("data_model", ResolvedTo(""), ""), Field("pricing_mode", ResolvedTo("provisioned"), "provisioned"),
    Field("read_units", Each(NonNegative \cup {"nan"}), "zero"),
    Field("write_units", Each(NonNegative \cup {"nan"}), "zero"),
    Field("storage_gb", Each(NonNegative \cup {"nan"}), "zero"), Field("storage_class", Free, ""),
    Field("multi_region", Loose("false"), "false")>>

RestKubernetes == Everywhere \o
  <<Field("tier", ResolvedTo("standard"), "standard"), Field("cluster_topology", ResolvedTo(""), "")>>

(* ParseRawServerlessWorkload, which both transports call.                 *)
Workload ==
  <<Field("architecture", ResolvedTo("x86_64"), "x86_64"), Field("tier", Lowered("consumption"), "consumption"),
    Field("requests_per_month", Each(NonNegative \cup {"beyond"}), "usual"),
    Field("memory_mb", Each(Within), "usual"), Field("execution_duration_ms", Each(Within), "usual")>>

RestServerless == Everywhere \o Workload

RestFields ==
  [compute |-> RestCompute, storage |-> RestStorage, network |-> RestNetwork,
   database_rdbms |-> RestDatabase, database_nosql |-> RestNoSQL, kubernetes |-> RestKubernetes,
   serverless |-> RestServerless]

-----------------------------------------------------------------------------
(* The tools of the MCP server: the SDK refuses what its schema does not   *)
(* type, before the handler runs.                                          *)

McpCompute == Everywhere \o
  <<Field("strict_family", Switch, "true"), Field("family", Free, ""),
    Field("vcpu", Each(Positive), "zero"), Field("ram_gb", Each(Positive), "zero")>>

McpStorage == Everywhere \o
  <<Field("size_gb", Each(AtMost), "usual"), Field("storage_class", Free, "")>>

McpNetwork == Everywhere \o
  <<Field("egress_gb", Each(AtMost), "usual"), Field("transfer_type", Free, "")>>

McpDatabase == Everywhere \o
  <<Field("engine", ResolvedTo(""), ""), Field("vcpu", Each(Positive), "zero"),
    Field("ram_gb", Each(Positive), "zero"), Field("storage_gb", Each(AtMost), "zero"),
    Field("iops", Each(Whole), "none"), Field("multi_az", Switch, "false"),
    Field("storage_family", Free, "")>>

NoSQLParams ==
  <<Field("data_model", ResolvedTo(""), ""), Field("pricing_mode", ResolvedTo("provisioned"), "provisioned"),
    Field("read_units", Each(NonNegative), "zero"), Field("write_units", Each(NonNegative), "zero"),
    Field("storage_gb", Each(NonNegative), "zero"), Field("storage_class", Free, ""),
    Field("multi_region", Switch, "false")>>

McpNoSQL == Everywhere \o NoSQLParams

KubernetesParams ==
  <<Field("tier", ResolvedTo("standard"), "standard"), Field("cluster_topology", ResolvedTo(""), "")>>

McpKubernetes == Everywhere \o KubernetesParams

McpServerless == Everywhere \o Workload

McpFields ==
  [compute |-> McpCompute, storage |-> McpStorage, network |-> McpNetwork,
   database_rdbms |-> McpDatabase, database_nosql |-> McpNoSQL, kubernetes |-> McpKubernetes,
   serverless |-> McpServerless]

-----------------------------------------------------------------------------
(* POST /api/v1/calculate and calculate_workload: a section per category,  *)
(* in this order.  A number left out of a section is 0.                    *)

CalculateOrder == <<"compute", "storage", "network", "database_rdbms", "database_nosql",
                    "kubernetes", "serverless">>

ComputeSection ==
  <<Field("vcpu", Each(Positive), Refused), Field("ram_gb", Each(Positive), Refused),
    Field("family", Free, "")>>
StorageSection == <<Field("size_gb", Each(AtMost), Refused), Field("storage_class", Free, "")>>
NetworkSection == <<Field("egress_gb", Each(NonNegative), "zero"), Field("transfer_type", Free, "")>>
DatabaseSection(engine) ==
  <<Field("engine", engine, ""), Field("vcpu", Each(Positive), Refused),
    Field("ram_gb", Each(Positive), Refused), Field("storage_gb", Each(AtMost), Refused),
    Field("iops", Each(Whole), "none"), Field("multi_az", Switch, "false"),
    Field("storage_family", Free, "")>>

(* The REST body keeps a name it found blank as it is.                     *)
RestSections ==
  [compute |-> ComputeSection, storage |-> StorageSection, network |-> NetworkSection,
   database_rdbms |-> DatabaseSection(ResolvedTo("blank")),
   database_nosql |-> <<Field("data_model", ResolvedTo("blank"), "")>> \o Tail(NoSQLParams),
   kubernetes |-> <<Field("tier", ResolvedTo("standard"), "standard"),
                    Field("cluster_topology", ResolvedTo("blank"), "")>>,
   serverless |-> Workload]

(* A mutant: egress of nothing is refused, as by the endpoint that compares. *)
NetworkSectionPositive ==
  <<Field("egress_gb", Each(AtMost), Refused), Field("transfer_type", Free, "")>>

McpComputeSection == ComputeSection
McpStorageSection == StorageSection
McpNetworkSection == NetworkSection
McpDatabaseSection == DatabaseSection(ResolvedTo(""))

McpSections ==
  [compute |-> McpComputeSection, storage |-> McpStorageSection, network |-> McpNetworkSection,
   database_rdbms |-> McpDatabaseSection, database_nosql |-> NoSQLParams,
   kubernetes |-> KubernetesParams, serverless |-> Workload]

(* A section of a relational database as it is decoded: what is left out   *)
(* is the zero of its Go type, so 0 and false are the same as nothing.     *)
Decoded(section) ==
  LET zero == [engine |-> "", vcpu |-> "zero", ram_gb |-> "zero", storage_gb |-> "zero", iops |-> "none",
               multi_az |-> "false", storage_family |-> ""]
  IN  [n \in DOMAIN zero |-> IF n \in DOMAIN section THEN section[n] ELSE zero[n]]

(* ResolveAliasedField: "database" is another name of "database_rdbms".    *)
AliasConflict(body) ==
  /\ {"database", "database_rdbms"} \subseteq DOMAIN body
  /\ Decoded(body["database"]) # Decoded(body["database_rdbms"])

Unaliased(body) ==
  [c \in {IF a = "database" THEN "database_rdbms" ELSE a : a \in DOMAIN body} |->
     IF c \in DOMAIN body THEN body[c] ELSE body["database"]]

ParseBody(sections, body) ==
  LET given == Unaliased(body)
      parsed == [c \in DOMAIN given |-> Parse(sections[c], given[c])]
      bad == {i \in DOMAIN CalculateOrder : /\ CalculateOrder[i] \in DOMAIN given
                                            /\ parsed[CalculateOrder[i]].refused # ""}
  IN  IF AliasConflict(body) THEN Refusal("alias")
      ELSE IF DOMAIN body = {} THEN Refusal("categories")
      ELSE IF bad # {} THEN Refusal(parsed[CalculateOrder[Min(bad)]].refused)
      ELSE [refused |-> "", target |-> {<<c, parsed[c].target>> : c \in DOMAIN given}]

-----------------------------------------------------------------------------
(* Values of the types a document has: iops is an integer.                 *)
TypedSection(given) ==
  /\ \A n \in DOMAIN given : given[n] \notin Untyped
  /\ "iops" \in DOMAIN given => given["iops"] # "small"

Typed(endpoint, given) ==
  IF endpoint = "calculate" THEN \A c \in DOMAIN given : TypedSection(given[c])
                            ELSE TypedSection(given)

HeardByRest(endpoint, given) ==
  IF endpoint # "calculate" THEN Parse(RestFields[endpoint], given)
  ELSE IF ~Typed(endpoint, given) THEN Refusal("schema")
  ELSE ParseBody(RestSections, given)

HeardByMcp(endpoint, given) ==
  IF ~Typed(endpoint, given) THEN Refusal("schema")
  ELSE IF endpoint # "calculate" THEN Parse(McpFields[endpoint], given)
  ELSE ParseBody(McpSections, given)

NoRequest == [endpoint |-> "", given |-> << >>]
Nothing == [rest |-> Refusal(""), mcp |-> Refusal("")]

RequestsInit == asked_of = NoRequest /\ heard = Nothing

Request(endpoint, given) ==
  /\ asked_of = NoRequest
  /\ asked_of' = [endpoint |-> endpoint, given |-> given]
  /\ heard' = [rest |-> HeardByRest(endpoint, given), mcp |-> HeardByMcp(endpoint, given)]

Reply == asked_of # NoRequest /\ asked_of' = NoRequest /\ heard' = Nothing

RequestsNext == Reply \/ \E e \in DOMAIN RequestsAsked : \E g \in RequestsAsked[e] : Request(e, g)

RequestsSpec == RequestsInit /\ [][RequestsNext]_requestVars

-----------------------------------------------------------------------------
RequestsTypeOK ==
  /\ asked_of.endpoint \in RequestCategories \cup {"calculate", ""}
  /\ DOMAIN heard = {"rest", "mcp"}
  /\ \A t \in DOMAIN heard : heard[t].refused # "" => heard[t].target = {}

(* A body that leaves a name blank which REST passes on as it came.        *)
KeepsBlank(body) ==
  \E c \in DOMAIN body : \E n \in DOMAIN body[c] \cap {"engine", "data_model", "cluster_topology"} :
    body[c][n] = "blank"

(* The two transports hold one contract, though every check is written     *)
(* twice (and those of /calculate four times): a body of /calculate, and a *)
(* comparison whose values have the types of the tool's input, is refused  *)
(* by both for the same parameter or reaches the pricing service with the  *)
(* same target through both.  Two differences are stated, not hidden: the  *)
(* query string of a comparison may hold what the tool's schema refuses    *)
(* before the handler -- NaN, a switch that is no Boolean, an iops that is *)
(* no integer -- and such a request is outside; and a body that both       *)
(* accept with one of three names left blank has a target each.            *)
OneContract ==
  LET endpoint == asked_of.endpoint
      given == asked_of.given
  IN  endpoint = "calculate" \/ Typed(endpoint, given)
        => /\ heard.rest.refused = heard.mcp.refused
           /\ heard.rest = heard.mcp \/ (endpoint = "calculate" /\ KeepsBlank(given))
=============================================================================
