------------------------------ MODULE MCPricing ------------------------------
(***************************************************************************)
(* Requests, targets and rows of the pricing components, in the instances  *)
(* TLC checks.                                                             *)
(***************************************************************************)
EXTENDS Matching, Calculation, Requests, TLC

RowPairs(S) == {<<[a EXCEPT !.sku = 1], [b EXCEPT !.sku = 2]>> : a \in S, b \in S}
MCMatchTargets ==
  [compute |-> [vcpu : {0, 2}, ram : {4}, family : {"", "general"}, strict : BOOLEAN],
   storage |-> [size : {0, 2, 5}, class : {"", "standard", "archive", "glacier"}],
   network |-> [size : {1, 3}, class : {"", "intra_region", "internet_egress", "vpn_egress", "satellite"}],
   kubernetes |-> [class : {"", "free"}, topology : {"", "zonal", "regional"}],
   database_rdbms |-> [engine : {"", "mysql"}, vcpu : {2}, ram : {0, 4}, storage : {0, 1, 4}, iops : {0, 200, 201},
                       ha : BOOLEAN, family : {"", "io1"}],
   database_nosql |-> [reads : {0, 5, 10, 50}, writes : {0, 25}, storage : {0, 3}, class : {"", "infrequent_access"},
                       model : {"key_value", "graph"}, mode : {"", "serverless", "provisioned"}],
   serverless |-> [arch : {"", "arm64"}, tier : {"", "2nd_gen", "flex_consumption"}, requests : {0, 1, 4},
                   memory : {4, 8, 16}, duration : {1, 3}]]
ComputeRows == [sku : {1, 2}, price : {1, 2}, vcpu : {0, 2, 3}, ram : {4}, family : {"", "general"}]
StorageRows == [sku : {1, 2}, price : {1}, sized : BOOLEAN, class : {"", "standard", "archive"}]
NetworkRows == [sku : {1, 2}, price : {1}, sized : {TRUE}, class : {"", "intra_region", "internet_egress", "vpn_egress"}]
ClusterRows == [sku : {1, 2}, price : {10, 20}, class : {"", "free"}]
Instance == [sku |-> 1, price |-> 2, part |-> "instance", region |-> "east", engine |-> "mysql", vcpu |-> 2, ram |-> 4,
             iops |-> 0, ha |-> FALSE, family |-> "", hourly |-> TRUE]
DatabaseLists ==
  {<<Instance, [Instance EXCEPT !.sku = 2, !.ha = TRUE, !.engine = e, !.price = 1]>> \o rest :
     e \in {"", "mysql", "oracle"},
     rest \in {<< >>,
               <<[Instance EXCEPT !.part = "storage", !.price = 3, !.engine = "any", !.iops = 200, !.family = "gp3"],
                 [Instance EXCEPT !.part = "iops", !.hourly = FALSE, !.engine = "", !.family = "io1"]>>,
               <<[Instance EXCEPT !.part = "storage", !.engine = "oracle"],
                 [Instance EXCEPT !.part = "storage", !.price = 1, !.ha = TRUE, !.family = "io1"]>>}}
  \cup {<<[Instance EXCEPT !.engine = "oracle"]>>, <<[Instance EXCEPT !.part = "storage"]>>}
NoSQLRow(part) == [part |-> part, reads |-> FALSE, writes |-> FALSE, class |-> "", price |-> 1]
Reads(part) == [NoSQLRow(part) EXCEPT !.reads = TRUE]
Writes(part) == [NoSQLRow(part) EXCEPT !.writes = TRUE]
NoSQLLists ==
  {<<Reads("throughput"), Writes("throughput"), NoSQLRow("storage")>>,
   <<Reads("request_operations"), Writes("request_operations"),
     [NoSQLRow("storage") EXCEPT !.class = "infrequent_access"], NoSQLRow("storage")>>,
   <<Reads("throughput"), Reads("request_operations")>>, <<NoSQLRow("storage")>>, <<NoSQLRow("other")>>}
Fee(part, tier, unit) == [part |-> part, tier |-> tier, unit |-> unit, price |-> 1, arch |-> "x86_64"]
FeeLists ==
  {<<Fee("request_fee", "", "million"), Fee("duration_fee", "", "")>>,
   <<Fee("request_fee", "flex_consumption", "ten"), Fee("duration_fee", "flex_consumption", ""), Fee("request_fee", "", "request")>>,
   <<Fee("request_fee", "1st_gen", "million"), Fee("duration_fee_cpu", "1st_gen", ""), Fee("duration_fee_memory", "1st_gen", "")>>,
   <<Fee("other", "", "")>>, <<[Fee("request_fee", "", "million") EXCEPT !.arch = "arm64"]>>}
MCMatchForeign == {<<"aws", "network">>, <<"gcp", "kubernetes">>}
MCMatchLists ==
  [of \in {<<"aws", "compute">>, <<"azure", "storage">>, <<"aws", "network">>, <<"gcp", "kubernetes">>, <<"azure", "kubernetes">>,
           <<"aws", "database_rdbms">>} \cup {"aws", "azure", "gcp"} \X {"database_nosql", "serverless"} |->
     CASE of[2] = "compute" -> RowPairs(ComputeRows) \cup {<< >>}
       [] of[2] = "storage" -> RowPairs(StorageRows)
       [] of[2] = "network" -> RowPairs(NetworkRows)
       [] of[2] = "kubernetes" -> RowPairs(ClusterRows)
       [] of[2] = "database_rdbms" -> DatabaseLists
       [] of[2] = "database_nosql" -> NoSQLLists
       [] of[2] = "serverless" -> FeeLists]
-----------------------------------------------------------------------------
MCCalcProviders == <<"aws", "oracle">>
MCCalcRequests ==
  {[loop |-> "calculate", categories |-> cs] :
     cs \in {{"compute", "storage"}, {"database_rdbms"}, {"compute", "serverless"}}}
  \cup {[loop |-> "compare", categories |-> {c}] : c \in {"network", "database_rdbms"}}
  \cup {[loop |-> "rest", categories |-> {"compute"}]}

-----------------------------------------------------------------------------
(* Requests: no or one parameter that is out of the ordinary, and of the   *)
(* databases, two.                                                         *)
RawAmounts == Untyped \cup {"negative", "zero"} \cup Positive
RawOf(field) ==
  CASE field.name \in {"strict_family", "multi_az", "multi_region"} -> {"true", "false", "junk"}
    [] "usual" \in DOMAIN field.meaning -> RawAmounts
    [] OTHER -> Spellings

Overriding(f, g) == [n \in DOMAIN f \cup DOMAIN g |-> IF n \in DOMAIN g THEN g[n] ELSE f[n]]

OneGiven(fields) == {<< >>} \cup UNION {[{fields[i].name} -> RawOf(fields[i])] : i \in DOMAIN fields}
TwoGiven(fields) == {Overriding(one, other) : one \in OneGiven(fields), other \in OneGiven(fields)}

MustBeGiven(fields) ==
  [n \in {fields[i].name : i \in {i \in DOMAIN fields : fields[i].default = Refused}} |-> "usual"]
SectionsOf(c) ==
  {Overriding(MustBeGiven(McpSections[c]), one) : one \in OneGiven(McpSections[c])}
  \cup OneGiven(McpSections[c])

Bodies ==
  LET plain == [c \in RequestCategories |-> MustBeGiven(McpSections[c])]
      databases == SectionsOf("database_rdbms")
  IN  {<< >>}
      \cup UNION {{c :> s : s \in SectionsOf(c)} : c \in RequestCategories}
      \cup {("compute" :> plain["compute"]) @@ ("database_rdbms" :> s) : s \in databases}
      \cup {"database" :> s : s \in databases}
      \cup {("database" :> plain["database_rdbms"]) @@ ("database_rdbms" :> s) : s \in databases}

MCRequestsAsked ==
  [e \in RequestCategories \cup {"calculate"} |->
     CASE e = "calculate" -> Bodies
       [] e \in {"kubernetes", "storage", "network"} -> TwoGiven(McpFields[e])
       [] OTHER -> OneGiven(McpFields[e])]
=============================================================================
