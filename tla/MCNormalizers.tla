--------------------------- MODULE MCNormalizers ----------------------------
(* What the documents of the providers hold, in the instances TLC checks.  *)
EXTENDS Normalizers

MCAwsSet(families, services, machines, words) ==
  [family : families, service : services, machine : machines, words : words,
   location : {"known", "unknown"}, value : {"", "known", "unknown"}]
MCAwsProducts ==
  MCAwsSet({"", "Compute Instance", "Storage"}, {"AmazonEC2", "", "NewService"},
           {"plain", "other"}, {{}, {"ByteHrs"}})
  \cup
  MCAwsSet({"Data Transfer", "Database", "Database Instance", "Database Storage", "Serverless", ""},
           {"AWSDataTransfer", "AmazonDynamoDB", "AmazonEKS", "AWSLambda", "AmazonRDS", "NewService"},
           {"other"},
           {{}, {"DataTransfer-Out"}, {"ReadCapacityUnit"}, {"DDB", "TimedStorage"},
            {"AmazonEKS"}, {"AmazonEKS", "Fargate"}, {"Lambda", "Requests"}, {"Lambda", "Edge"}})

MCAzureItems ==
  [consumption : {TRUE},
   category : {"unknown", "compute", "storage", "network", "database_rdbms", "database_nosql",
               "kubernetes", "serverless"},
   region : {"known", "unknown"}, value : {"known", "unknown"},
   unit : {"month", "hour", "unknown"}, numeric : BOOLEAN, sized : {TRUE}, tiered : BOOLEAN,
   words : {{}, {"Windows"}, {"Operations"}, {"Storage"}, {"Serverless"}, {"100 RU"},
            {"kubernetes"}, {"Functions", "Execution"}, {"Functions", "Premium"},
            {"Functions"}, {"Executions"}}]

GcpComponent ==
  [category |-> "compute", onDemand |-> TRUE, family |-> "", price |-> "low", tiered |-> FALSE, later |-> "none",
   unit |-> "hour", region |-> "hub", value |-> "known", shaped |-> FALSE, words |-> {"Instance Core"}]
MCGcpSkus ==
  {[GcpComponent EXCEPT !.words = w, !.price = p, !.region = h] :
     w \in {{"Instance Core"}, {"Instance Ram"}, {"Instance Core", "Spot"}},
     p \in {"low", "high"}, h \in {"hub", "other"}}
  \cup
  {[GcpComponent EXCEPT !.words = w, !.price = p, !.category = "database_rdbms", !.region = h] :
     w \in {{"Core", "Cloud SQL"}, {"RAM", "Cloud SQL"}}, p \in {"low", "zero"}, h \in {"hub", "unknown"}}
  \cup
  [category : {"", "compute", "storage", "network", "database_rdbms", "database_nosql", "kubernetes",
               "serverless"},
   onDemand : {TRUE}, family : {""}, price : {"none", "invalid", "low"}, tiered : {FALSE}, later : {"none"},
   unit : {"gigabyte"}, region : {"hub", "unknown"}, value : {"known", "unknown"},
   shaped : {TRUE}, words : {{}, {"Storage"}, {"Egress"}}]
  \cup
  {[GcpComponent EXCEPT !.category = c, !.words = w, !.region = r, !.value = v] :
     c \in {"compute", "database_rdbms"}, w \in {{}, {"Instance Core"}, {"Core", "Cloud SQL"}, {"Storage"}},
     r \in {"hub", "unknown"}, v \in {"known", "unknown"}}
  \cup
  {[GcpComponent EXCEPT !.family = f, !.shaped = TRUE, !.region = r] : f \in {"", "other"}, r \in {"hub", "unknown"}}
  \cup
  {[GcpComponent EXCEPT !.category = "serverless", !.words = {"CPU"}, !.price = "zero", !.tiered = TRUE,
                        !.later = p, !.value = v] :
     p \in {"none", "invalid", "low"}, v \in {"known", "unknown"}}

MCDocItems ==
  [category : {"unknown", "compute", "storage", "network", "other"}, kind : {"plain"},
   value : {"known", "unknown"}, sized : {TRUE}, priced : BOOLEAN, sku : {"s1"},
   regions : SUBSET {"home", "nowhere"}]
  \cup
  [category : {"compute"}, kind : {"ocpu", "memory"}, value : {"known"}, sized : {TRUE},
   priced : {TRUE}, sku : {"s1"}, regions : {{"home"}, {"home", "nowhere"}}]
  \cup
  [category : {"compute"}, kind : {"plain", "ocpu"}, value : {"known", "unknown"}, sized : {FALSE},
   priced : {TRUE}, sku : {"s1"}, regions : {{"home"}}]
=============================================================================
