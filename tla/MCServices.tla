----------------------------- MODULE MCServices -----------------------------
(* Callers, items and requests of the services, in the instances TLC checks. *)
EXTENDS Services, MCNormalizers, MCPricing

(* Who calls the rate limiter: three requests of one user whose third has a login route, or *)
(* two of one user and one of nobody, all from one address.                *)
Who(user, cookie, profile) == [user |-> user, cookie |-> cookie, ip |-> "a", profile |-> profile]
MCCalls == {"d1", "d2", "d3"}
MCCallers ==
  {[c \in MCCalls |-> IF c = "d3" THEN Who("u", "k", "login") ELSE Who("none", "k", "none")],
   [c \in MCCalls |-> IF c = "d3" THEN Who("none", "none", "none") ELSE Who("u", "k", "none")]}
MCTierRate == [k \in {"user", "profile", "anon", "ip"} |-> 1]
=============================================================================
