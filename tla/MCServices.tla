----------------------------- MODULE MCServices -----------------------------
(***************************************************************************)
(* Services that answer requests, any one of them, on small instances for  *)
(* TLC: the four rate limiters and the three-tier store of the             *)
(* autocomplete.  They share nothing; the variables of the ones that do    *)
(* not run keep their initial values.                                      *)
(***************************************************************************)
EXTENDS MCRateLimiters, TieredStore, TLC

VARIABLE service

limiterVars == <<vars, windowOnly, limiter>>

ServicesInit ==
  /\ LimiterInit /\ StoreInit
  /\ \/ service = "limiter"
     \/ service = "store" /\ limiter = "fixed"

ServicesNext ==
  /\ UNCHANGED service
  /\ \/ service = "limiter" /\ LimiterNext /\ UNCHANGED storeVars
     \/ service = "store" /\ StoreNext /\ UNCHANGED limiterVars

ServicesSpec == ServicesInit /\ [][ServicesNext]_<<service, limiterVars, storeVars>>

\* Prefixes are told apart by nothing but themselves, and so are API servers.
StoreSymmetry == Permutations(Keys) \cup Permutations(Servers)
=============================================================================
