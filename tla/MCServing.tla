----------------------------- MODULE MCServing ------------------------------
(* What stands between the user and the services, one after the other: the *)
(* process and its two loops, a REST request, a directory page and a form  *)
(* with a search.  `part` says which of them a behaviour is about.         *)
EXTENDS Server, Api, Pages, IsinSearch

VARIABLE part

servingVars == <<part, serverVars, apiVars, pageVars, isinVars>>

ServingInit ==
    /\ part \in {"server", "api", "page", "isin"}
    /\ ServerInit /\ ApiInit /\ IsinInit
    /\ IF part = "page" THEN PagesInit
       ELSE rows = NoRows /\ Rendered(CHOOSE h \in Handlers : TRUE)

ServingNext ==
    /\ UNCHANGED part
    /\ \/ part = "server" /\ ServerNext /\ UNCHANGED <<apiVars, pageVars, isinVars>>
       \/ part = "api" /\ ApiNext /\ UNCHANGED <<serverVars, pageVars, isinVars>>
       \/ part = "page" /\ PagesNext /\ UNCHANGED <<serverVars, apiVars, isinVars>>
       \/ part = "isin" /\ IsinNext /\ UNCHANGED <<serverVars, apiVars, pageVars>>

ServingSpec == ServingInit /\ [][ServingNext]_servingVars /\ ServerFairness
=============================================================================
