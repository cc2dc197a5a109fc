--------------------------- MODULE MCResourceManager ---------------------------
(* Instances of ResourceManager for TLC.                                   *)
EXTENDS ResourceManager, TLC

CONSTANTS c1, c2, c3

(* The registry lists itself, two services which share the endpoint of     *)
(* their jobs, one of which also has an endpoint below it, and between them*)
(* a service of which no client can be made.                               *)
MCCallers == {c1, c2, c3}
TwoCallers == {c1, c2}
MCTypes == {"Service", "Job", "Other"}
MCServices == {"registry", "storage", "broken", "transform"}
MCRegistered == <<"storage", "registry", "broken", "transform">>

Resource(t, path) == [resourceType |-> t, httpEndpoint |-> path]
MCResourcesOf ==
     "registry"  :> <<Resource("Service", <<"services">>)>>
  @@ "storage"   :> <<Resource("Job", <<"jobs">>)>>
  @@ "broken"    :> <<Resource("Other", <<"broken">>)>>
  @@ "transform" :> <<Resource("Job", <<"jobs">>), Resource("Other", <<"jobs", "x">>)>>

MCUrls == {<<"jobs", "x", "1">>}

CallerSymmetry == Permutations(MCCallers)
=============================================================================
