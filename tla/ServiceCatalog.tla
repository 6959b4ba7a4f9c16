--------------------------- MODULE ServiceCatalog ---------------------------
(***************************************************************************)
(* What publishing a pipeline promises, whatever happens on the way: a     *)
(* service is described by artifacts that are complete in length, a        *)
(* description is replaced or added but never taken away, and a publisher  *)
(* reports success only by a step that described the service.              *)
(***************************************************************************)
CONSTANTS Publishers, Services

VARIABLES
  catalog,    \* the descriptions of each service, [rid, artifact]
  complete,   \* artifacts of which all is stored
  status      \* "none", "working", "ok" or "failed", of each publisher

CatalogInit ==
  /\ catalog = [s \in Services |-> {}]
  /\ complete = {}
  /\ status = [p \in Publishers |-> "none"]

Start(p) ==
  /\ status[p] # "working"
  /\ status' = [status EXCEPT ![p] = "working"]
  /\ UNCHANGED <<catalog, complete>>

Complete ==
  /\ complete \subseteq complete' /\ complete # complete'
  /\ UNCHANGED <<catalog, status>>

\* Only here may a publisher succeed.
Describe(p, s) ==
  /\ status[p] = "working"
  /\ \E a \in complete :
       LET fresh == {r \in catalog'[s] : r \notin catalog[s]}
       IN  /\ \E r \in fresh : fresh = {r} /\ r.artifact = a
           /\ \/ catalog[s] \subseteq catalog'[s]
              \/ \E r \in catalog[s] : catalog[s] = {r}
  /\ catalog' = [catalog EXCEPT ![s] = catalog'[s]]
  /\ \E end \in {"working", "ok", "failed"} :
       status' = [status EXCEPT ![p] = end]
  /\ UNCHANGED complete

Fail(p) ==
  /\ status[p] \in {"none", "working", "ok", "failed"}
  /\ status' = [status EXCEPT ![p] = "failed"]
  /\ UNCHANGED <<catalog, complete>>

CatalogNext ==
  \/ \E p \in Publishers :
       \/ Start(p)
       \/ Fail(p)
       \/ \E s \in Services : Describe(p, s)
  \/ Complete

CatalogSpec == CatalogInit /\ [][CatalogNext]_<<catalog, complete, status>>
=============================================================================
