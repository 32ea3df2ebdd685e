----------------------------- MODULE MCRequests -----------------------------
(***************************************************************************)
(* Requests on a small instance: a request that makes a whole of two rows, *)
(* and a flush for another tenant.                                         *)
(***************************************************************************)
EXTENDS Requests, TLC

CONSTANTS req, flush, t1, t2

MCCalls == {<<req, "key">>, <<req, "handler">>, flush}

MCTenantOf == <<req, "key">> :> NULL @@ <<req, "handler">> :> t1 @@ flush :> t2

St(op, table, of, name) ==
  [op |-> op, table |-> table, of |-> of, name |-> name, refs |-> {}]

(* One statement on api_key; PostScheme of Catalog.tla; one INSERT.        *)
MCPrograms ==
     <<req, "key">> :> {<<St("list", "api_key", NULL, NULL)>>}
  @@ <<req, "handler">> :>
       {<<St("none", "progression_scheme", NULL, "belts"),
          St("insert", "progression_scheme", NULL, "belts"),
          St("insert", "rank", <<req, "handler">>, "1")>>}
  @@ flush :> {<<St("insert", "usage_event", NULL, NULL)>>}
=============================================================================
