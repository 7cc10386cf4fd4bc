---------------------------- MODULE MCConnections ----------------------------
(* Three requests at a time over three stored connections: one of a product, *)
(* one from before there were products, and one of another tenant under the  *)
(* name of the first.                                                        *)
EXTENDS ConnectionApi, TLC

Doc(t, n, p) == [state |-> "live", tenant |-> t, name |-> n, product |-> p,
                 type |-> "POSTGRESQL", ssl |-> "off", target |-> "d1"]

MCIds == {"c1", "c2", "c3", "c4"}
MCStoredFirst == [c \in MCIds |-> CASE c = "c1" -> Doc("t1", "n1", "p1")
                                    [] c = "c2" -> Doc("t1", "n2", None)
                                    [] c = "c3" -> Doc("t2", "n1", "p1")
                                    [] OTHER -> Absent]

Patch(c, patch) == [kind |-> "update", tenant |-> "t1", id |-> c, patch |-> patch]
On(kind, t, c) == [kind |-> kind, tenant |-> t, id |-> c]

(* Calls that write connections, with a job over one of them. *)
Writers ==
    {Patch("c1", [name |-> "n3", target |-> "d2"]), Patch("c1", [ssl |-> "verify-full"]),
     Patch("c1", [type |-> "MYSQL"]), Patch("c2", [target |-> "d2"]), On("delete", "t1", "c1"),
     [kind |-> "assign", tenant |-> "t1", id |-> "c2", product |-> "p1"],
     [kind |-> "assign", tenant |-> "t1", id |-> "c2", product |-> "p2"],
     [kind |-> "create", tenant |-> "t1", 
      asked |-> [name |-> "n3", product |-> "p2", type |-> "POSTGRESQL", ssl |-> "off", target |-> "d1"]],
     [kind |-> "submit", tenant |-> "t1", name |-> "n1", product |-> "p1"]}

(* Calls that read them, while their data source is changed. *)
Readers ==
    {[kind |-> "validate", tenant |-> "t1", name |-> "n1"],
     [kind |-> "validate", tenant |-> "t2", name |-> "n1"],
     On("schema", "t1", "c1"), On("test", "t1", "c1"), Patch("c1", [target |-> "d2"])}

MCCalls == [Requests -> Writers] \cup [Requests -> Readers]


MCKeys == Tenants \X Ids

Symmetric == Permutations(Requests)
=============================================================================
