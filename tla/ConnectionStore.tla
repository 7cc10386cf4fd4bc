--------------------------- MODULE ConnectionStore ---------------------------
(***************************************************************************)
(* The connection collection of every tenant's database, behind            *)
(* ConnectionMongoDBRepository, and the rules of model.Connection.  Every   *)
(* operator is one command of the repository: atomic at MongoDB, with the   *)
(* condition of its filter and the unique index on the names of the         *)
(* connections that are not deleted.                                        *)
(*                                                                         *)
(* A document keeps the fields the rules tell apart.  ssl is the mode of    *)
(* its SSL settings, "off" when it has none; target is everything that says *)
(* which data source it reaches (host, port, database, user, password).     *)
(***************************************************************************)
EXTENDS ApiBase, SSLModes

CONSTANTS Products, Targets

VARIABLE conns   \* [Ids -> document]

Absent == [state |-> "absent", tenant |-> None, name |-> None, product |-> None,
           type |-> None, ssl |-> "off", target |-> None]

Documents ==
    [state : {"absent", "live", "deleted"}, tenant : Tenants \cup {None},
     name : Names \cup {None}, product : Products \cup {None},
     type : DBTypes \cup {"unknown", None}, ssl : Modes, target : Targets \cup {None}]

Live(c) == conns[c].state = "live"

(* IsValid: a connection needs a product, a known type and, with SSL        *)
(* settings, a mode that its type knows.                                    *)
IsValid(doc) ==
    /\ doc.product # None /\ doc.type \in DBTypes /\ doc.ssl # ""
    /\ doc.ssl = "off" \/ ValidateSSLModeForType(doc.type, doc.ssl)

(* NewConnection: a document from what was asked, with a password already   *)
(* encrypted in its target; IsValid decides.                                *)
NewConnection(t, asked) ==
    [state |-> "live", tenant |-> t, name |-> asked.name, product |-> asked.product,
     type |-> asked.type, ssl |-> asked.ssl, target |-> asked.target]

(* ApplyPatch: the fields of the patch are set, the others keep what was    *)
(* read.                                                                    *)
ApplyPatch(doc, patch) ==
    LET Patched(f) == IF f \in DOMAIN patch THEN patch[f] ELSE doc[f]
    IN [doc EXCEPT !.name = Patched("name"), !.type = Patched("type"),
                   !.ssl = Patched("ssl"), !.target = Patched("target")]

-----------------------------------------------------------------------------
(* FindByID does not see what is deleted, nor another tenant's database. *)
FindByID(t, c) == IF Live(c) /\ conns[c].tenant = t THEN conns[c] ELSE Absent

FindByName(t, n) == {c \in Ids : Live(c) /\ conns[c].tenant = t /\ conns[c].name = n}

(* The unique index: another document that is not deleted has the name. *)
Duplicate(t, n, c) == FindByName(t, n) \ {c} # {}

Put(c, doc) == conns' = [conns EXCEPT ![c] = doc]

(* Create: InsertOne. *)
InsertOne(c, doc) == ~Duplicate(doc.tenant, doc.name, c) /\ Put(c, doc)

(* Mutation: SSL settings are written only when there are any. *)
UpdatedSSLKept(c, doc) ==
    [doc EXCEPT !.product = conns[c].product,
                !.ssl = IF doc.ssl = "off" THEN conns[c].ssl ELSE doc.ssl]

(* Update: every field but the product is overwritten with what the caller  *)
(* has, provided the document is not deleted.                               *)
Updated(c, doc) == [doc EXCEPT !.product = conns[c].product]

Update(c, doc) ==
    /\ Live(c) /\ ~Duplicate(doc.tenant, doc.name, c)
    /\ Put(c, Updated(c, doc))

(* Mutation: the filter of the delete does not ask whether it is deleted. *)
CanDeleteAgain(c) == conns[c].state # "absent"

(* Delete: a soft delete of a document that is not deleted yet. *)
CanDelete(c) == Live(c)
SoftDelete(c) == CanDelete(c) /\ Put(c, [conns[c] EXCEPT !.state = "deleted"])

(* AssignProductName: only a document that has no product matches. *)
CanAssign(c) == Live(c) /\ conns[c].product = None
AssignProductName(c, p) == CanAssign(c) /\ Put(c, [conns[c] EXCEPT !.product = p])

=============================================================================
