------------------------------ MODULE CrmSource ------------------------------
(***************************************************************************)
(* The plugin_crm source of the Worker: one logical collection is every      *)
(* MongoDB collection whose name it prefixes, some fields are stored        *)
(* encrypted, and those that may be searched also as a keyed hash.          *)
(***************************************************************************)
EXTENDS MongoDriver

CONSTANTS Prefixes,    \* the pairs <<p, w>> of words with p a prefix of w
          HashOf       \* GenerateHash: the rank of the hash of each text

(* Texts are hashed, other values kept. *)
HashFilterValues(values) ==
    [i \in DOMAIN values |->
       IF values[i].kind \in Strings THEN V("hash", HashOf[values[i].at]) ELSE values[i]]

SearchFields ==
    [x \in {"document", "name", "banking_details.iban", "contact.primary_email"} |->
       CASE x = "document" -> "search.document" [] x = "name" -> "search.name"
         [] x = "banking_details.iban" -> "search.banking_details_iban"
         [] x = "contact.primary_email" -> "search.contact_primary_email"]

(* A condition on a searchable field is one on its hash; ne and like are    *)
(* not carried over.                                                        *)
TransformPluginCRMAdvancedFilters(filter) ==
    LET searched == DOMAIN filter \cap DOMAIN SearchFields
        Hashed(c) == [op \in Operators |->
                        IF op \in {"ne", "like"} THEN <<>> ELSE HashFilterValues(c[op])]
        search == {SearchFields[x] : x \in searched}
    IN [f \in search \cup (DOMAIN filter \ searched) |->
          IF f \in search THEN Hashed(filter[CHOOSE x \in searched : SearchFields[x] = f])
          ELSE filter[f]]

(* decryptTopLevelFields, decryptContactFields, decryptBankingDetailsFields, *)
(* decryptRegulatoryFields, decryptRelatedParties, decryptLegalPersonFields, *)
(* decryptNaturalPersonFields: the fields of the instance that each decrypts. *)
TopLevelFields == {"document", "name"}
ContactFields == {"contact.primary_email"}
BankingDetailsFields == {"banking_details.iban"}
RegulatoryFields == {"regulatory_fields.participant_document"}
RelatedParties == {"related_parties.document"}
LegalPersonFields == {"legal_person.representative.email"}
NaturalPersonFields == {"natural_person.mother_name"}

NestedFields == UNION {ContactFields, BankingDetailsFields, RegulatoryFields,
                       RelatedParties, LegalPersonFields, NaturalPersonFields}

EncryptedFields == TopLevelFields \cup NestedFields

(* A value is only decrypted if it is a text, and a text that was never      *)
(* encrypted is an error.                                                   *)
Decryptable(doc) == \A f \in DOMAIN doc \cap EncryptedFields : doc[f].kind \notin Strings

DecryptFieldValue(v) == IF v.kind = "cipher" THEN V("text", v.at) ELSE v

DecryptRecord(doc) ==
    [f \in DOMAIN doc |-> IF f \in EncryptedFields
                          THEN DecryptFieldValue(doc[f]) ELSE doc[f]]

(* Nothing to decrypt asks for no key; one record that cannot be decrypted   *)
(* fails them all.                                                          *)
DecryptPluginCRMData(docs, keys) ==
    IF docs = {} THEN {}
    ELSE IF {"encrypt", "hash"} \subseteq keys /\ \A d \in docs : Decryptable(d)
    THEN {DecryptRecord(d) : d \in docs} ELSE Failed

-----------------------------------------------------------------------------
MatchingCollections(db, logical) ==
    {c \in ListCollectionNames(db) : <<logical, c>> \in Prefixes}

(* queryPluginCRMCollectionWithFilters: without a hash key a filter fails.  *)
QueryPluginCRMCollection(db, collection, fields, filter, keys) ==
    IF DOMAIN filter = {} THEN QueryAll(db, <<collection>>, fields)
    ELSE IF "hash" \notin keys THEN Failed
    ELSE QueryWithAdvancedFilters(db, <<collection>>, fields,
                                  TransformPluginCRMAdvancedFilters(filter))

(* External: a projection keeps the fields and what is inside them. *)
Projected(doc, fields) ==
    {f \in DOMAIN doc : \/ fields = {} \/ f \in fields
                        \/ \E p \in fields : <<p, f>> \in Prefixes}

(* processPluginCRMCollection: the documents of every matching collection,  *)
(* decrypted together.                                                      *)
ProcessPluginCRMCollection(db, matching, fields, filter, keys) ==
    LET answers == {QueryPluginCRMCollection(db, c, fields, filter, keys) : c \in matching}
        docs == UNION {a.rows : a \in answers}
        clear == DecryptPluginCRMData({[f \in Projected(d, fields) |-> d[f]] : d \in docs}, keys)
    IN IF Failed \in answers \/ clear = Failed THEN Failed
       ELSE [fields |-> fields, rows |-> docs, clear |-> clear]

QueryPluginCRM(db, logical, fields, filter, keys) ==
    LET matching == MatchingCollections(db, logical)
    IN IF matching = {} THEN Failed
       ELSE ProcessPluginCRMCollection(db, matching, fields, filter, keys)

-----------------------------------------------------------------------------
(* The Manager's reading of a logical collection: the collection of that     *)
(* name, or the first it prefixes.                                          *)
ResolvePhysicalCollection(logical, snapshot) ==
    LET matching == {n \in DOMAIN snapshot : <<logical[1], n[1]>> \in Prefixes}
    IN IF logical \in DOMAIN snapshot \/ matching = {} THEN logical
       ELSE CHOOSE n \in matching : TRUE

MapTablesForCRMCompatibility(tables, snapshot) ==
    LET Physical(t) == ResolvePhysicalCollection(t, snapshot)
    IN [n \in {Physical(t) : t \in DOMAIN tables} |->
          UNION {tables[t] : t \in {u \in DOMAIN tables : Physical(u) = n}}]

=============================================================================
