----------------------------- MODULE MongoDriver -----------------------------
(***************************************************************************)
(* The MongoDB driver.  A document is a function from its own fields; a      *)
(* filter maps a field to the values of each Mongo operator, so that what   *)
(* is put under an operator last replaces what was there.                   *)
(***************************************************************************)
EXTENDS Filters

CONSTANTS Failed,
          ScanLimit,   \* bound: documents discovery reads of one collection
          TopLevel     \* of the path of a field, the field of the document it is in

(* calculateOptimalSampleSize, discoverFieldsWithSampling: larger           *)
(* collections are sampled.                                                 *)
SampleSize(count) == IF count <= ScanLimit THEN count ELSE ScanLimit

Samples(docs) == {s \in SUBSET docs : Cardinality(s) = SampleSize(Cardinality(docs))}

(* Only the fields of the document itself, not those of its objects. *)
DiscoverAllFields(sample) == {TopLevel[f] : f \in UNION {DOMAIN d : d \in sample}}

(* The collections and, of each, the fields of the documents sampled; a      *)
(* collection whose discovery fails is listed without fields.               *)
GetDatabaseSchemas(db) ==
    LET collections == {t.name : t \in db}
        Of(n) == (CHOOSE t \in db : t.name = n).rows
        Known(n) == {DiscoverAllFields(s) : s \in Samples(Of(n))} \cup {{}}
    IN {f \in [{<<n>> : n \in collections} -> UNION {Known(n) : n \in collections}] :
          \A n \in collections : f[<<n>>] \in Known(n)}

ListCollectionNames(db) == {t.name : t \in db}

-----------------------------------------------------------------------------
IsFilterConditionEmpty(c) == \A op \in Operators : c[op] = <<>>

ValidateFilterCondition(c) ==
    Len(c.between) \in {0, 2} /\ \A op \in Comparisons : Len(c[op]) \in {0, 1}

(* filter[key] = values; what was there is replaced. *)
Put(filter, key, values) ==
    IF values = <<>> THEN filter
    ELSE [k \in DOMAIN filter \cup {key} |-> IF k = key THEN values ELSE filter[k]]

ApplyMongoComparisonOperators(filter, c) ==
    LET gt == Put(filter, "$gt", c.gt)
        gte == Put(gt, "$gte", c.gte)
        lt == Put(gte, "$lt", c.lt)
        lte == Put(lt, "$lte", c.lte)
        between == IF c.between = <<>> THEN lte
                   ELSE Put(Put(lte, "$gte", <<c.between[1]>>), "$lte", <<c.between[2]>>)
    IN Put(Put(between, "$in", c.in), "$nin", c.nin)

ApplyMongoNotEquals(filter, c) == Put(filter, IF Len(c.ne) = 1 THEN "$ne" ELSE "$nin", c.ne)

ApplyMongoLikePattern(filter, c) ==
    IF c.like # <<>> /\ c.like[1].kind \in Strings THEN Put(filter, "$regex", <<c.like[1]>>) ELSE filter

(* One value to be equal to is left out when there is any other operator. *)
ConvertFilterConditionToMongoFilter(c) ==
    LET equals == IF Len(c.eq) > 1 THEN Put(<<>>, "$in", c.eq) ELSE <<>>
        filter == ApplyMongoLikePattern(
                    ApplyMongoNotEquals(ApplyMongoComparisonOperators(equals, c), c), c)
    IN IF DOMAIN filter = {} THEN Put(<<>>, "$eq", c.eq) ELSE filter

BuildMongoFilter(filter) ==
    [f \in {g \in DOMAIN filter : ~IsFilterConditionEmpty(filter[g])} |->
       ConvertFilterConditionToMongoFilter(filter[f])]

-----------------------------------------------------------------------------
(* convertSQLLikeToRegex: % is .*, _ is a dot; a leading or trailing .* is   *)
(* left out and every other end anchored.  Nothing is escaped: a dot of the *)
(* pattern is a dot of the expression.                                      *)
Starts(p) == p # <<>> /\ Head(p) = "%"
Ends(p) == p # <<>> /\ p[Len(p)] = "%"

ConvertSQLLikeToRegex(p) ==
    LET q == IF Starts(p) THEN Tail(p) ELSE p
    IN [start |-> ~Starts(p), end |-> ~Ends(q),
        body |-> IF Ends(q) THEN SubSeq(q, 1, Len(q) - 1) ELSE q]

(* External: the server's regular expressions, option "i". *)
RegexMatches(r, s) == \E cut \in Cuts(r.body, s) :
    /\ (r.start => cut[1] = 1) /\ (r.end => cut[Len(r.body) + 1] = Len(s) + 1)
    /\ \A i \in 1..Len(r.body) :
         IF r.body[i] = "%" THEN cut[i] <= cut[i + 1]
         ELSE /\ cut[i + 1] = cut[i] + 1
              /\ r.body[i] \in {"_", "."} \/ EqualFold(r.body[i], s[cut[i]])

-----------------------------------------------------------------------------
(* External: the server's evaluation of one operator.  Values of different  *)
(* types are never equal or ordered, and a field that is missing equals     *)
(* nothing.                                                                 *)
Evaluates(doc, field, key, values) ==
    LET v == IF field \in DOMAIN doc THEN doc[field] ELSE Null
        Equal(x) == v = x
        Is(op) == v.kind = values[1].kind /\ Stands(v, op, values[1])
    IN CASE key \in {"$eq", "$in"} -> \E x \in Range(values) : Equal(x)
         [] key \in {"$ne", "$nin"} -> \A x \in Range(values) : ~Equal(x)
         [] key = "$gt" -> Is("gt") [] key = "$gte" -> Is("gte")
         [] key = "$lt" -> Is("lt") [] key = "$lte" -> Is("lte")
         [] key = "$regex" -> /\ v.kind = "text"
                              /\ RegexMatches(ConvertSQLLikeToRegex(Patterns[values[1].at]), Texts[v.at])

Find(docs, filter) ==
    {d \in docs : \A f \in DOMAIN filter : \A key \in DOMAIN filter[f] :
                    Evaluates(d, f, key, filter[f][key])}

(* buildFindOptions: no field, or * first, projects nothing away. *)
Projection(docs, fields) ==
    IF fields = {} \/ fields = {"*"} THEN UNION {DOMAIN d : d \in docs} ELSE fields

Documents(db, collection) == UNION {t.rows : t \in {x \in db : <<x.name>> = collection}}

(* ExternalDataSource.Query, which is never given filters. *)
QueryAll(db, collection, fields) ==
    [fields |-> Projection(Documents(db, collection), fields), rows |-> Documents(db, collection)]

QueryWithAdvancedFilters(db, collection, fields, filter) ==
    LET docs == Documents(db, collection)
    IN IF \E f \in DOMAIN filter :
            ~IsFilterConditionEmpty(filter[f]) /\ ~ValidateFilterCondition(filter[f])
       THEN Failed
       ELSE [fields |-> Projection(docs, fields), rows |-> Find(docs, BuildMongoFilter(filter))]

(* processQueryResults: a cursor that ends with an error is one. *)
ProcessQueryResults(answer, read) == IF answer.rows \subseteq read THEN answer ELSE Failed

GetCollectionFilters(filters, collection) ==
    IF collection \in DOMAIN filters THEN filters[collection] ELSE <<>>

GetSchemaInfos(db) == GetDatabaseSchemas(db)

Query(db, tables, filters, table) ==
    LET filter == GetCollectionFilters(filters, table)
    IN IF DOMAIN filter = {} THEN QueryAll(db, table, tables[table])
       ELSE QueryWithAdvancedFilters(db, table, tables[table], filter)

=============================================================================
