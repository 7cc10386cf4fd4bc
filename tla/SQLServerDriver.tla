--------------------------- MODULE SQLServerDriver ---------------------------
(***************************************************************************)
(* The SQL Server driver: tables of dbo without the schema's name.           *)
(***************************************************************************)
EXTENDS Filters

CONSTANT Failed

DefaultSchema == "dbo"

QueryTables(db, schemas) ==
    LET scope == IF schemas = {} THEN {DefaultSchema} ELSE schemas
    IN {QualifyTableName(t.schema, t.name, DefaultSchema) : t \in {x \in db : x.schema \in scope}}

(* The columns of an unqualified table are those of every table of that     *)
(* name in the scope.                                                       *)
BuildTableSchema(db, name, schemas) ==
    LET scope == IF Qualified(name) THEN {name[1]}
                 ELSE IF schemas = {} THEN {DefaultSchema} ELSE schemas
    IN UNION {t.columns : t \in {x \in db : x.schema \in scope /\ x.name = name[Len(name)]}}

GetDatabaseSchema(db, schemas) ==
    [n \in QueryTables(db, schemas) |-> BuildTableSchema(db, n, schemas)]

Lookup(name) == NormalizeTableNameForLookup(name, DefaultSchema)

(* The fields to select; none is an error. *)
ValidateTableAndFields(schema, table, fields) ==
    IF Lookup(table) \notin DOMAIN schema THEN {}
    ELSE IF fields = {"*"} THEN schema[Lookup(table)]
    ELSE IF fields \subseteq schema[Lookup(table)] THEN fields ELSE {}

-----------------------------------------------------------------------------
IsFilterConditionEmpty(c) == \A op \in Operators : c[op] = <<>>

IsLikelyUUIDField(field) == Upper[field] \in {"ORDER_ID", "PAID"}

ValidateUUIDFieldValues(c) ==
    \A op \in Operators \ {"ne", "like"} :
        \A x \in Range(c[op]) : x.kind \in Strings => x.kind = "uuid"

ValidateFilterCondition(field, c) ==
    /\ Len(c.between) \in {0, 2}
    /\ \A op \in Comparisons : Len(c[op]) \in {0, 1}
    /\ IsLikelyUUIDField(field) => ValidateUUIDFieldValues(c)

IsDateField(field) == Upper[field] = "CREATED_AT"
IsDateString(x) == x.kind \in {"day", "instant"}

AdjustEndDateIfNeeded(field, start, end) ==
    IF IsDateField(field) /\ IsDateString(start) /\ IsDateString(end) /\ end.kind = "day"
    THEN V("instant", 2 * end.at + 1) ELSE end

ApplyEqualsFilter(field, c) == IF c.eq = <<>> THEN {} ELSE {InClause(field, Range(c.eq))}

ApplyComparisonFilters(field, c) ==
    {CompareClause(field, op, c[op][1]) : op \in {o \in Comparisons : c[o] # <<>>}}

ApplyBetweenFilter(field, c) ==
    IF Len(c.between) # 2 THEN {}
    ELSE {CompareClause(field, "gte", c.between[1]),
          CompareClause(field, "lte", AdjustEndDateIfNeeded(field, c.between[1], c.between[2]))}

ApplyInFilters(field, c) ==
    (IF c.in = <<>> THEN {} ELSE {InClause(field, Range(c.in))})
    \cup (IF c.nin = <<>> THEN {} ELSE {NotInClause(field, Range(c.nin))})

ApplyNotEqualsFilter(field, c) == {NotInClause(field, {x}) : x \in Range(c.ne)}

ApplyLikeFilter(field, c) ==
    IF c.like # <<>> /\ c.like[1].kind \in Strings THEN {LikeClause(field, c.like[1])} ELSE {}

ApplyAdvancedFilter(field, c) ==
    UNION {ApplyEqualsFilter(field, c), ApplyComparisonFilters(field, c),
           ApplyBetweenFilter(field, c), ApplyInFilters(field, c),
           ApplyNotEqualsFilter(field, c), ApplyLikeFilter(field, c)}

FilteredFields(schema, table, filter) ==
    {f \in DOMAIN filter : /\ Lookup(table) \in DOMAIN schema
                           /\ f \in schema[Lookup(table)]
                           /\ ~IsFilterConditionEmpty(filter[f])}

BuildAdvancedFilters(schema, table, filter) ==
    UNION {ApplyAdvancedFilter(f, filter[f]) : f \in FilteredFields(schema, table, filter)}

(* External: the rows the table's name denotes on the server. *)
RowsOf(db, table) ==
    LET q == ParseQualifiedTableName(table, DefaultSchema)
    IN UNION {t.rows : t \in {x \in db : x.schema = q[1] /\ x.name = q[2]}}

(* ExternalDataSource.Query, which is never given filters. *)
QueryAll(db, schema, table, fields) ==
    LET selected == ValidateTableAndFields(schema, table, fields)
    IN IF selected = {} THEN Failed ELSE Select(selected, RowsOf(db, table), {})

QueryWithAdvancedFilters(db, schema, table, fields, filter) ==
    LET selected == ValidateTableAndFields(schema, table, fields)
    IN IF \/ selected = {}
          \/ \E f \in FilteredFields(schema, table, filter) :
                ~ValidateFilterCondition(f, filter[f])
       THEN Failed
       ELSE Select(selected, RowsOf(db, table), BuildAdvancedFilters(schema, table, filter))

(* scanRows does not ask for the error that ended the stream. *)
ScanRows(answer, read) == [answer EXCEPT !.rows = @ \cap read]

-----------------------------------------------------------------------------
GetTableFilters(filters, table) ==
    IF table \in DOMAIN filters THEN filters[table]
    ELSE IF Qualified(table) /\ SplitSchemaTable(table) \in DOMAIN filters
         THEN filters[SplitSchemaTable(table)]
    ELSE IF ~Qualified(table) /\ <<DefaultSchema>> \o table \in DOMAIN filters
         THEN filters[<<DefaultSchema>> \o table]
    ELSE <<>>

GetSchemaInfo(db, schemas) == GetDatabaseSchema(db, schemas)

(* The scope is the schemas the tables name: unlike the PostgreSQL data      *)
(* source, not dbo for a table without one.                                 *)
Query(db, tables, filters, table) ==
    LET schema == GetDatabaseSchema(db, GetUniqueSchemas(DOMAIN tables))
        filter == GetTableFilters(filters, table)
    IN IF DOMAIN filter = {} THEN QueryAll(db, schema, table, tables[table])
       ELSE QueryWithAdvancedFilters(db, schema, table, tables[table], filter)

=============================================================================
