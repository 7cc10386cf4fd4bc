---------------------------- MODULE OracleDriver ----------------------------
(***************************************************************************)
(* The Oracle driver: names without regard to case, tables of the user's    *)
(* schema without its name, columns selected by their physical names.       *)
(***************************************************************************)
EXTENDS Filters

CONSTANTS Failed, CurrentSchema    \* what SELECT USER FROM DUAL answers

OwnerScope(schemas) == {Upper[s] : s \in schemas}

QueryTables(db, schemas) ==
    LET wanted == IF schemas = {} THEN {CurrentSchema} ELSE OwnerScope(schemas)
    IN {QualifyTableName(t.schema, t.name, CurrentSchema) : t \in {x \in db : x.schema \in wanted}}

(* The columns of an unqualified table are those of every table of that     *)
(* name in the scope.                                                       *)
BuildTableSchema(db, name, schemas) ==
    LET owners == IF Qualified(name) THEN {Upper[name[1]]}
                  ELSE IF schemas = {} THEN {CurrentSchema} ELSE OwnerScope(schemas)
    IN UNION {t.columns : t \in {x \in db : x.schema \in owners /\ x.name = Upper[name[Len(name)]]}}

GetDatabaseSchema(db, schemas) ==
    [n \in QueryTables(db, schemas) |-> BuildTableSchema(db, n, schemas)]

SameName(a, b) == UpperName(a) = UpperName(b)

ColumnsOf(schema, name) == UNION {schema[n] : n \in {m \in DOMAIN schema : SameName(m, name)}}

(* The columns the fields name, by their physical names; none is an error. *)
ValidateTableAndFields(schema, table, fields) ==
    LET columns == ColumnsOf(schema, NormalizeTableNameForLookup(table, CurrentSchema))
    IN IF fields = {"*"} THEN columns
       ELSE IF \A f \in fields : \E col \in columns : EqualFold(col, f)
       THEN {col \in columns : \E f \in fields : EqualFold(col, f)} ELSE {}

-----------------------------------------------------------------------------
IsFilterConditionEmpty(c) == \A op \in Operators : c[op] = <<>>

IsLikelyUUIDField(field) == Upper[field] \in {"ORDER_ID", "PAID"}

ValidateUUIDFieldValues(c) ==
    \A op \in Operators \ {"ne", "like"} :
        \A x \in Range(c[op]) : x.kind \in Strings => x.kind = "uuid"

ValidateFilterCondition(field, c) ==
    /\ Len(c.between) \in {0, 2}
    /\ \A op \in Comparisons : Len(c[op]) \in {0, 1}
    /\ IsLikelyUUIDField(field) => ValidateUUIDFieldValues(c)

IsDateField(field) == Upper[field] = "CREATED_AT"
IsDateString(x) == x.kind \in {"day", "instant"}

AdjustEndDateIfNeeded(field, start, end) ==
    IF IsDateField(field) /\ IsDateString(start) /\ IsDateString(end) /\ end.kind = "day"
    THEN V("instant", 2 * end.at + 1) ELSE end

ApplyEqualsFilter(field, c) == IF c.eq = <<>> THEN {} ELSE {InClause(field, Range(c.eq))}

ApplyComparisonFilters(field, c) ==
    {CompareClause(field, op, c[op][1]) : op \in {o \in Comparisons : c[o] # <<>>}}

ApplyBetweenFilter(field, c) ==
    IF Len(c.between) # 2 THEN {}
    ELSE {CompareClause(field, "gte", c.between[1]),
          CompareClause(field, "lte", AdjustEndDateIfNeeded(field, c.between[1], c.between[2]))}

ApplyInFilters(field, c) ==
    (IF c.in = <<>> THEN {} ELSE {InClause(field, Range(c.in))})
    \cup (IF c.nin = <<>> THEN {} ELSE {NotInClause(field, Range(c.nin))})

ApplyNotEqualsFilter(field, c) == {NotInClause(field, {x}) : x \in Range(c.ne)}

ApplyLikeFilter(field, c) ==
    IF c.like # <<>> /\ c.like[1].kind \in Strings THEN {LikeClause(field, c.like[1])} ELSE {}

ApplyAdvancedFilter(field, c) ==
    UNION {ApplyEqualsFilter(field, c), ApplyComparisonFilters(field, c),
           ApplyBetweenFilter(field, c), ApplyInFilters(field, c),
           ApplyNotEqualsFilter(field, c), ApplyLikeFilter(field, c)}

(* The table is looked up by the name it was given, not by its normal form. *)
FilteredFields(schema, table, filter) ==
    {f \in DOMAIN filter : /\ \E col \in ColumnsOf(schema, table) : EqualFold(col, f)
                           /\ ~IsFilterConditionEmpty(filter[f])}

BuildAdvancedFilters(schema, table, filter) ==
    UNION {ApplyAdvancedFilter(CHOOSE col \in ColumnsOf(schema, table) : EqualFold(col, f), filter[f]) :
             f \in FilteredFields(schema, table, filter)}

(* External: the rows the table's name denotes on the server. *)
RowsOf(db, table) ==
    LET q == ParseQualifiedTableName(UpperName(table), CurrentSchema)
    IN UNION {t.rows : t \in {x \in db : x.schema = q[1] /\ x.name = q[2]}}

(* ExternalDataSource.Query, which is never given filters. *)
QueryAll(db, schema, table, fields) ==
    LET selected == ValidateTableAndFields(schema, table, fields)
    IN IF selected = {} THEN Failed ELSE Select(selected, RowsOf(db, table), {})

QueryWithAdvancedFilters(db, schema, table, fields, filter) ==
    LET selected == ValidateTableAndFields(schema, table, fields)
    IN IF \/ selected = {}
          \/ \E f \in FilteredFields(schema, table, filter) :
                ~ValidateFilterCondition(f, filter[f])
       THEN Failed
       ELSE Select(selected, RowsOf(db, table), BuildAdvancedFilters(schema, table, filter))

(* scanRows does not ask for the error that ended the stream. *)
ScanRows(answer, read) == [answer EXCEPT !.rows = @ \cap read]

-----------------------------------------------------------------------------
GetTableFilters(filters, table) == IF table \in DOMAIN filters THEN filters[table] ELSE <<>>

(* The schema of the data source is in lower case. *)
GetSchemaInfo(db, schemas) ==
    LET schema == GetDatabaseSchema(db, schemas)
    IN [n \in {LowerName(m) : m \in DOMAIN schema} |->
          {Lower[col] : col \in ColumnsOf(schema, n)}]

Query(db, tables, filters, table) ==
    LET schema == GetDatabaseSchema(db, GetUniqueSchemas(DOMAIN tables))
        filter == GetTableFilters(filters, table)
    IN IF DOMAIN filter = {} THEN QueryAll(db, schema, table, tables[table])
       ELSE QueryWithAdvancedFilters(db, schema, table, tables[table], filter)

=============================================================================
