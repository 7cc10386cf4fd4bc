----------------------------- MODULE TableNames -----------------------------
(***************************************************************************)
(* Table names as the Manager, the Worker and the drivers spell and compare *)
(* them.  A name is the sequence of its identifiers: <<table>>,             *)
(* <<schema, table>> or <<catalog, schema, table>>.                         *)
(***************************************************************************)
EXTENDS Integers, Sequences

CONSTANTS Upper, Lower    \* strings.ToUpper and ToLower on the words of the instance

UpperName(name) == [i \in DOMAIN name |-> Upper[name[i]]]
LowerName(name) == [i \in DOMAIN name |-> Lower[name[i]]]
EqualFold(a, b) == Upper[a] = Upper[b]
Qualified(name) == Len(name) > 1

NoSchema == ""

(* ParseQualifiedTableName: <<schema, table>>; a catalog is dropped, and     *)
(* four parts are an error.                                                 *)
ParseQualifiedTableName(name, default) ==
    CASE Len(name) = 1 -> <<default, name[1]>>
      [] Len(name) = 2 -> <<name[1], name[2]>>
      [] Len(name) = 3 -> <<name[2], name[3]>>

NormalizeTableNameForLookup(name, default) ==
    LET q == ParseQualifiedTableName(name, default)
    IN IF Len(name) > 3 THEN name
       ELSE IF q[1] = NoSchema \/ (default # NoSchema /\ EqualFold(q[1], default))
            THEN <<q[2]>> ELSE q

QualifyTableName(schema, table, default) ==
    IF schema \in {default, NoSchema} THEN <<table>> ELSE <<schema, table>>

SplitSchemaTable(name) == IF Qualified(name) THEN Tail(name) ELSE name

(* GetUniqueSchemas: what is before the first dot. *)
GetUniqueSchemas(names) == {Head(n) : n \in {m \in names : Qualified(m)}}

-----------------------------------------------------------------------------
(* Package tablenorm: one spelling per table and field for each type. *)

DefaultSchemaForType(type) ==
    CASE type = "POSTGRESQL" -> "public" [] type = "SQL_SERVER" -> "dbo" [] OTHER -> NoSchema

FoldsFieldCase(type) == type = "ORACLE"

NormalizeTable(type, name) ==
    LET n == NormalizeTableNameForLookup(name, DefaultSchemaForType(type))
    IN IF FoldsFieldCase(type) THEN UpperName(n) ELSE n

NormalizeField(type, field) == IF FoldsFieldCase(type) THEN Upper[field] ELSE field

SchemaScopeForTables(type, names) ==
    LET named == GetUniqueSchemas(names)
        default == DefaultSchemaForType(type)
    IN IF default # NoSchema /\ \E n \in names : ~Qualified(n)
       THEN named \cup {default} ELSE named

-----------------------------------------------------------------------------
(* System tables, by the identifiers of the instance that begin with a      *)
(* prefix, or are one of the names, that the code lists.                    *)

IsPostgreSQLSystemTable(name) == Head(name) \in {"pg_stats", "information_schema"}
IsMySQLSystemTable(name) == name \in {<<"mysql">>, <<"information_schema">>}
IsOracleSystemTable(name) == Upper[Head(name)] \in {"LOGMNR_LOG", "PLAN_TABLE"}
IsSQLServerSystemTable(name) == name = <<"sys">> \/ Head(name) = "db_backup"
IsMongoDBSystemCollection(name) == name = <<"admin">> \/ (Qualified(name) /\ Head(name) = "system")

IsSystemTable(type, name) ==
    CASE type = "POSTGRESQL" -> IsPostgreSQLSystemTable(name)
      [] type = "MYSQL" -> IsMySQLSystemTable(name)
      [] type = "ORACLE" -> IsOracleSystemTable(name)
      [] type = "SQL_SERVER" -> IsSQLServerSystemTable(name)
      [] type = "MONGODB" -> IsMongoDBSystemCollection(name)

=============================================================================
