----------------------------- MODULE MCDataPath -----------------------------
(***************************************************************************)
(* The data path over small databases: two tables called orders, in the     *)
(* default schema and in another one, and requests that spell tables in      *)
(* every way, combine up to two operators on a field, and meet the limits.  *)
(***************************************************************************)
EXTENDS DataPath, TLC

(* Words in lower and in upper case. *)
Cases == << <<"orders", "ORDERS">>, <<"sales", "SALES">>, <<"public", "PUBLIC">>, <<"dbo", "DBO">>,
   <<"own", "OWN">>, <<"shop", "SHOP">>, <<"cat", "CAT">>, <<"amount", "AMOUNT">>, <<"created_at", "CREATED_AT">>,
   <<"paid", "PAID">>, <<"name", "NAME">>, <<"region", "REGION">>, <<"pg_stats", "PG_STATS">>,
   <<"logmnr_log", "LOGMNR_LOG">>, <<"sys", "SYS">>, <<"mysql", "MYSQL">>, <<"admin", "ADMIN">>,
   <<"holders", "HOLDERS">>, <<"holders_o1", "HOLDERS_O1">>, <<"holders_o2", "HOLDERS_O2">>,
   <<"document", "DOCUMENT">>, <<"contact", "CONTACT">>, <<"gone", "GONE">>,
   <<"contact.primary_email", "CONTACT.PRIMARY_EMAIL">>, <<"related_parties.document", "RELATED_PARTIES.DOCUMENT">>,
   <<"search.document", "SEARCH.DOCUMENT">>, <<"search", "SEARCH">>, <<"search.contact_primary_email", "SEARCH.CONTACT_PRIMARY_EMAIL">>,
   <<"aliases", "ALIASES">>, <<"aliases_o1", "ALIASES_O1">>,
   <<"related_parties", "RELATED_PARTIES">>, <<"a", "A">>, <<"b", "B">>, <<".", ".">>, <<"*", "*">> >>
Words == UNION {Range(Cases[i]) : i \in DOMAIN Cases}
PairOf(w) == CHOOSE p \in Range(Cases) : w \in Range(p)
MCUpper == [w \in Words |-> PairOf(w)[2]]
MCLower == [w \in Words |-> PairOf(w)[1]]

MCTexts == << <<"a", "b">>, <<"A", "a", "b">>, <<"b">> >>
MCPatterns == << <<"a", "%">>, <<"%", "b">>, <<"%", "a", "%">>, <<"_", "b">>, <<"%">>, <<"a", ".">>, <<"b">> >>
MCPrefixes == {<<"aliases", "aliases_o1">>, <<"holders", "holders_o1">>, <<"holders", "holders_o2">>,
               <<"contact", "contact.primary_email">>, <<"related_parties", "related_parties.document">>,
               <<"search", "search.document">>, <<"search", "search.contact_primary_email">>}
MCTopLevel == [f \in Words |->
                 IF \E p \in MCPrefixes : p[2] = f THEN (CHOOSE p \in MCPrefixes : p[2] = f)[1] ELSE f]
MCHashOf == [i \in 1..3 |-> 4 - i]
MCLimits == [datasources |-> 2, tables |-> 2, fields |-> 3]

-----------------------------------------------------------------------------
Fold(t, w) == IF t = "ORACLE" THEN MCUpper[w] ELSE w
Home(t) == CASE t = "POSTGRESQL" -> "public" [] t = "SQL_SERVER" -> "dbo"
             [] t = "ORACLE" -> "OWN" [] t = "MYSQL" -> "shop" [] OTHER -> NoSchema

Row(t, amount, at, name) ==
    [c \in {Fold(t, w) : w \in {"amount", "created_at", "paid", "name"}} |->
       CASE c = Fold(t, "amount") -> amount [] c = Fold(t, "name") -> name [] OTHER -> at]

Orders(t) == [schema |-> Home(t), name |-> Fold(t, "orders"),
    columns |-> {Fold(t, w) : w \in {"amount", "created_at", "paid", "name"}},
    rows |-> {Row(t, V("num", 1), V("time", 2), V("text", 1)),
              Row(t, V("num", 2), V("time", 3), V("text", 2)),
              Row(t, V("num", 3), V("time", 4), V("text", 3)),
              Row(t, Null, Null, Null)}]
Sales(t) == [schema |-> Fold(t, "sales"), name |-> Fold(t, "orders"),
    columns |-> {Fold(t, "amount"), Fold(t, "region")},
    rows |-> {[c \in {Fold(t, "amount"), Fold(t, "region")} |-> V("num", n)] : n \in {1, 3}}]
System(t) == [schema |-> Home(t), columns |-> {Fold(t, "amount")}, rows |-> {},
    name |-> CASE t = "POSTGRESQL" -> "pg_stats" [] t = "ORACLE" -> "LOGMNR_LOG"
               [] t = "SQL_SERVER" -> "sys" [] t = "MYSQL" -> "mysql" [] OTHER -> "admin"]

Holder(n, org) == [f \in {"document", "search.document", "contact.primary_email", "search.contact_primary_email",
                          "related_parties.document"} |->
    IF f \in {"search.document", "search.contact_primary_email"} THEN V("hash", MCHashOf[n])
    ELSE IF f = "related_parties.document" /\ n = 3 THEN Null ELSE V("cipher", n)]
Holders == {[schema |-> NoSchema, name |-> "holders_o1", columns |-> {}, rows |-> {Holder(1, 1), Holder(2, 1)}],
            [schema |-> NoSchema, name |-> "holders_o2", columns |-> {}, rows |-> {Holder(3, 2)}],
            [schema |-> NoSchema, name |-> "aliases_o1", columns |-> {},
             rows |-> {[Holder(1, 1) EXCEPT !["related_parties.document"] = V("text", 1)]}]}

SQL == {"POSTGRESQL", "SQL_SERVER", "ORACLE", "MYSQL"}
Types == SQL \cup {"MONGODB"}
MCDatabases == [t \in Types |->
    IF t = "MONGODB" THEN {Orders(t), System(t)} \cup Holders ELSE {Orders(t), Sales(t), System(t)}]

-----------------------------------------------------------------------------
NoOverrides == [k \in DOMAIN MCLimits |-> 0]
R(t, tables, filters) ==
    [deployment |-> <<"stored", t>>, tenant |-> "", config |-> "c", others |-> {}, tables |-> tables,
     filters |-> filters, overrides |-> NoOverrides, keys |-> {}, origin |-> "client"]

(* Spellings of the two tables, alone and together, with one or two fields. *)
Qualifier(t) == IF t = "MONGODB" THEN "cat" ELSE Home(t)
Spellings(t) == {<<"orders">>, <<"ORDERS">>, <<Qualifier(t), "orders">>, <<MCUpper[Qualifier(t)], "orders">>,
                 <<"sales", "orders">>, <<"cat", "sales", "orders">>, <<System(t).name>>}
FieldSets == {{}, {"amount"}, {"AMOUNT", "name"}, {"amount", "name"}, {"gone"}, {"*"}}
OneOf(c) == [NoCondition EXCEPT !["gt"] = <<c>>]
NameFilters(names) ==
    {<<>>} \cup {n :> (f :> OneOf(V("num", 2))) : n \in names, f \in {"amount", "AMOUNT", "gone"}}
    \cup {[n \in names |-> "amount" :> OneOf(V("num", IF n = <<"orders">> THEN 1 ELSE 2))]}
NameRequests(t) ==
    UNION {{R(t, [n \in names |-> fields], <<>>) : fields \in FieldSets}
           \cup {R(t, [n \in names |-> fields], filters) :
                   fields \in {{"amount"}, {"AMOUNT", "name"}}, filters \in NameFilters(names)} :
             names \in {s \in SUBSET Spellings(t) : Cardinality(s) \in 1..2}}
    \cup {R(t, <<"orders">> :> {"amount"} @@ <<"sales", "orders">> :> {"region"}, <<>>),
          R(t, <<"orders">> :> {"amount"} @@ <<Qualifier(t), "orders">> :> {"name"}, <<>>),
          [R(t, <<"orders">> :> {"amount"}, <<>>) EXCEPT !.deployment = <<"sales", t>>],
          [R(t, <<"orders">> :> {"amount"}, <<>>) EXCEPT !.config = "nobody"],
          R(t, <<"orders">> :> {"amount"},
            <<"orders">> :> ("amount" :> OneOf(V("num", 1)) @@ "AMOUNT" :> OneOf(V("num", 2)))),
          R(t, <<>>, <<>>)}

(* Conditions of one or two operators. *)
Values(f) == IF f = "amount" THEN {V("num", 1), V("num", 2)}
             ELSE IF f = "name" THEN {V("text", 1), V("text", 2)}
             ELSE {V("day", 1), V("instant", 3), V("day", 2)}
Pairs(f) == {<<x, y>> : x \in Values(f), y \in Values(f)}
ListsOf(op, f) ==
    IF op = "like" THEN {<<V("pattern", i)>> : i \in DOMAIN MCPatterns} \cup {<<V("num", 1)>>}
    ELSE IF op = "between" THEN Pairs(f) \cup {<<x>> : x \in {V("num", 1)}}
    ELSE IF op \in Comparisons THEN {<<x>> : x \in Values(f)} \cup {<<x, x>> : x \in {V("num", 1)}}
    ELSE {<<x>> : x \in Values(f)} \cup {p \in Pairs(f) : p[1] # p[2] /\ p[1].kind = p[2].kind}
Single(f) == UNION {{[NoCondition EXCEPT ![op] = l] : l \in ListsOf(op, f)} :
                      op \in IF f = "name" THEN {"eq", "ne", "nin", "like"} ELSE Operators \ {"like"}}
Small(f) == {c \in Single(f) : \A op \in Operators :
                 c[op] \in {<<>>, <<V("num", 2)>>, <<V("num", 1), V("num", 2)>>}}
Both(c, d) == [op \in Operators |-> IF c[op] = <<>> THEN d[op] ELSE c[op]]
Conditions(f) == Single(f) \cup {NoCondition}
    \cup (IF f = "amount" THEN {Both(c, d) : c \in Small(f), d \in Small(f)} ELSE {})
FilterRequests(t) ==
    UNION {{R(t, <<"orders">> :> {"amount"}, <<"orders">> :> (f :> c)) : c \in Conditions(f)} :
             f \in {"amount", "created_at", "paid", "name"}}
    \cup {R(t, <<"orders">> :> {"amount"}, <<"orders">> :> ("amount" :> c @@ "name" :> d)) :
            c \in {[NoCondition EXCEPT !["lte"] = <<V("num", 2)>>]}, d \in Single("name")}

LimitRequests == UNION {{
    [R("POSTGRESQL", <<"orders">> :> fields, <<>>) EXCEPT !.overrides = [datasources |-> 0, tables |-> a, fields |-> b]] :
       fields \in {{"amount"}, {"amount", "name", "paid"}, {"amount", "name", "paid", "created_at"}}} :
         a \in 0..3, b \in 0..4}
    \cup {[R("POSTGRESQL", <<"orders">> :> {"amount"}, <<>>) EXCEPT !.deployment = <<"env">>, !.others = o,
                                                                  !.overrides.datasources = n] :
            o \in {{}, {"d"}, {"d", "midaz_transaction"}, {"d", "nobody"}}, n \in 0..3}
    \cup {R("POSTGRESQL", <<"orders">> :> {"amount"}, <<"orders">> :> <<>>)}
    \cup {R("POSTGRESQL", [n \in {<<"orders">>, <<"public", "orders">>, <<"sales", "orders">>} |-> {"amount"}], <<>>)}

(* Catalogs with the name of a schema. *)
CatalogRequests ==
    {R(t, <<"sales", c, "orders">> :> {"amount"} @@ <<"orders">> :> {f}, <<>>) :
       t \in SQL, c \in {"dbo", "public", "own"}, f \in {"amount", "region"}}
    \cup {R(t, [n \in {<<c, "sales", "orders">>, <<"sales", "orders">>, <<"orders">>} |-> {"amount"}], <<>>) :
            t \in SQL, c \in {"own", "dbo", "public", "cat"}}

-----------------------------------------------------------------------------
(* Deployments.  A place is named after its tenant and its datasource.      *)

Secret(place) == [secret |-> place, chars |-> "letters", sealed |-> FALSE]
Chars == {"letters", "symbols", "spaces"}
Password(place, chars) == [Secret(place) EXCEPT !.chars = chars]

StoredAt(place, t, ssl, chars, schema, host) ==
    [id |-> <<"stored", place>>, config |-> place[2], type |-> t, place |-> place, host |-> host, user |-> "own",
     key |-> TRUE, password |-> [Password(place, chars) EXCEPT !.sealed = TRUE], ssl |-> ssl,
     auth |-> "", service |-> IF t = "ORACLE" THEN "XE" ELSE "", schema |-> schema]
OneTenant(stored, env) ==
    [mode |-> "single", env |-> env, tenants |-> <<>>, clients |-> {}, default |-> FALSE,
     stored |-> ("" :> stored)]
Entry(place, t, ssl) ==
    [config |-> place[2], type |-> t, place |-> place, user |-> "own", password |-> Secret(place),
     ssl |-> ssl, auth |-> "", service |-> ""]

(* Entries with a wrong type, mode or name, and a second one of a name. *)
Env == << Entry(<<"", "midaz_fees">>, "POSTGRESQL", ""), Entry(<<"", "plugin_crm">>, "MONGO", "enable"),
          Entry(<<"", "midaz_onboarding">>, "POSTGRESQL", "on"), Entry(<<"", "plugin_crm">>, "MONGODB", "enable"),
          [Entry(<<"other", "plugin_crm">>, "MONGODB", "disable") EXCEPT !.config = "plugin_crm"],
          Entry(<<"", "midaz_transaction">>, "POSTGRESQL", "require") >>

(* Tenants: the TLS of a MongoDB in its fields or in its URI. *)
NoURI == [tls |-> FALSE, insecure |-> FALSE, auth |-> ""]
Postgres(place) == [type |-> "POSTGRESQL", place |-> place, user |-> "sales", password |-> Secret(place),
                    ssl |-> "require", auth |-> "", service |-> ""]
Mongo(place, tls, skip, uri, auth) ==
    [type |-> "MONGODB", place |-> place, user |-> "own", password |-> Secret(place), tls |-> tls, skip |-> skip,
     uri |-> uri, auth |-> auth]
Ledger(t) == [onboarding |-> Postgres(<<t, "midaz_onboarding">>), transaction |-> Postgres(<<t, "midaz_transaction">>)]
TenantAnswers ==
    [t1 |-> "ledger" :> Ledger("t1") @@
            "plugin-crm" :> ("crm-api" :> Mongo(<<"t1", "plugin_crm">>, TRUE, FALSE, NoURI, "users")),
     t2 |-> "ledger" :> [transaction |-> Postgres(<<"t2", "midaz_transaction">>)] @@
            "plugin-crm" :> ("crm-api" :> Mongo(<<"t2", "plugin_crm">>, FALSE, FALSE,
                                                [tls |-> TRUE, insecure |-> TRUE, auth |-> "users"], ""))]
Multi(clients, default) ==
    [mode |-> "multi", env |-> <<>>, tenants |-> TenantAnswers, clients |-> clients, default |-> default,
     stored |-> [t \in {"t1", "t2"} |->
        << StoredAt(<<t, "c">>, IF t = "t1" THEN "MYSQL" ELSE "SQL_SERVER", "true", "letters", NoSchema, "open"),
           StoredAt(<<t, "inside">>, "POSTGRESQL", "require", "letters", NoSchema, "forbidden"),
           [StoredAt(<<t, "hidden">>, "MYSQL", "true", "letters", NoSchema, "open")
              EXCEPT !.config = "midaz_onboarding"] >>]]

Modes == {"", "disable", "false", "true", "require", "prefer", "preferred", "skip-verify", "insecure", "strict", "TRUE"}
MCDeployments ==
    [n \in {<<"stored", t>> : t \in Types} |-> OneTenant(<<StoredAt(<<"", "c", n[2]>>, n[2], "", "letters", NoSchema, "open")>>, <<>>)]
    @@ [n \in {<<"sales", t>> : t \in Types} |-> OneTenant(<<StoredAt(<<"", "c", n[2]>>, n[2], "", "letters", "sales", "open")>>, <<>>)]
    @@ [n \in {<<"ssl", t, m, ch>> : t \in Types, m \in Modes, ch \in Chars} |->
          OneTenant(<<StoredAt(<<"", "c", n[2], n[3], n[4]>>, n[2], n[3], n[4], NoSchema, "open")>>, <<>>)]
    @@ (<<"env">> :> OneTenant(<<StoredAt(<<"", "c", "POSTGRESQL">>, "POSTGRESQL", "", "letters", NoSchema, "open"),
                               [StoredAt(<<"", "hidden">>, "MYSQL", "true", "letters", NoSchema, "open")
                                  EXCEPT !.config = "midaz_transaction"],
                               StoredAt(<<"", "d">>, "ORACLE", "", "letters", NoSchema, "open")>>, Env))
    @@ (<<"multi">> :> Multi({"plugin-crm"}, TRUE)) @@ (<<"keyed">> :> Multi({"plugin-crm"}, FALSE))

AllConnections == UNION {UNION {Range(MCDeployments[n].stored[t]) : t \in DOMAIN MCDeployments[n].stored} :
                           n \in DOMAIN MCDeployments}
Platform == {"", "t1", "t2", "other"} \X {"midaz_onboarding", "midaz_transaction", "plugin_crm"}
Places == {c.place : c \in AllConnections} \cup Platform
MCAccounts == [p \in Places |->
    [password |-> Password(p, IF Len(p) > 3 THEN p[5] ELSE "letters"),
     auth |-> IF p \in Platform THEN IF p[2] # "plugin_crm" THEN "" ELSE IF p[1] \in {"t1", "t2"} THEN "users" ELSE "own"
              ELSE IF Len(p) > 2 /\ p[3] = "MONGODB" THEN "admin" ELSE ""]]
MCWanted == [p \in Places |->
    [tenant |-> p[1], config |-> p[2],
     tls |-> IF Len(p) = 2 THEN IF p = <<"", "d">> THEN "off" ELSE "on"
             ELSE IF Len(p) = 3 \/ p[4] \in {"", "disable", "false"} THEN "off"
             ELSE IF p[4] \in {"prefer", "preferred"} THEN "maybe" ELSE "on"]]

DialRequests ==
    {[R(t, <<"orders">> :> {"amount"}, <<>>) EXCEPT !.deployment = <<"ssl", t, m, ch>>, !.tenant = ""] :
       t \in Types, m \in Modes, ch \in Chars}
    \cup {[R(t, n :> {"amount"}, <<>>) EXCEPT !.deployment = d, !.tenant = IF d = <<"env">> THEN "" ELSE w,
                                             !.config = c, !.others = o] :
            t \in {"POSTGRESQL"}, n \in {<<"orders">>, <<"holders">>}, w \in {"t1", "t2"},
            d \in {<<"env">>, <<"multi">>, <<"keyed">>},
            c \in {"c", "inside", "plugin_crm", "midaz_onboarding", "midaz_transaction"},
            o \in {{}, {"midaz_onboarding"}, {"nobody"}}}
BrowseRequests ==
    {[R("POSTGRESQL", <<>>, <<>>) EXCEPT !.deployment = d, !.tenant = IF d = <<"env">> THEN "" ELSE w,
                                         !.origin = "browse", !.keys = {"hash", "encrypt"}] :
       w \in {"t1", "t2"}, d \in {<<"env">>, <<"multi">>}}
    \cup {[R(t, <<>>, <<>>) EXCEPT !.deployment = <<k, t>>, !.origin = "browse"] : t \in Types, k \in {"stored", "sales"}}

CrmConditions == {[NoCondition EXCEPT ![op] = l] : op \in {"eq", "in", "nin", "ne"},
                    l \in {<<V("text", 1)>>, <<V("text", 2), V("text", 3)>>}}
CrmRequests == {[R("MONGODB", n :> fields, filters) EXCEPT !.deployment = <<"env">>,
                                                         !.config = "plugin_crm", !.keys = keys] :
    n \in {<<"holders">>, <<"holders_o1">>},
    fields \in {{"document"}, {"contact", "related_parties"}, {}},
    filters \in {<<>>} \cup {<<"holders">> :> (f :> c) : c \in CrmConditions,
                  f \in {"document", "contact.primary_email", "related_parties.document"}},
    keys \in SUBSET {"hash", "encrypt"}}
    \cup {[R("MONGODB", <<"aliases">> :> fields, <<>>) EXCEPT !.deployment = <<"env">>,
             !.config = "plugin_crm", !.keys = {"hash", "encrypt"}] :
            fields \in {{"document"}, {"related_parties"}, {"related_parties.document"}}}

MCRequests == UNION {NameRequests(t) \cup FilterRequests(t) : t \in Types} \cup LimitRequests \cup CatalogRequests \cup CrmRequests
              \cup DialRequests \cup BrowseRequests

=============================================================================
