------------------------------- MODULE Filters -------------------------------
(***************************************************************************)
(* Filter conditions, what they promise, and (external) how SQL databases   *)
(* evaluate the clauses the drivers build from them.                        *)
(*                                                                         *)
(* A value is a record: its kind, and a number that orders the values of    *)
(* that kind.  Moments count half days, so that midnight of day d is 2d and *)
(* the last millisecond of day d is 2d + 1: a "day" is a text YYYY-MM-DD,   *)
(* an "instant" a text with a T, a "time" what a database stores.  The text *)
(* and the pattern numbered i are Texts[i] and Patterns[i].                 *)
(***************************************************************************)
EXTENDS TableNames, FiniteSets, Functions

CONSTANTS Texts, Patterns    \* sequences of sequences of characters

V(kind, at) == [kind |-> kind, at |-> at]
Null == V("null", 0)

Strings == {"day", "instant", "text", "uuid", "pattern"}
Moments == {"day", "instant", "time"}

(* FilterCondition: the values of each operator, none when it is not used.  *)
Operators == {"eq", "gt", "gte", "lt", "lte", "between", "in", "nin", "ne", "like"}
Comparisons == {"gt", "gte", "lt", "lte"}
NoCondition == [op \in Operators |-> <<>>]

At(v) == IF v.kind = "day" THEN 2 * v.at ELSE v.at
Comparable(a, b) == a.kind = b.kind \/ {a.kind, b.kind} \subseteq Moments

Same(a, b) == Comparable(a, b) /\ At(a) = At(b)
Stands(a, op, b) ==
    /\ Comparable(a, b)
    /\ CASE op = "gt" -> At(a) > At(b) [] op = "gte" -> At(a) >= At(b)
         [] op = "lt" -> At(a) < At(b) [] op = "lte" -> At(a) <= At(b)

(* LIKE: % is any text, _ any character.  The text s is cut where the parts *)
(* of the pattern p begin: part i covers s from cut[i] to before cut[i + 1]. *)
Cuts(p, s) == [1..(Len(p) + 1) -> 1..(Len(s) + 1)]

Like(p, s) == \E cut \in Cuts(p, s) :
    /\ cut[1] = 1 /\ cut[Len(p) + 1] = Len(s) + 1
    /\ \A i \in 1..Len(p) :
         IF p[i] = "%" THEN cut[i] <= cut[i + 1]
         ELSE cut[i + 1] = cut[i] + 1 /\ p[i] \in {"_", s[cut[i]]}

(* A pattern says something of texts only. *)
Matches(v, x) == v.kind = "text" /\ Like(Patterns[x.at], Texts[v.at])

-----------------------------------------------------------------------------
(* What a condition says of a value that is there.  A day that ends a range *)
(* of a date field (dated) is in it to its last moment.                     *)

EndOf(v, dated) == IF dated /\ v.kind = "day" THEN V("instant", 2 * v.at + 1) ELSE v

Meets(v, c, dated) ==
    /\ c.eq # <<>> => \E x \in Range(c.eq) : Same(v, x)
    /\ \A op \in Comparisons : \A x \in Range(c[op]) : Stands(v, op, x)
    /\ c.between # <<>> => Stands(v, "gte", c.between[1])
                           /\ Stands(v, "lte", EndOf(c.between[2], dated))
    /\ c.in # <<>> => \E x \in Range(c.in) : Same(v, x)
    /\ \A x \in Range(c.nin) \cup Range(c.ne) : ~Same(v, x)
    /\ \A x \in Range(c.like) : Matches(v, x)

-----------------------------------------------------------------------------
(* External: squirrel's clauses, and a SQL database that evaluates them.    *)

InClause(field, values) == [field |-> field, op |-> "in", args |-> values]
NotInClause(field, values) == [field |-> field, op |-> "nin", args |-> values]
CompareClause(field, op, value) == [field |-> field, op |-> op, args |-> {value}]
LikeClause(field, pattern) == [field |-> field, op |-> "like", args |-> {pattern}]

(* A comparison with NULL is not true. *)
Satisfies(row, w) ==
    LET v == row[w.field]
    IN /\ v # Null
       /\ CASE w.op = "in" -> \E x \in w.args : Same(v, x)
            [] w.op = "nin" -> \A x \in w.args : ~Same(v, x)
            [] w.op = "like" -> \A x \in w.args : Matches(v, x)
            [] OTHER -> \A x \in w.args : Stands(v, w.op, x)

(* SELECT fields FROM ... WHERE where.  An answer names the fields selected *)
(* and the rows they are selected from.                                     *)
Select(fields, rows, where) ==
    [fields |-> fields, rows |-> {r \in rows : \A w \in where : Satisfies(r, w)}]

=============================================================================
