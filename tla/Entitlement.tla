----------------------------- MODULE Entitlement -----------------------------
(***************************************************************************)
(* What a subject's segments entitle it to, twice: decided record by record *)
(* from facts in three-valued logic (authz/eval.go), and compiled into a    *)
(* predicate the database evaluates on rows, with NULLs (authz/sql.go).     *)
(*                                                                         *)
(* A resource has an org_tree dimension, a principal and an amount one, and *)
(* a dimension the database cannot decide.  A path is a sequence of         *)
(* characters; the empty sequence is the empty path of a row.  The text of  *)
(* a compiled predicate is left out: an operator gives its value on a row.  *)
(***************************************************************************)
EXTENDS Integers, FiniteSets, Sequences, SequencesExt

Dims == {"org", "owner", "amount", "remote"}
ViewOperation == "view"
Principal == "me"

\* A fact is a value, a known null, or not obtained; a column is a value or NULL.
Null == [state |-> "null"]
Unobtained == [state |-> "unobtained"]
Value(v) == [state |-> "value", value |-> v]

-----------------------------------------------------------------------------
(* segment.go, refuse.go: the segments of a view that fit the resource.    *)

Kinds == [org |-> {"all", "in", "tree"}, owner |-> {"all", "in", "self"}, amount |-> {"all", "in", "interval"},
          remote |-> {"all", "in"}]

Check(s) ==
    /\ DOMAIN s.atoms = Dims
    /\ \A d \in Dims : s.atoms[d].kind \in Kinds[d]
    /\ s.write \subseteq s.fields

fitting(segs) == {s \in segs : Check(s)}

-----------------------------------------------------------------------------
(* eval.go.                                                                *)

Under(path, v) == IsPrefix(Append(path, "/"), v)

Holds(b) == IF b THEN "true" ELSE "false"

\* An amount is <<number, currency>>; a bound is a number and whether the interval holds it, or none.
Above(x, b) == b = <<>> \/ x > b[1] \/ (x = b[1] /\ b[2])
Below(x, b) == b = <<>> \/ x < b[1] \/ (x = b[1] /\ b[2])

interval(a, v) == Holds(v[2] = a.currency /\ Above(v[1], a.lo) /\ Below(v[1], a.hi))

OnValue(a, v) ==
    CASE a.kind = "in" -> Holds(v \in a.values)
      [] a.kind = "self" -> Holds(v = Principal)
      [] a.kind = "tree" -> Holds(v # <<>> /\ \E i \in a.items : v = i.path \/ (i.subtree /\ Under(i.path, v)))
      [] a.kind = "interval" -> interval(a, v)
      [] OTHER -> "unknown"

atom(a, f) ==
    IF a.kind = "all" THEN "true"
    ELSE IF f.state = "unobtained" THEN "unknown"
    ELSE IF f.state = "null" THEN "false"
    ELSE OnValue(a, f.value)

segment(s, facts) ==
    LET results == {atom(s.atoms[d], facts[d]) : d \in Dims} IN
    IF ~s.active \/ "false" \in results THEN "false"
    ELSE IF "unknown" \in results THEN "unknown"
    ELSE "true"

Of(segs, op) == {s \in segs : s.op = op}

\* OR over the operation's segments; the fields of the true ones.
entitled(segs, op, facts) ==
    LET results == {segment(s, facts) : s \in Of(segs, op)} IN
    [result |-> IF "true" \in results THEN "true" ELSE IF "unknown" \in results THEN "unknown" ELSE "false",
     fields |-> UNION {s.fields : s \in {x \in Of(segs, op) : segment(x, facts) = "true"}}]

and(a, b) == IF "false" \in {a, b} THEN "false" ELSE IF "unknown" \in {a, b} THEN "unknown" ELSE "true"

\* One record: visible, permitted, and the fields readable for the operation; secret fields never.
Evaluate(segs, op, facts) ==
    LET view == entitled(segs, ViewOperation, facts)
        own == entitled(segs, op, facts) IN
    [visible |-> view.result,
     action |-> IF op = ViewOperation THEN view.result ELSE and(view.result, own.result),
     fields |-> IF view.result = "true" THEN own.fields \ {"secret"} ELSE {}]

\* Decision.Err.
Err(d) ==
    IF d.visible = "false" THEN "not_found"
    ELSE IF d.action = "false" THEN "permission_denied"
    ELSE IF "unknown" \in {d.visible, d.action} THEN "authorization_unprovable"
    ELSE "allowed"

-----------------------------------------------------------------------------
(* sql.go: the value of the compiled predicates on a row, NULL included.   *)

SqlAnd(S) == IF "false" \in S THEN "false" ELSE IF "NULL" \in S THEN "NULL" ELSE "true"
SqlOr(S) == IF "true" \in S THEN "true" ELSE IF "NULL" \in S THEN "NULL" ELSE "false"

likeEscape(s) == FlattenSeq([n \in DOMAIN s |-> IF s[n] \in {"\\", "%", "_"} THEN <<"\\", s[n]>> ELSE <<s[n]>>])

\* v LIKE pattern ESCAPE '\': m[i, j] says whether v from i on matches the pattern from j on.
Like(v, pattern) ==
    LET m[i \in 1 .. Len(v) + 1, j \in 1 .. Len(pattern) + 1] ==
            IF j > Len(pattern) THEN i > Len(v)
            ELSE IF pattern[j] = "\\" THEN i <= Len(v) /\ v[i] = pattern[j + 1] /\ m[i + 1, j + 2]
            ELSE IF pattern[j] = "%" THEN m[i, j + 1] \/ (i <= Len(v) /\ m[i + 1, j])
            ELSE i <= Len(v) /\ pattern[j] \in {"_", v[i]} /\ m[i + 1, j + 1]
    IN m[1, 1]

\* A dimension the database cannot decide makes the list impossible, never wider.
Pushable(s) == s.atoms["remote"].kind = "all"

compiledAtom(a, col) ==
    IF a.kind = "all" THEN "true"
    ELSE IF a.kind = "in" /\ a.values = {} THEN "false"
    ELSE IF a.kind = "tree" /\ a.items = {} THEN "false"
    ELSE IF a.kind = "interval" /\ col.state = "null" THEN "false"     \* IS NOT NULL
    ELSE IF col.state = "null" THEN "NULL"
    ELSE IF a.kind = "in" THEN Holds(col.value \in a.values)
    ELSE IF a.kind = "self" THEN Holds(col.value = Principal)
    ELSE IF a.kind = "tree" THEN
        Holds(\E i \in a.items :
                 col.value = i.path \/ (i.subtree /\ Like(col.value, likeEscape(i.path) \o <<"/", "%">>)))
    ELSE
            Holds(col.value[2] = a.currency
                  /\ (a.lo = <<>> \/ IF a.lo[2] THEN col.value[1] >= a.lo[1] ELSE col.value[1] > a.lo[1])
                  /\ (a.hi = <<>> \/ IF a.hi[2] THEN col.value[1] <= a.hi[1] ELSE col.value[1] < a.hi[1]))

compiled(s, row) == SqlAnd({compiledAtom(s.atoms[d], row[d]) : d \in Dims})

Active(segs, op) == {s \in segs : s.op = op /\ s.active}

\* The plan: the view's segments, and for another operation its own too, whose segments then give the fields.
Compile(segs, op) ==
    LET view == Active(segs, ViewOperation) own == Active(segs, op) IN
    [ok |-> \A s \in view \cup own : Pushable(s), view |-> view, own |-> own, op |-> op]

Where(p, row) ==
    SqlAnd({SqlOr({compiled(s, row) : s \in p.view})} \cup
           IF p.op = ViewOperation THEN {} ELSE {SqlOr({compiled(s, row) : s \in p.own})})

Fields(p, row) == UNION {s.fields : s \in {x \in p.own : compiled(x, row) = "true"}} \ {"secret"}

ReadableWhere(p, field, row) == \E s \in p.own : field \in s.fields /\ compiled(s, row) = "true"

ReadableEverywhere(p, field) == p.own # {} /\ \A s \in p.own : field \in s.fields
=============================================================================
