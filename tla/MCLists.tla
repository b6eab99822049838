------------------------------ MODULE MCLists ------------------------------
(* Scenarios of the lists for TLC: every pair of segments of a family,     *)
(* against every row of a kind, and a listing that is paged while rows and *)
(* rights change.                                                          *)
EXTENDS Lists, TLC

AllAtom == [kind |-> "all"]
Row == [org |-> Value(<<"a">>), owner |-> Value("me"), amount |-> Value(<<1, "X">>), remote |-> Null, key |-> 1]
Atoms0 == [d \in Dims |-> AllAtom]
Seg(op, atoms, fields) == [op |-> op, atoms |-> atoms, fields |-> fields, write |-> {}, active |-> TRUE]
FieldSets == {{"ordinary"}, {"ordinary", "restricted", "secret"}}
Pairs(S) == {{x, y} : x, y \in S}
Family(atomsets) == {Seg(op, a, f) : op \in {"view", "approve"}, a \in atomsets, f \in FieldSets}
                    \cup {[Seg("view", a, {"ordinary"}) EXCEPT !.active = FALSE] : a \in atomsets}
Tree(items) == [kind |-> "tree", items |-> items]
Sub(p) == [path |-> p, subtree |-> TRUE]
Exact(p) == [path |-> p, subtree |-> FALSE]
ListRequests(S) == {[op |-> op, desc |-> FALSE, narrowed |-> n, filter |-> FALSE] : op \in {"view", "approve"}, n \in S}
Plain == [size |-> 1, rows |-> {Row}, subjects |-> {{Seg("view", Atoms0, {"ordinary"})}}, requests |-> ListRequests({{}}), edits |-> 0]

\* Trees of paths, with a path that LIKE would read as a pattern and one that is empty.
Paths == [Plain EXCEPT
    !.rows = {[Row EXCEPT !.org = v] : v \in {Null, Value(<<>>), Value(<<"a">>), Value(<<"a", "/", "b">>),
                                        Value(<<"_", "/", "b">>)}},
    !.subjects = Pairs(Family({[Atoms0 EXCEPT !["org"] = a] : a \in
        {AllAtom, Tree({}), Tree({Sub(<<"a">>)}), Tree({Exact(<<"a">>), Sub(<<"_">>)}), [kind |-> "in", values |-> {<<"a">>}]}}))]
\* Intervals of amounts in a currency, each bound open, closed or absent.
Amounts == [Plain EXCEPT
    !.rows = {[Row EXCEPT !.amount = v] : v \in {Null} \cup {Value(<<n, c>>) : n \in 1 .. 3, c \in {"X", "Y"}}},
    !.subjects = Pairs(Family({[Atoms0 EXCEPT !["amount"] = [kind |-> "interval", currency |-> "X", lo |-> b[1], hi |-> b[2]]] :
        b \in {<<<<>>, <<2, TRUE>>>>, <<<<2, TRUE>>, <<3, FALSE>>>>, <<<<2, FALSE>>, <<3, FALSE>>>>, <<<<2, TRUE>>, <<2, TRUE>>>>}}))]
\* Dimensions together, one a row lacks, and an atom its dimension does not know, with a filter on a restricted field.
Mixed == [Plain EXCEPT
    !.rows = {[Row EXCEPT !.org = v, !.owner = o] : v \in {Null, Value(<<"a">>)}, o \in {Null, Value("me"), Value("you")}},
    !.subjects = Pairs(Family({[Atoms0 EXCEPT !["org"] = a, !["owner"] = o] : a \in {AllAtom, Tree({Sub(<<"a">>)})},
        o \in {[kind |-> "self"], [kind |-> "interval"]}}
        \cup {[Atoms0 EXCEPT !["remote"] = [kind |-> "in", values |-> {"r"}]]})),
    !.requests = {[op |-> op, desc |-> FALSE, narrowed |-> n, filter |-> TRUE] : op \in {"view", "approve"}, n \in {{}, {"restricted"}}}]
\* A listing read page by page while rows and the subject's rights change.
Paging == [Plain EXCEPT !.size = 3, !.rows = {Row, [Row EXCEPT !.key = 2], [Row EXCEPT !.owner = Null]},
    !.subjects = {{Seg("view", Atoms0, {"ordinary"})}, {Seg("view", [Atoms0 EXCEPT !["owner"] = [kind |-> "self"]], {"ordinary", "restricted"})}},
    !.requests = {[op |-> "view", desc |-> d, narrowed |-> {}, filter |-> f] : d \in BOOLEAN, f \in BOOLEAN}, !.edits = 2]

Safety == {Paths, Amounts, Mixed, Paging}
Liveness == {}
=============================================================================
