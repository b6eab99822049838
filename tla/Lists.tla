-------------------------------- MODULE Lists --------------------------------
(***************************************************************************)
(* Paged lists (list/list.go, list/page.go) over a table that changes, for  *)
(* a subject whose segments change (Entitlement).                           *)
(*                                                                         *)
(* A page is one action: Build compiles the plan from the view, resume      *)
(* checks the cursor, and Page reads the rows in one transaction.  A row    *)
(* has a sort key and the columns of the dimensions.  A request may sort    *)
(* by the key, narrow to the rows whose restricted field is readable, and   *)
(* filter by it.                                                            *)
(***************************************************************************)
EXTENDS Entitlement, FiniteSetsExt, SequencesExt

CONSTANTS
    Limit,          \* page size
    Scenarios       \* the rows there may be, the subjects, the requests, and the changes

VARIABLES
    scenario,
    table,          \* the rows, by ID
    subject,        \* the subject's segments in the view
    listing,        \* one reading of a list: the request, the cursor, what was answered
    touched,        \* history: the rows inserted, changed or deleted since the listing began
    edits           \* changes still to come

lvars == <<scenario, table, subject, listing, touched, edits>>

NoRecord == [state |-> "absent"]
Rows == {i \in DOMAIN table : table[i] # NoRecord}

-----------------------------------------------------------------------------
(* Build: which filters and sorts a plan allows.                           *)

\* A restricted field may filter or sort where every listed row shows it.
Usable(p, req) == req.filter => "restricted" \in req.narrowed \/ ReadableEverywhere(p, "restricted")

Selected(p, req, i) ==
    /\ Where(p, table[i]) = "true"
    /\ \A f \in req.narrowed : ReadableWhere(p, f, table[i])

\* Mutation of After: rows of the cursor's own sort key are left out.
AfterKey(c, i, req) == c = <<>> \/ IF req.desc THEN table[i].key < c[1] ELSE table[i].key > c[1]

\* resume: strictly after the cursor in the order; the record ID is the last key.
After(c, i, req) ==
    \/ c = <<>>
    \/ IF req.desc THEN table[i].key < c[1] ELSE table[i].key > c[1]
    \/ table[i].key = c[1] /\ i > c[2]

Before(i, j, req) ==
    \/ IF req.desc THEN table[i].key > table[j].key ELSE table[i].key < table[j].key
    \/ table[i].key = table[j].key /\ i < j

\* The plan's digest: the segments it depends on.
Digest(p) == <<p.view, p.own, p.op>>

Answer(result) == listing' = [listing EXCEPT !.pc = result]

SamePlan(p) == listing.cursor = <<>> \/ listing.plan = Digest(p)

\* Build, resume and Page: one row more than the page tells whether another follows.
ReadPage ==
    LET req == listing.request
        p == Compile(fitting(subject), req.op)
        found == SetToSortSeq({i \in Rows : Selected(p, req, i) /\ After(listing.cursor, i, req)},
                              LAMBDA i, j : Before(i, j, req))
        page == SubSeq(found, 1, IF Len(found) > Limit THEN Limit ELSE Len(found)) IN
    /\ listing.pc = "reading"
    /\ CASE ~p.ok -> Answer("query_not_completable")
         [] p.ok /\ ~Usable(p, req) -> Answer("field_not_queryable")
         [] p.ok /\ Usable(p, req) /\ ~SamePlan(p) -> Answer("query_plan_changed")
         [] OTHER ->
            listing' = [listing EXCEPT
                !.got = @ \o [n \in DOMAIN page |-> [id |-> page[n], row |-> table[page[n]], by |-> subject,
                                                     fields |-> Fields(p, table[page[n]])]],
                !.plan = Digest(p),
                !.pc = IF Len(found) > Limit THEN "reading" ELSE "ended",
                !.cursor = IF Len(found) > Limit THEN <<table[Last(page)].key, Last(page)>> ELSE @]
    /\ UNCHANGED <<scenario, table, subject, touched, edits>>

-----------------------------------------------------------------------------
(* The table and the view change while the list is read.                   *)

Write(i, row) ==
    /\ edits > 0 /\ edits' = edits - 1
    /\ table[i] # row
    /\ table' = [table EXCEPT ![i] = row]
    /\ touched' = touched \cup {i}
    /\ UNCHANGED <<scenario, subject, listing>>

Change == \E i \in DOMAIN table, row \in scenario.rows \cup {NoRecord} : Write(i, row)

ViewChanges ==
    /\ edits > 0 /\ edits' = edits - 1
    /\ \E s \in scenario.subjects : s # subject /\ subject' = s
    /\ UNCHANGED <<scenario, table, listing, touched>>

Init ==
    /\ scenario \in Scenarios
    /\ table \in [1 .. scenario.size -> scenario.rows]
    /\ subject \in scenario.subjects
    /\ \E req \in scenario.requests :
        listing = [request |-> req, pc |-> "reading", cursor |-> <<>>, plan |-> <<>>, got |-> <<>>]
    /\ touched = {}
    /\ edits = scenario.edits

Next == ReadPage \/ Change \/ ViewChanges

Spec == Init /\ [][Next]_lvars

-----------------------------------------------------------------------------
(* Properties.                                                             *)

\* The rows and fields a list shows are the ones the decision on each record allows: NULL columns, paths, intervals
\* and segments of two operations included (Compile against Evaluate; the cold rows of a list are decided by the latter).
ListMatchesDecision ==
    LET p == Compile(fitting(subject), listing.request.op) IN
    p.ok => \A i \in Rows :
        LET row == table[i] d == Evaluate(fitting(subject), listing.request.op, row) IN
        /\ (Where(p, row) = "true") <=> (Err(d) = "allowed")
        /\ Where(p, row) = "true" => Fields(p, row) = d.fields

\* A decision without one of the facts is the one any value of that fact would give, and shows no more (atom, and).
UnknownIsSound ==
    \A i \in Rows, d \in Dims :
        LET full == Evaluate(fitting(subject), listing.request.op, table[i])
            part == Evaluate(fitting(subject), listing.request.op, [table[i] EXCEPT ![d] = Unobtained]) IN
        /\ part.visible # "unknown" => part.visible = full.visible
        /\ part.action # "unknown" => part.action = full.action
        /\ part.fields \subseteq full.fields

\* A row that stays as it is while a list is read to its end, under one authorization, is on exactly one page, and the
\* rows that stay come in the order asked for across the pages (resume, Next, Page).
EachRowOnce ==
    LET p == Compile(fitting(subject), listing.request.op)
        ids == [n \in DOMAIN listing.got |-> listing.got[n].id] IN
    /\ \A m, n \in DOMAIN ids :
        m < n /\ {ids[m], ids[n]} \subseteq Rows \ touched => Before(ids[m], ids[n], listing.request)
    /\ listing.pc = "ended" /\ listing.plan = Digest(p) =>
        \A i \in Rows \ touched : Selected(p, listing.request, i) => i \in Range(ids)

\* Every row listed by a filter on a restricted field shows that field, so the filter reveals nothing (Build).
FilterRevealsNothing ==
    listing.request.filter => \A n \in DOMAIN listing.got : "restricted" \in listing.got[n].fields

\* The pages of one list are all of one authorization (resume, the plan's digest).
OneAuthorization ==
    \A m, n \in DOMAIN listing.got :
        Compile(fitting(listing.got[m].by), listing.request.op) = Compile(fitting(listing.got[n].by), listing.request.op)
=============================================================================
