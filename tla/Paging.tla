-------------------------------- MODULE Paging ---------------------------------
(***************************************************************************)
(* A client walks through a list page by page while the table changes.     *)
(* Every list endpoint answers one page by two queries outside any         *)
(* transaction: LIMIT/OFFSET over an ORDER BY, and the number of all the   *)
(* rows that match.  The search of the Query Module and the list of        *)
(* service accounts read the page first; the file registry, the list of    *)
(* administrators and that of Storage Elements count first.                *)
(*                                                                         *)
(* Rows are numbered as they are inserted, which is the order of their ids *)
(* and creation times, but a query finds a row only once it is committed,  *)
(* and commits come in any order.  A search may order by another column:   *)
(* key.                                                                    *)
(***************************************************************************)
EXTENDS Naturals, FiniteSets

CONSTANTS
    MaxRows,     \* bound: rows ever inserted
    Keys,        \* values of the column that a search orders by
    PageSize

ASSUME PagingAssumption ==
    MaxRows \in Nat /\ Keys \subseteq Nat /\ Keys # {} /\ PageSize \in Nat \ {0}

Rows == 1..MaxRows
Lists == {"search", "accounts", "registry", "admins", "elements"}

VARIABLES
    created,     \* rows inserted so far
    pending,     \* those of transactions that are still open
    table,       \* those that are committed and not removed
    key,
    list,        \* the list that is walked
    pc,          \* the next query of the request, or "idle", "done"
    offset, page, total,
    listed,      \* rows the walk has seen
    start,       \* history: rows that have been there since the walk began
    ahead,       \* history: during the walk a row appeared before another of its list
    disturbed    \* history: rows were removed or moved, or have equal keys

tableVars == <<created, pending, table, key>>
walkVars == <<list, pc, offset, page, total, listed>>
historyVars == <<start, ahead, disturbed>>
vars == <<tableVars, walkVars, historyVars>>

TypeOK ==
    /\ created \in 0..MaxRows /\ table \subseteq 1..created
    /\ pending \subseteq 1..created /\ pending \cap table = {} /\ key \in [Rows -> Keys]
    /\ list \in Lists /\ pc \in {"idle", "page", "count", "next", "done"}
    /\ offset \in 0..(MaxRows + PageSize) /\ total \in 0..MaxRows
    /\ page \subseteq Rows /\ Cardinality(page) <= PageSize
    /\ listed \subseteq Rows /\ start \subseteq table
    /\ ahead \in BOOLEAN /\ disturbed \in BOOLEAN

-----------------------------------------------------------------------------
\* The table

Tied(rows, k) == \E a, b \in rows : a # b /\ k[a] = k[b]

\* Whether ORDER BY puts a before b.
Before(a, b) ==
    CASE list = "search" -> key[a] < key[b]
      [] list = "elements" -> a < b
      [] OTHER -> a > b

\* A file is registered or synchronised, an account or a Storage Element created:
\* the row has its id and its time, and nobody else sees it.
Insert(k) ==
    /\ created < MaxRows
    /\ created' = created + 1 /\ pending' = pending \cup {created'}
    /\ key' = [key EXCEPT ![created'] = k]
    /\ UNCHANGED <<table, walkVars, historyVars>>

\* The row appears, at its place in the order and not at the end.
Commit(r) ==
    /\ r \in pending
    /\ pending' = pending \ {r} /\ table' = table \cup {r}
    /\ ahead' = (ahead \/ \E a \in table : Before(r, a))
    /\ disturbed' = (disturbed \/ (list = "search" /\ Tied(table', key)))
    /\ UNCHANGED <<created, key, walkVars, start>>

\* The transaction fails; its id is not used again.
Rollback(r) ==
    /\ r \in pending /\ pending' = pending \ {r}
    /\ UNCHANGED <<created, table, key, walkVars, historyVars>>

Remove(r) ==
    /\ r \in table
    /\ table' = table \ {r} /\ start' = start \ {r} /\ disturbed' = TRUE
    /\ UNCHANGED <<created, pending, key, walkVars, ahead>>

\* The column a search orders by is changed.
Move(r, k) ==
    /\ r \in table /\ list = "search" /\ k # key[r]
    /\ key' = [key EXCEPT ![r] = k] /\ disturbed' = TRUE
    /\ UNCHANGED <<created, pending, table, walkVars, start, ahead>>

Init ==
    /\ created \in 0..MaxRows /\ table = 1..created /\ pending = {}
    /\ key \in {k \in [Rows -> Keys] : \A r \in Rows \ table : k[r] = CHOOSE n \in Keys : TRUE}
    /\ list \in Lists /\ pc = "idle"
    /\ offset = 0 /\ page = {} /\ total = 0 /\ listed = {}
    /\ start = {} /\ ahead = FALSE /\ disturbed = FALSE

-----------------------------------------------------------------------------
\* The queries

\* LIMIT and OFFSET: the database may put rows that no column orders either way,
\* and differently each time.
IsPage(rows) ==
    \E skipped \in SUBSET (table \ rows) :
        LET rest == table \ (rows \cup skipped) IN
        /\ Cardinality(skipped) = offset \/ (rows = {} /\ Cardinality(skipped) < offset /\ rest = {})
        /\ Cardinality(rows) = PageSize \/ (Cardinality(rows) < PageSize /\ rest = {})
        /\ \A a \in skipped, b \in rows \cup rest : ~Before(b, a)
        /\ \A a \in rows, b \in rest : ~Before(b, a)

QueryPage ==
    /\ \E rows \in SUBSET table : IsPage(rows) /\ page' = rows /\ listed' = listed \cup rows
    /\ UNCHANGED <<tableVars, list, offset, total, historyVars>>

\* Mutant: the total of the page.
QueryCountOfPage ==
    /\ total' = Cardinality(page)
    /\ UNCHANGED <<tableVars, list, offset, page, listed, historyVars>>

\* The number of rows of all pages.
QueryCount ==
    /\ total' = Cardinality(table)
    /\ UNCHANGED <<tableVars, list, offset, page, listed, historyVars>>

-----------------------------------------------------------------------------
\* A walk through a list

Begin(first) ==
    /\ pc = "idle" /\ pc' = first
    /\ start' = table /\ ahead' = FALSE
    /\ disturbed' = (list = "search" /\ Tied(table, key))
    /\ UNCHANGED <<tableVars, list, offset, page, total, listed>>

PageFirst == {"search", "accounts"}

Search == list = "search" /\ Begin("page")
ListAccounts == list = "accounts" /\ Begin("page")
ListRegistry == list = "registry" /\ Begin("count")
ListAdmins == list = "admins" /\ Begin("count")
ListElements == list = "elements" /\ Begin("count")

ReadPage ==
    /\ pc = "page" /\ pc' = IF list \in PageFirst THEN "count" ELSE "next"
    /\ QueryPage

ReadCount ==
    /\ pc = "count" /\ pc' = IF list \in PageFirst THEN "next" ELSE "page"
    /\ QueryCount

\* has_more of a search counts the rows of this page; total_pages, like a client
\* that goes by the total, whole pages.
HasMore == offset + (IF list = "search" THEN Cardinality(page) ELSE PageSize) < total

NextPage ==
    /\ pc = "next"
    /\ IF HasMore
       THEN /\ offset' = offset + PageSize
            /\ pc' = IF list \in PageFirst THEN "page" ELSE "count"
       ELSE pc' = "done" /\ UNCHANGED offset
    /\ UNCHANGED <<tableVars, list, page, total, listed, historyVars>>

Next ==
    \/ \E k \in Keys : Insert(k) \/ \E r \in Rows : Move(r, k)
    \/ \E r \in Rows : Commit(r) \/ Rollback(r) \/ Remove(r)
    \/ Search \/ ListAccounts \/ ListRegistry \/ ListAdmins \/ ListElements
    \/ ReadPage \/ ReadCount \/ NextPage

Spec == Init /\ [][Next]_vars

-----------------------------------------------------------------------------
\* Properties

\* A walk during which nothing is removed or moved, in an order without ties, sees
\* every row that was there when it began, whatever else appears meanwhile, wherever
\* it comes in the order.  The lists that count before they read the page promise it
\* only while no row appears before another: a new file or administrator does, at the
\* head of the newest, and a Storage Element whose id was taken before that of one
\* already listed.
NothingMissed ==
    pc = "done" /\ ~disturbed /\ (list \notin PageFirst => ~ahead) => start \subseteq listed
=============================================================================
