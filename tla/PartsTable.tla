-------------------------------- MODULE PartsTable -----------------------------
(***************************************************************************)
(* The list of parts, also used to pick parts for a job:                   *)
(* frontend/src/pages/PartsPage.tsx with lib/columnFilters.ts.             *)
(*                                                                         *)
(* `lazy' is the question last asked of the server: where the shown rows   *)
(* begin, how many, the order and what narrows them.  What narrows the     *)
(* list is a set of tags: the text searched for, a column's filter, the    *)
(* parts of the job.  `ahead' is history: the place in the list was chosen *)
(* by a count that was no longer true of it.                               *)
(***************************************************************************)
EXTENDS Browser, SequencesExt

CONSTANTS
  Catalog,     \* the parts, a sequence of [id, tags]
  PageSizes    \* rows on a page

ASSUME TableAssumption ==
  /\ Catalog \in Seq([id : Nat, tags : SUBSET {"text", "filter", "job"}])
  /\ PageSizes \subseteq Nat \ {0} /\ PageSizes # {}

Lazy(first, rows, descending, tags) == [first |-> first, rows |-> rows, descending |-> descending, tags |-> tags]

TableStart(pickMode) ==
  LET rows == CHOOSE n \in PageSizes : \A m \in PageSizes : n <= m IN
  [at |-> "parts", pickMode |-> pickMode, search |-> FALSE,
   lazy |-> Lazy(0, rows, TRUE, IF pickMode THEN {"job"} ELSE {}), rows |-> <<>>, total |-> 0,
   loading |-> TRUE, failed |-> FALSE, ahead |-> FALSE]

Fetch(lazy) == Call("parts", [lazy |-> lazy, canceled |-> FALSE])

TableCalls(pickMode) == <<Fetch(TableStart(pickMode).lazy)>>

\* The parts that match, in the order of the catalog.
Matching(tags) == Picked(Catalog, {k \in DOMAIN Catalog : tags \subseteq Catalog[k].tags})

RowsOf(lazy) ==
  LET found  == Matching(lazy.tags)
      sorted == IF lazy.descending THEN Reverse(found) ELSE found
      last   == IF lazy.first + lazy.rows < Len(sorted) THEN lazy.first + lazy.rows ELSE Len(sorted)
  IN SubSeq(sorted, lazy.first + 1, last)

-------------------------------------------------------------------------------

\* The question changes: the fetch on its way is aborted and another one sent.
Asks(q) ==
  /\ Show(IF q.lazy = page.lazy THEN q ELSE [q EXCEPT !.loading = TRUE])
  /\ calls' = IF q.lazy = page.lazy THEN calls
              ELSE Append([i \in DOMAIN calls |-> [calls[i] EXCEPT !.args.canceled = TRUE]], Fetch(q.lazy))

SetLazy(lazy) ==
  /\ Act /\ On("parts")
  /\ Asks([page EXCEPT !.lazy = lazy, !.ahead = @ /\ lazy.first # 0])
  /\ UNCHANGED server

Toggled(tags, tag) == IF tag \in tags THEN tags \ {tag} ELSE tags \cup {tag}

\* Typing is searched for 300 ms after the last key.
Type ==
  Act /\ On("parts") /\ Show([page EXCEPT !.search = ~@]) /\ UNCHANGED <<calls, server>>

Debounced ==
  /\ page.search # ("text" \in page.lazy.tags)
  /\ Asks([page EXCEPT !.lazy.first = 0, !.lazy.tags = Toggled(@, "text"), !.ahead = FALSE])
  /\ UNCHANGED <<server, left>>

\* Mutant: the place in the list is kept.
FilteredKeepingPlace(lazy, tag) == [lazy EXCEPT !.tags = Toggled(@, tag)]

FilteredBy(lazy, tag) == [lazy EXCEPT !.first = 0, !.tags = Toggled(@, tag)]

SetFilterValue == SetLazy(FilteredBy(page.lazy, "filter"))
Sort == SetLazy([page.lazy EXCEPT !.descending = ~@])

\* The place in the list is kept.
SetJobOnly ==
  /\ Act /\ On("parts") /\ page.pickMode
  /\ Asks([page EXCEPT !.lazy.tags = Toggled(@, "job"), !.ahead = page.lazy.first # 0])
  /\ UNCHANGED server

\* Whether there is a next page is asked of the rows that are shown.
GoToPage(first, rows) ==
  /\ Act /\ On("parts")
  /\ first # page.lazy.first \/ rows # page.lazy.rows
  /\ Asks([page EXCEPT !.lazy.first = first, !.lazy.rows = rows,
                       !.ahead = first # 0 /\ (@ \/ page.loading \/ page.failed)])
  /\ UNCHANGED server

NextPage == page.lazy.first + page.lazy.rows < page.total /\ GoToPage(page.lazy.first + page.lazy.rows, page.lazy.rows)
PrevPage == page.lazy.first > 0 /\ GoToPage(IF page.lazy.first > page.lazy.rows THEN page.lazy.first - page.lazy.rows ELSE 0, page.lazy.rows)
SetRows  == \E n \in PageSizes : GoToPage(0, n)

PartsLazy == \E i \in DOMAIN calls :
  /\ IsAsked(i, "parts")
  /\ LET lazy == calls[i].args.lazy IN
     Reply(i, [rows |-> RowsOf(lazy), total |-> Len(Matching(lazy.tags))])
  /\ UNCHANGED <<page, server, left>>

\* Mutant: an answer is taken whatever was asked for since.
FetchedAnyway(i) == TRUE

Fetched(i) == ~calls[i].args.canceled

\* An outage is taken for a fetch that was cancelled: it is not told, and the
\* rows stay (lib/api.ts:36).
PartsAnswer == \E i \in DOMAIN calls, outage \in BOOLEAN :
  /\ IsAnswered(i, "parts")
  /\ LET r == CASE ~Failed(i)           -> calls[i].reply
                [] Failed(i) /\ outage  -> [rows |-> page.rows, total |-> page.total]
                [] Failed(i) /\ ~outage -> [rows |-> <<>>, total |-> 0]
     IN Show(IF ~Fetched(i) THEN page
          ELSE [page EXCEPT !.rows = r.rows, !.total = r.total, !.loading = FALSE, !.failed = Failed(i)])
  /\ Take(i) /\ UNCHANGED <<server, left>>

TableNext ==
  /\ On("parts")
  /\ \/ Type \/ Debounced \/ SetFilterValue \/ Sort \/ SetJobOnly
     \/ NextPage \/ PrevPage \/ SetRows \/ PartsLazy \/ PartsAnswer

-------------------------------------------------------------------------------

\* The rows on screen answer the question last asked, whatever was asked
\* before it and in whatever order the answers came, unless that question met
\* a failure, which the page does not tell when it was an outage
\* (PartsPage.tsx:159-202).
RowsAnswerTheQuestion ==
  On("parts") /\ ~page.loading /\ ~page.failed =>
    page.rows = RowsOf(page.lazy) /\ page.total = Len(Matching(page.lazy.tags))

\* "No parts found" means that no part matches, unless the place in the list
\* was chosen by an older count: the parts of the job were asked for beyond
\* the first page, or the page turned while a fetch was out, or after an
\* outage, which leaves the old count (PartsPage.tsx:191, 400, 451, 585).
NoRowsMeansNoParts ==
  On("parts") /\ ~page.loading /\ ~page.failed /\ ~page.ahead =>
    (page.rows = <<>> <=> Matching(page.lazy.tags) = <<>>)
===============================================================================
