-------------------------------- MODULE BomView --------------------------------
(***************************************************************************)
(* The BOM of a part as a tree and as a flat list: the page of its own     *)
(* (frontend/src/pages/BomPage.tsx, `own') and the table under a part      *)
(* (PartDetailPage.tsx), both with lib/bomTree.ts.  Both stay mounted when *)
(* a link leads to another part.                                           *)
(*                                                                         *)
(* A row is an occurrence: its key is the path of places and parts from    *)
(* the root.  Branches are loaded one by one, or all by "Expand all",      *)
(* which works on a copy of the tree and puts the copy back at the end.    *)
(*                                                                         *)
(* History: `stray', the copy put back was taken for another load;         *)
(* `outage', the load of the where-used rows met one; `flatLeft', a load   *)
(* of the flat list was cancelled by leaving that list and none was begun  *)
(* since, so that nobody takes its flag down.                              *)
(***************************************************************************)
EXTENDS Browser, SequencesExt

CONSTANT Bom        \* the children of each part, in order, without a cycle

Assemblies == DOMAIN Bom

ASSUME BomAssumption ==
  IsFiniteSet(Assemblies) /\ Bom \in [Assemblies -> Seq(Assemblies)]

RootLoad(p)  == Call("root", [part |-> p, step |-> 1, canceled |-> FALSE])
WhereUsedLoad(p, first) == Call("whereUsed", [part |-> p, first |-> first, canceled |-> FALSE])
FlatLoad(p)  == Call("flat", [part |-> p, canceled |-> FALSE])

BomStart(own, u) ==
  [at |-> "bom", own |-> own, url |-> u, tick |-> FALSE, nodes |-> {}, expanded |-> {},
   treeLoading |-> TRUE, mode |-> "tree", flatRows |-> <<>>, flatLoading |-> FALSE, flatLeft |-> FALSE,
   whereUsed |-> {}, first |-> 0, whereUsedLoading |-> own, stray |-> FALSE, outage |-> FALSE]

BomCalls(own, u) == <<RootLoad(u)>> \o (IF own THEN <<WhereUsedLoad(u, 0)>> ELSE <<>>)

BomServer == [rows |-> 1]     \* where-used rows on a page of the table

Parents(p) == {a \in Assemblies : p \in Range(Bom[a])}

-------------------------------------------------------------------------------
(* Keys and trees.                                                         *)

\* Mutant: a row is known by its place alone.
SegmentByPlace(i, p) == <<i, Absent>>

Segment(i, p) == <<i, p>>

WithBomOccurrenceKeys(parts, path) ==
  {[key |-> Append(path, Segment(i, parts[i])), part |-> parts[i]] : i \in DOMAIN parts}

Below(tree, key) == {n \in tree : IsStrictPrefix(key, n.key)}

SetNodeChildren(tree, key, kids) ==
  IF \E n \in tree : n.key = key THEN (tree \ Below(tree, key)) \cup kids ELSE tree

\* The order in which "Expand all" meets the rows.
Before(k, m) ==
  \/ Len(k) < Len(m)
  \/ Len(k) = Len(m) /\ \E i \in DOMAIN k : k[i][1] < m[i][1] /\ SubSeq(k, 1, i - 1) = SubSeq(m, 1, i - 1)

Unfolded(tree) == {n.key : n \in {m \in tree : Below(tree, m.key) # {}}}
Unvisited(tree, seen) == {n \in tree : Below(tree, n.key) = {} /\ n.key \notin seen}
Firsts(rows) == {n \in rows : \A m \in rows \ {n} : Before(n.key, m.key)}

-------------------------------------------------------------------------------
(* Loading: an effect runs again when what it depends on has changed, and  *)
(* cancels its previous run.                                               *)

BomReloads(q)       == page.url # q.url \/ page.tick # q.tick
FlatReloads(q)      == page.mode # q.mode \/ BomReloads(q)
WhereUsedReloads(q) == page.url # q.url \/ page.first # q.first

Stopped(cs, ops) ==
  [i \in DOMAIN cs |-> IF cs[i].op \in ops THEN [cs[i] EXCEPT !.args.canceled = TRUE] ELSE cs[i]]

\* Mutant: the rows stay until the answer, as on the page of a part.
ClearedKeeping(q) == q

\* A load of the flat list that is cancelled does not take its flag down; the
\* next one does, as soon as the list is turned to again.  The page of its own
\* clears the rows at once.
Cleared(q) == IF q.own THEN [q EXCEPT !.nodes = {}] ELSE q

BomRender(q) ==
  LET stopped == (IF BomReloads(q) THEN {"root"} ELSE {})
                   \cup (IF FlatReloads(q) THEN {"flat"} ELSE {})
                   \cup (IF WhereUsedReloads(q) THEN {"whereUsed"} ELSE {})
      flat == FlatReloads(q) /\ q.mode = "flat"
      used == q.own /\ WhereUsedReloads(q)
      r    == [q EXCEPT !.flatLoading = @ \/ flat, !.whereUsedLoading = @ \/ used,
                        !.flatLeft = q.mode # "flat" /\ (@ \/ (page.mode = "flat" /\ page.flatLoading)),
                        !.flatRows = IF page.url = q.url THEN @ ELSE <<>>]
  IN /\ Act /\ On("bom")
     /\ Show(IF BomReloads(q) THEN [Cleared(r) EXCEPT !.treeLoading = TRUE] ELSE r)
     /\ calls' = Stopped(calls, stopped)
                   \o (IF BomReloads(q) THEN <<RootLoad(q.url)>> ELSE <<>>)
                   \o (IF flat THEN <<FlatLoad(q.url)>> ELSE <<>>)
                   \o (IF used THEN <<WhereUsedLoad(q.url, q.first)>> ELSE <<>>)
     /\ UNCHANGED server

GoTo(p)     == p # page.url /\ BomRender([page EXCEPT !.url = p])
RefreshBom  == ~page.own /\ BomRender([page EXCEPT !.tick = ~@])
SetBomMode(m) == ~page.own /\ m # page.mode /\ BomRender([page EXCEPT !.mode = m])
WhereUsedPage(n) == page.own /\ n # page.first /\ BomRender([page EXCEPT !.first = n])

Serve(op, answer(_)) == \E i \in DOMAIN calls :
  IsAsked(i, op) /\ Reply(i, answer(calls[i].args)) /\ UNCHANGED <<page, server, left>>

ServeBom ==
  \/ Serve("root", LAMBDA a : IF a.step = 1 THEN <<a.part>> ELSE Bom[a.part])
  \/ Serve("branch", LAMBDA a : Bom[a.part])
  \/ Serve("all", LAMBDA a : Bom[a.part])
  \/ Serve("flat", LAMBDA a : <<a.part>>)
  \/ Serve("whereUsed", LAMBDA a :
       LET sorted == SetToSeq(Parents(a.part)) IN
       {sorted[k] : k \in (a.first + 1 .. a.first + server.rows) \cap DOMAIN sorted})

Answer(op, taken(_), sent(_)) == \E i \in DOMAIN calls :
  /\ IsAnswered(i, op)
  /\ Show(taken(i)) /\ TakeAndSend(i, sent(i)) /\ UNCHANGED <<server, left>>

\* Mutant: a failed load is left as it is.
TakenUnlessFailed(i) == ~calls[i].args.canceled /\ ~Failed(i)

Taken(i) == ~calls[i].args.canceled

\* The page of its own shows the part as the only root; the table under a
\* part shows its children, which a second request brings.
RootNodes(u, reply) == WithBomOccurrenceKeys(reply, <<>>)
TopNodes(u, reply)  == WithBomOccurrenceKeys(reply, <<Segment(1, u)>>)

More(i) == IF Taken(i) /\ ~Failed(i) /\ ~page.own /\ calls[i].args.step = 1
           THEN <<[calls[i] EXCEPT !.args.step = 2, !.reply = Absent]>> ELSE <<>>

RootAnswer == Answer("root", LAMBDA i :
  IF ~Taken(i) \/ More(i) # <<>> THEN page
  ELSE LET q == [page EXCEPT !.treeLoading = FALSE, !.stray = FALSE] IN
       CASE Failed(i) -> [q EXCEPT !.nodes = {}, !.expanded = IF q.own THEN @ ELSE {}]
         [] ~Failed(i) /\ page.own  -> [q EXCEPT !.nodes = RootNodes(q.url, calls[i].reply)]
         [] ~Failed(i) /\ ~page.own ->
              [q EXCEPT !.nodes = TopNodes(q.url, calls[i].reply), !.expanded = {}], More)

FlatAnswer == Answer("flat", LAMBDA i :
  IF ~Taken(i) THEN page
  ELSE [page EXCEPT !.flatLoading = FALSE, !.flatRows = IF Failed(i) THEN <<>> ELSE calls[i].reply],
  LAMBDA i : <<>>)

\* An outage is taken for a load that was cancelled: it is not told, and the
\* rows stay (lib/api.ts:36).
WhereUsedAnswer == \E outage \in BOOLEAN : Answer("whereUsed", LAMBDA i :
  LET q == [page EXCEPT !.whereUsedLoading = FALSE, !.outage = outage] IN
  CASE ~Taken(i)              -> page
    [] Taken(i) /\ ~Failed(i) -> [q EXCEPT !.whereUsed = calls[i].reply, !.outage = FALSE]
    [] Taken(i) /\ Failed(i)  -> [q EXCEPT !.whereUsed = IF outage THEN @ ELSE {}],
  LAMBDA i : <<>>)

-------------------------------------------------------------------------------
(* Unfolding rows.                                                         *)

Unfold == \E n \in page.nodes :
  /\ Act /\ On("bom") /\ n.key \notin page.expanded
  /\ Show([page EXCEPT !.expanded = @ \cup {n.key}])
  /\ Send(<<Call("branch", [key |-> n.key, part |-> n.part])>>)
  /\ UNCHANGED server

Fold(keys) ==
  /\ Act /\ On("bom") /\ keys # {} /\ keys \subseteq page.expanded
  /\ Show([page EXCEPT !.expanded = @ \ keys])
  /\ UNCHANGED <<calls, server>>

\* The branch hangs on the row of its key, wherever the page has gone.
BranchAnswer == Answer("branch", LAMBDA i :
  LET key == calls[i].args.key IN
  IF Failed(i) THEN page
  ELSE [page EXCEPT !.nodes = SetNodeChildren(@, key, WithBomOccurrenceKeys(calls[i].reply, key)),
                    !.expanded = @ \cup {key}], LAMBDA i : <<>>)

\* The branch of a row without children, in the copy of the tree.
BranchOf(n, run, tree) ==
  Call("all", [run EXCEPT !.tree = tree, !.seen = @ \cup {n.key}, !.key = n.key, !.part = n.part])

ThisLoad == <<page.url, page.tick>>

ExpandAll == \E n \in Firsts(Unvisited(page.nodes, {})) :
  /\ Act /\ On("bom") /\ ~page.own
  /\ Send(<<BranchOf(n, [tree |-> {}, expanded |-> page.expanded, seen |-> {}, key |-> <<>>, part |-> Absent,
                         from |-> IF page.treeLoading \/ page.stray THEN Absent ELSE ThisLoad], page.nodes)>>)
  /\ UNCHANGED <<page, server>>

GrownTree(i) ==
  LET a == calls[i].args IN
  IF Failed(i) THEN a.tree
  ELSE SetNodeChildren(a.tree, a.key, WithBomOccurrenceKeys(calls[i].reply, a.key))

\* The copy replaces whatever tree is shown by now; a failure ends the loop early.
PutBack(i) ==
  LET a == calls[i].args
      met == IF Failed(i) THEN {k \in Unfolded(a.tree) : Before(k, a.key)} ELSE Unfolded(GrownTree(i))
  IN Show([page EXCEPT !.nodes = GrownTree(i), !.expanded = a.expanded \cup met,
                       !.stray = @ \/ a.from = Absent \/ a.from # ThisLoad])

ExpandAllAnswer == \E i \in DOMAIN calls :
  /\ IsAnswered(i, "all")
  /\ LET rows == Unvisited(GrownTree(i), calls[i].args.seen) IN
     \/ (Failed(i) \/ rows = {}) /\ PutBack(i) /\ Take(i)
     \/ ~Failed(i) /\ UNCHANGED page
        /\ \E n \in Firsts(rows) : TakeAndSend(i, <<BranchOf(n, calls[i].args, GrownTree(i))>>)
  /\ UNCHANGED <<server, left>>

BomNext ==
  /\ On("bom")
  /\ \/ \E p \in Assemblies : GoTo(p)
     \/ RefreshBom
     \/ \E m \in {"tree", "flat"} : SetBomMode(m)
     \/ \E n \in {0, 1} : WhereUsedPage(n)
     \/ ServeBom \/ RootAnswer \/ FlatAnswer \/ WhereUsedAnswer
     \/ Unfold
     \/ \E k \in page.expanded : Fold({k})
     \/ ~page.own /\ Fold(page.expanded)
     \/ BranchAnswer \/ ExpandAll \/ ExpandAllAnswer

-------------------------------------------------------------------------------

\* The rows on screen are of the part in the address, the flat ones too: the
\* page of its own never shows another part's rows (BomPage.tsx:123-147), the
\* table under a part may until its load is answered, and after "Expand all"
\* has put an older tree back (PartDetailPage.tsx:1514); the where-used rows
\* are of that part too, unless their load met an outage (BomPage.tsx:315).
TreeIsOfThePart ==
  On("bom") =>
    /\ page.own \/ (~page.treeLoading /\ ~page.stray) =>
         \A n \in page.nodes :
           IF page.own THEN \E t \in RootNodes(page.url, <<page.url>>) : IsPrefix(t.key, n.key)
           ELSE \E t \in TopNodes(page.url, Bom[page.url]) : IsPrefix(t.key, n.key)
    /\ page.mode = "flat" /\ ~page.flatLoading => page.flatRows \in {<<>>, <<page.url>>}
    /\ ~page.whereUsedLoading /\ ~page.outage => page.whereUsed \subseteq Parents(page.url)

\* Every row is a child of the row above it, at its place, however late the
\* branch was answered and whatever tree it then met (lib/bomTree.ts:20).
BranchesBelongToNodes ==
  On("bom") => \A n \in page.nodes :
    \/ Len(n.key) = (IF page.own THEN 1 ELSE 2)
    \/ \E m \in page.nodes :
         /\ m.key = Front(n.key)
         /\ Last(n.key)[1] \in DOMAIN Bom[m.part]
         /\ n.part = Bom[m.part][Last(n.key)[1]]
===============================================================================
