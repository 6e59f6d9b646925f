-------------------------------- MODULE PackForm -------------------------------
(***************************************************************************)
(* The document packs of a part: the "Doc Packs" tab of                    *)
(* frontend/src/pages/PartDetailPage.tsx.                                  *)
(*                                                                         *)
(* What can be chosen depends on the part and the depth and is loaded when *)
(* the tab is opened.  File types and processes are filled, ticked and     *)
(* sent alike; one choice stands for both.  The page stays mounted from    *)
(* part to part and keeps the choice.  `kept' is history: some of the      *)
(* choice was not made among the options of the part and depth shown.      *)
(***************************************************************************)
EXTENDS Browser

CONSTANTS
  Offered,     \* [part -> [depth -> set of types]]
  Preset       \* the types of the fabrication preset

PackedParts == DOMAIN Offered
Depths      == {"top", "full"}
NoOptions   == [of |-> Absent, types |-> {}]

PackStart(p) ==
  [at |-> "pack", url |-> p, depth |-> "full", wanted |-> FALSE, opts |-> NoOptions, chosen |-> {},
   building |-> FALSE, kept |-> FALSE]

PackServer == [built |-> {}]

OptionsCall(q) == Call("options", [part |-> q.url, depth |-> q.depth, chosen |-> q.chosen, canceled |-> FALSE])

Cancelling(cs) ==
  [i \in DOMAIN cs |-> IF cs[i].op = "options" THEN [cs[i] EXCEPT !.args.canceled = TRUE] ELSE cs[i]]

\* The effect that loads the options runs again: the choice as it is now is
\* what its answer will look at.
LoadsOptions(q) ==
  calls' = Cancelling(calls) \o (IF q.wanted THEN <<OptionsCall(q)>> ELSE <<>>)

RequestDocOpts ==
  /\ Act /\ On("pack") /\ ~page.wanted
  /\ LET q == [page EXCEPT !.wanted = TRUE] IN Show(q) /\ LoadsOptions(q)
  /\ UNCHANGED server

SetDepth == \E d \in Depths \ {page.depth} :
  /\ Act /\ On("pack")
  /\ LET q == [page EXCEPT !.depth = d, !.kept = @ \/ page.chosen # {}] IN Show(q) /\ LoadsOptions(q)
  /\ UNCHANGED server

\* The options go, the choice stays.  The effect has already asked for the
\* options of the next part when it learns that they are not wanted.
PackNavigate == \E p \in PackedParts \ {page.url} :
  /\ Act /\ On("pack")
  /\ LET q == [page EXCEPT !.url = p, !.kept = @ \/ page.chosen # {}] IN
     /\ Show([q EXCEPT !.wanted = FALSE, !.opts = NoOptions])
     /\ calls' = Cancelling(calls \o (IF q.wanted THEN <<OptionsCall(q)>> ELSE <<>>))
  /\ UNCHANGED server

DocpackOptions == \E i \in DOMAIN calls :
  /\ IsAsked(i, "options")
  /\ LET a == calls[i].args IN Reply(i, [of |-> <<a.part, a.depth>>, types |-> Offered[a.part][a.depth]])
  /\ UNCHANGED <<page, server, left>>

\* Mutant: an answer is taken whatever was asked for since.
OptionsTakenAnyway(i) == ~Failed(i)

OptionsTaken(i) == ~Failed(i) /\ ~calls[i].args.canceled

\* Everything is chosen when nothing was, at the time of asking.
OptionsAnswer == \E i \in DOMAIN calls :
  /\ IsAnswered(i, "options")
  /\ LET q == [page EXCEPT !.opts = calls[i].reply] IN
     Show(CASE ~OptionsTaken(i) -> page
            [] OptionsTaken(i) /\ calls[i].args.chosen # {} -> q
            [] OptionsTaken(i) /\ calls[i].args.chosen = {} ->
                 [q EXCEPT !.chosen = IF q.opts.types = {} THEN @ ELSE q.opts.types,
                           !.kept = @ /\ q.opts.types = {}])
  /\ Take(i) /\ UNCHANGED <<server, left>>

Elsewhere == page.opts.of # <<page.url, page.depth>>

Choose(types, kept) ==
  /\ Act /\ On("pack")
  /\ types # page.chosen
  /\ Show([page EXCEPT !.chosen = types, !.kept = kept])
  /\ UNCHANGED <<calls, server>>

TickType   == \E t \in page.opts.types :
  Choose(IF t \in page.chosen THEN page.chosen \ {t} ELSE page.chosen \cup {t}, page.kept \/ Elsewhere)
AllTypes   == page.opts.of # Absent /\ Choose(page.opts.types, Elsewhere)
NoTypes    == page.opts.of # Absent /\ Choose({}, FALSE)
Fabrication == Choose(Preset, TRUE)

\* One pack is built at a time; it is of the part shown when it was asked for.
SubmitPack ==
  /\ Act /\ On("pack") /\ ~page.building
  /\ Show([page EXCEPT !.building = TRUE])
  /\ Send(<<Call("build", [part |-> page.url, depth |-> page.depth, types |-> page.chosen, kept |-> page.kept])>>)
  /\ UNCHANGED server

BuildPack == \E i \in DOMAIN calls :
  /\ IsAsked(i, "build")
  /\ server' = [server EXCEPT !.built = @ \cup {calls[i].args}]
  /\ Reply(i, TRUE)
  /\ UNCHANGED <<page, left>>

\* Mutant: the page is told of success only.
BuildEndsWhenBuilt(i) == [page EXCEPT !.building = Failed(i)]

BuildEnds(i) == [page EXCEPT !.building = FALSE]

BuildAnswer == \E i \in DOMAIN calls :
  /\ IsAnswered(i, "build")
  /\ Show(BuildEnds(i)) /\ Take(i) /\ UNCHANGED <<server, left>>

\* The request is aborted; the pack may have been built by then.
CancelBuild == \E i \in DOMAIN calls :
  /\ Act /\ On("pack") /\ page.building /\ calls[i].op = "build" /\ ~Failed(i)
  /\ Reply(i, Failure)
  /\ UNCHANGED <<page, server>>

PackNext ==
  /\ On("pack")
  /\ \/ RequestDocOpts \/ SetDepth \/ PackNavigate \/ DocpackOptions \/ OptionsAnswer
     \/ TickType \/ AllTypes \/ NoTypes \/ Fabrication
     \/ SubmitPack \/ BuildPack \/ BuildAnswer \/ CancelBuild

-------------------------------------------------------------------------------

\* A pack is built of what its part offers at its depth, however the options
\* of other parts and depths came in, unless some of the choice was kept from
\* another part or depth or preset (PartDetailPage.tsx:648, 1303).
PackIsOfWhatIsOffered ==
  On("pack") => \A b \in server.built : ~b.kept => b.types \subseteq Offered[b.part][b.depth]
===============================================================================
