------------------------------- MODULE AddinPage -------------------------------
(***************************************************************************)
(* The administrator's page for part numbers and client tokens:            *)
(* frontend/src/pages/AdminAddinPage.tsx with lib/numbering.ts.  Three     *)
(* parts share the page: the tokens of a user, the switches of the         *)
(* numbering schemes, and the builder of a new scheme.                     *)
(*                                                                         *)
(* Nothing is disabled while a request is out but the button that saves    *)
(* the switches.  `doubt' is history: a request failed, two lists were on  *)
(* their way, or the pattern was edited while it was being checked.        *)
(* `parts' are the parts that are used.                                    *)
(***************************************************************************)
EXTENDS Browser, FiniteSetsExt

CONSTANTS Owners, Schemes

OwnTokens(u) == {<<u, 1>>, <<u, 2>>}

Literal(uid) == [uid |-> uid, kind |-> "literal", auto |-> FALSE]
Counter(uid, auto) == [uid |-> uid, kind |-> "seq", auto |-> auto]
NewPattern == <<Literal(1), Counter(2, TRUE)>>

\* uid and draft.uid tell pieces apart; the code knows them by position.
AddinStart(on, parts) ==
  [at |-> "addin", parts |-> parts, user |-> Absent, tokens |-> {}, loaded |-> on, drafts |-> on, saving |-> FALSE,
   segments |-> NewPattern, editor |-> 0, draft |-> Literal(3), next |-> 4, strayed |-> FALSE,
   example |-> Absent, doubt |-> FALSE]

AddinServer(on) ==
  [good |-> UNION {OwnTokens(u) : u \in Owners}, schemes |-> on, created |-> <<>>]

EditPage(p) == Act /\ On("addin") /\ Show(p) /\ UNCHANGED <<calls, server>>
AskServer(p, op, args) == Act /\ On("addin") /\ Show(p) /\ Send(<<Call(op, args)>>) /\ UNCHANGED server
Handled     == UNCHANGED <<page, left>>
HandledHere == UNCHANGED <<server, left>>

-------------------------------------------------------------------------------
(* Tokens of a user.                                                       *)

ClickUser(u) == AskServer(page, "userTokens", u)

\* Mutant: the row that was clicked is selected at once.
SelectAtOnce(u) == AskServer([page EXCEPT !.user = u], "userTokens", u)

LoadUserTokens(u) == ClickUser(u)

RevokeUserToken == \E t \in page.tokens :
  page.user # Absent /\ AskServer(page, "revokeToken", [user |-> page.user, token |-> t])

RevokeAllTokens == AskServer(page, "revokeAll", [user |-> page.user])

\* The user and the tokens are shown together.
UserTokensAnswer == \E i \in DOMAIN calls :
  /\ IsAnswered(i, "userTokens")
  /\ Show(IF Failed(i) THEN page
          ELSE [page EXCEPT !.user = calls[i].args, !.tokens = calls[i].reply])
  /\ Take(i) /\ HandledHere

\* The list of the user who was shown at the click, if any, is read again.
RevokedAnswer == \E i \in DOMAIN calls :
  /\ IsAnswered(i, "revokeToken") \/ IsAnswered(i, "revokeAll")
  /\ LET u == calls[i].args.user IN
     TakeAndSend(i, IF Failed(i) \/ u = Absent THEN <<>> ELSE <<Call("userTokens", u)>>)
  /\ UNCHANGED page /\ HandledHere

ListUserTokens == \E i \in DOMAIN calls :
  /\ IsAsked(i, "userTokens")
  /\ Reply(i, server.good \cap OwnTokens(calls[i].args))
  /\ Handled /\ UNCHANGED server

RevokeOfUser == \E i \in DOMAIN calls :
  /\ IsAsked(i, "revokeToken")
  /\ LET a == calls[i].args IN
     IF a.token \in OwnTokens(a.user)
     THEN server' = [server EXCEPT !.good = @ \ {a.token}] /\ Reply(i, TRUE)
     ELSE UNCHANGED server /\ Reply(i, Failure)
  /\ Handled

RevokeOfAll == \E i \in DOMAIN calls :
  /\ IsAsked(i, "revokeAll")
  /\ server' = [server EXCEPT !.good = {}] /\ Reply(i, TRUE)
  /\ Handled

TokensPart ==
  \/ \E u \in Owners : LoadUserTokens(u)
  \/ RevokeUserToken \/ RevokeAllTokens \/ UserTokensAnswer \/ RevokedAnswer
  \/ ListUserTokens \/ RevokeOfUser \/ RevokeOfAll

-------------------------------------------------------------------------------
(* The switches of the schemes.                                            *)

ListSchemes(then) == Call("schemes", then)

\* Schemes that the list still shows and whose switch was moved.
Changed(p) == {s \in DOMAIN p.loaded : p.drafts[s] # p.loaded[s]}

FlipSwitch(s) == s \in DOMAIN page.loaded /\ EditPage([page EXCEPT !.drafts[s] = ~@])

\* The changes of the moment are sent one after the other.
NextChange(todo, active) ==
  IF todo = {} THEN ListSchemes("saved")
  ELSE LET s == CHOOSE s \in todo : TRUE
       IN Call("enable", [scheme |-> s, active |-> active, todo |-> todo \ {s}])

SaveEnabledChanges ==
  /\ Act /\ On("addin") /\ ~page.saving /\ Changed(page) # {}
  /\ Show([page EXCEPT !.saving = TRUE])
  /\ Send(<<NextChange(Changed(page), page.drafts)>>)
  /\ UNCHANGED server

EnableScheme == \E i \in DOMAIN calls :
  /\ IsAsked(i, "enable")
  /\ LET a == calls[i].args IN
     IF a.scheme \in DOMAIN server.schemes
     THEN server' = [server EXCEPT !.schemes[a.scheme] = a.active[a.scheme]] /\ Reply(i, TRUE)
     ELSE UNCHANGED server /\ Reply(i, Failure)
  /\ Handled

\* Mutant: the page takes its switches for saved without reading the list.
AfterChange(i) ==
  IF calls[i].args.todo = {} THEN <<>> ELSE <<NextChange(calls[i].args.todo, calls[i].args.active)>>

Following(i) == <<NextChange(calls[i].args.todo, calls[i].args.active)>>

Overlapping == page.doubt \/ Waiting("schemes")

\* The first failure ends it; what was saved before is not read again.
EnabledAnswer == \E i \in DOMAIN calls :
  /\ IsAnswered(i, "enable")
  /\ IF Failed(i)
     THEN Show([page EXCEPT !.saving = FALSE, !.doubt = TRUE]) /\ Take(i)
     ELSE Show([page EXCEPT !.doubt = Overlapping]) /\ TakeAndSend(i, Following(i))
  /\ HandledHere

DeleteScheme(s) == s \in DOMAIN page.loaded /\ AskServer(page, "deleteScheme", s)

DeleteStored == \E i \in DOMAIN calls :
  /\ IsAsked(i, "deleteScheme")
  /\ LET s == calls[i].args IN
     IF s \in DOMAIN server.schemes
     THEN /\ server' = [server EXCEPT !.schemes = [x \in DOMAIN @ \ {s} |-> @[x]]]
          /\ Reply(i, TRUE)
     ELSE UNCHANGED server /\ Reply(i, Failure)
  /\ Handled

DeletedAnswer == \E i \in DOMAIN calls :
  /\ IsAnswered(i, "deleteScheme")
  /\ IF Failed(i) THEN Show([page EXCEPT !.doubt = TRUE]) /\ Take(i)
     ELSE Show([page EXCEPT !.doubt = Overlapping]) /\ TakeAndSend(i, <<ListSchemes("deleted")>>)
  /\ HandledHere

ServeSchemes == \E i \in DOMAIN calls :
  /\ IsAsked(i, "schemes")
  /\ Reply(i, server.schemes)
  /\ Handled /\ UNCHANGED server

\* The builder starts afresh.
StartBuilder(p) ==
  [p EXCEPT !.segments = NewPattern, !.editor = 0, !.draft = Literal(3), !.next = 4,
            !.strayed = FALSE, !.example = Absent, !.doubt = @ \/ Waiting("check")]

\* A list replaces the switches, moved ones too.  The last step of saving
\* and of creating waits for it, whether it failed or not.
SchemesAnswer == \E i \in DOMAIN calls :
  /\ IsAnswered(i, "schemes")
  /\ LET p == IF Failed(i) THEN [page EXCEPT !.doubt = TRUE]
              ELSE [page EXCEPT !.loaded = calls[i].reply, !.drafts = calls[i].reply]
     IN Show(CASE calls[i].args = "saved"   -> [p EXCEPT !.saving = FALSE]
               [] calls[i].args = "deleted" -> p
               [] calls[i].args = "created" -> StartBuilder(p))
  /\ Take(i) /\ HandledHere

SwitchesPart ==
  \/ \E s \in Schemes : FlipSwitch(s) \/ DeleteScheme(s)
  \/ SaveEnabledChanges \/ EnableScheme \/ EnabledAnswer \/ DeleteStored \/ DeletedAnswer

-------------------------------------------------------------------------------
(* The builder.                                                            *)

Counters(s) == {k \in DOMAIN s : s[k].kind = "seq"}
Autos(s)    == {k \in Counters(s) : s[k].auto}

\* Mutant: of several automatic counters one is kept, but none is chosen.
KeepOne(s) ==
  [k \in DOMAIN s |-> [s[k] EXCEPT !.auto = k \in Autos(s) /\ k = Min(Autos(s))]]

\* The first automatic counter stays so; without one, the first counter is.
NormalizeSequenceSegments(s) ==
  LET first == IF Autos(s) # {} THEN Min(Autos(s)) ELSE Min(Counters(s))
  IN IF Counters(s) = {} THEN s
     ELSE [k \in DOMAIN s |-> [s[k] EXCEPT !.auto = k = first]]

\* Mutant: the example outlives the pattern.
StalePattern(p, s) == [p EXCEPT !.segments = NormalizeSequenceSegments(s)]

\* Whatever changes the pattern clears the example.
Pattern(p, s) ==
  [p EXCEPT !.segments = NormalizeSequenceSegments(s), !.example = Absent,
            !.doubt = @ \/ Waiting("check")]

NoDraft(p) == [p EXCEPT !.editor = 0, !.draft = Literal(p.next), !.next = @ + 1, !.strayed = FALSE]

\* The draft is a piece of its own until it is applied.
DraftCounter(auto) == EditPage([page EXCEPT !.draft.kind = "seq", !.draft.auto = auto])

EditSegment == \E k \in DOMAIN page.segments :
  EditPage([page EXCEPT !.editor = k, !.draft = page.segments[k], !.strayed = FALSE])

CancelEdit == page.editor # 0 /\ EditPage(NoDraft(page))

\* A position past the end matches no piece: the draft is dropped.
ApplyDraft ==
  EditPage(NoDraft(Pattern(page,
    IF page.editor = 0 THEN Append(page.segments, page.draft)
    ELSE [k \in DOMAIN page.segments |-> IF k = page.editor THEN page.draft ELSE page.segments[k]])))

Without(s, k) == [j \in 1 .. Len(s) - 1 |-> s[IF j < k THEN j ELSE j + 1]]

\* The piece being edited keeps its position, wherever it has gone.
RemoveSegment == \E k \in DOMAIN page.segments :
  LET p == Pattern(page, Without(page.segments, k)) IN
  EditPage(IF page.editor = k THEN NoDraft(p)
           ELSE [p EXCEPT !.strayed = @ \/ k < page.editor])

\* Mutant: the editor does not follow the piece it moves.
Unmoved(editor, k, target) == editor

Moved(editor, k, target) == IF editor = k THEN target ELSE editor

MoveSegment == \E k, target \in DOMAIN page.segments :
  /\ target \in {k - 1, k + 1}
  /\ LET s == [page.segments EXCEPT ![k] = page.segments[target], ![target] = page.segments[k]] IN
     EditPage([Pattern(page, s) EXCEPT !.editor = Moved(@, k, target),
                                       !.strayed = @ \/ page.editor = target])

CheckScheme ==
  /\ Counters(page.segments) # {}
  /\ AskServer([page EXCEPT !.example = Absent], "check", page.segments)

CreateScheme ==
  /\ Counters(page.segments) # {}
  /\ AskServer(page, "create", NormalizeSequenceSegments(page.segments))

CheckPattern == \E i \in DOMAIN calls :
  IsAsked(i, "check") /\ Reply(i, calls[i].args) /\ Handled /\ UNCHANGED server

StoreScheme == \E i \in DOMAIN calls :
  /\ IsAsked(i, "create")
  /\ server' = [server EXCEPT !.created = Append(@, calls[i].args)]
  /\ Reply(i, TRUE) /\ Handled

CheckAnswer == \E i \in DOMAIN calls :
  /\ IsAnswered(i, "check")
  /\ Show(IF Failed(i) THEN page ELSE [page EXCEPT !.example = calls[i].reply])
  /\ Take(i) /\ HandledHere

CreatedAnswer == \E i \in DOMAIN calls :
  /\ IsAnswered(i, "create")
  /\ IF Failed(i) THEN Take(i) /\ UNCHANGED page
     ELSE Show([page EXCEPT !.doubt = Overlapping]) /\ TakeAndSend(i, <<ListSchemes("created")>>)
  /\ HandledHere

BuilderPart ==
  \/ \E auto \in BOOLEAN : DraftCounter(auto)
  \/ EditPage(StartBuilder(page))
  \/ EditSegment \/ CancelEdit \/ ApplyDraft \/ RemoveSegment \/ MoveSegment
  \/ CheckScheme \/ CreateScheme \/ CheckPattern \/ StoreScheme \/ CheckAnswer \/ CreatedAnswer

AddinNext ==
  /\ On("addin")
  /\ \/ "tokens" \in page.parts /\ TokensPart
     \/ "switches" \in page.parts /\ SwitchesPart
     \/ "builder" \in page.parts /\ BuilderPart
     \/ ServeSchemes \/ SchemesAnswer

-------------------------------------------------------------------------------

\* The tokens on screen are those of the user named above them, whichever
\* answer comes last: a click on "Revoke" is for that user's token
\* (AdminAddinPage.tsx:200).
TokensBelongToUser ==
  On("addin") /\ page.user # Absent => page.tokens \subseteq OwnTokens(page.user)

\* When nothing is on its way and no switch waits to be saved, the switches
\* are the stored ones, unless a request failed or two lists overlapped
\* (AdminAddinPage.tsx:242).
ShownSwitchesAreStored ==
  On("addin") /\ calls = <<>> /\ ~page.doubt /\ Changed(page) = {} => page.loaded = server.schemes

\* After any sequence of additions, updates, removals and moves, a pattern
\* with counters has exactly one that the server assigns (numbering.ts:40).
OneAutoCounter ==
  On("addin") =>
    \A s \in {page.segments} \cup {server.created[k] : k \in DOMAIN server.created} :
      Counters(s) # {} => Cardinality(Autos(s)) = 1

\* "Update piece" overwrites the piece that was opened, unless another piece
\* was moved across it or removed before it (AdminAddinPage.tsx:471-519).
UpdateHitsOpenedPiece ==
  On("addin") /\ page.editor # 0 /\ ~page.strayed =>
    page.editor \in DOMAIN page.segments /\ page.segments[page.editor].uid = page.draft.uid

\* The server's example is of the pattern on screen, unless the pattern was
\* edited while it was being checked (AdminAddinPage.tsx:417).
ExampleIsOfPattern ==
  On("addin") /\ page.example # Absent /\ ~page.doubt => page.example = page.segments
===============================================================================
