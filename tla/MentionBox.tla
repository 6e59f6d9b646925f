------------------------------- MODULE MentionBox ------------------------------
(***************************************************************************)
(* Writing to somebody: the text field of comments, replies and reviews,   *)
(* which suggests users behind an "@":                                     *)
(* frontend/src/components/MentionTextarea.tsx.                            *)
(*                                                                         *)
(* `typed' is what stands behind the "@" at the caret, `range' whether the *)
(* place of that mention is known, `timer' what will be asked for when no  *)
(* key follows for 140 ms.  `late' and `beside' are history: suggestions   *)
(* came, or stayed, when their mention was closed or sent; a chosen user   *)
(* was put beside what had been typed, not in its place.                   *)
(***************************************************************************)
EXTENDS Browser

CONSTANT Mentionable     \* [what is typed -> the users suggested for it]

ASSUME MentionAssumption == Absent \notin DOMAIN Mentionable

NoSuggestions == [of |-> Absent, users |-> {}]

MentionStart ==
  [at |-> "mention", typed |-> Absent, range |-> FALSE, timer |-> Absent, suggestions |-> NoSuggestions,
   closing |-> FALSE, late |-> FALSE, beside |-> FALSE]

CloseSuggestions(p) == [p EXCEPT !.range = FALSE, !.suggestions = NoSuggestions]

Superseded(cs) == [i \in DOMAIN cs |-> [cs[i] EXCEPT !.args.canceled = TRUE]]

\* A key or a click leaves the caret behind an "@": what is on its way is
\* overtaken, what is shown stays.
LoadSuggestions(q) ==
  /\ Act /\ On("mention")
  /\ Show([page EXCEPT !.typed = q, !.range = TRUE, !.timer = q])
  /\ calls' = Superseded(calls)
  /\ UNCHANGED server

\* Or elsewhere: nothing that is on its way is overtaken.
TypeElsewhere ==
  /\ Act /\ On("mention")
  /\ Show([CloseSuggestions(page) EXCEPT !.typed = Absent, !.timer = Absent])
  /\ UNCHANGED <<calls, server>>

AskMentionable ==
  /\ page.timer # Absent
  /\ Show([page EXCEPT !.timer = Absent])
  /\ Send(<<Call("mentionable", [typed |-> page.timer, canceled |-> FALSE])>>)
  /\ UNCHANGED <<server, left>>

ServeMentionable == \E i \in DOMAIN calls :
  /\ IsAsked(i, "mentionable")
  /\ Reply(i, [of |-> calls[i].args.typed, users |-> Mentionable[calls[i].args.typed]])
  /\ UNCHANGED <<page, server, left>>

\* Mutant: an answer is taken whatever was typed since.
NewestOrNot(i) == TRUE

Newest(i) == ~calls[i].args.canceled

\* Whether the menu was closed meanwhile is not asked.
MentionableAnswer == \E i \in DOMAIN calls :
  /\ IsAnswered(i, "mentionable")
  /\ Show(CASE ~Newest(i) -> page
            [] Newest(i) /\ Failed(i)  -> CloseSuggestions(page)
            [] Newest(i) /\ ~Failed(i) -> [page EXCEPT !.suggestions = calls[i].reply, !.late = @ \/ ~page.range])
  /\ Take(i) /\ UNCHANGED <<server, left>>

IsOpen(p) == p.suggestions.users # {}

\* Enter, Tab or a click: the user takes the place of what was typed or, when
\* that is not known, is put at the caret.
ChooseMention ==
  /\ Act /\ On("mention") /\ IsOpen(page)
  /\ Show([CloseSuggestions(page) EXCEPT !.typed = Absent, !.beside = @ \/ ~page.range])
  /\ UNCHANGED <<calls, server>>

Escape ==
  /\ Act /\ On("mention") /\ IsOpen(page)
  /\ Show(CloseSuggestions(page))
  /\ UNCHANGED <<calls, server>>

\* The menu closes 120 ms after the field was left.
Blur == Act /\ On("mention") /\ Show([page EXCEPT !.closing = TRUE]) /\ UNCHANGED <<calls, server>>

CloseAfterBlur ==
  /\ page.closing
  /\ Show([CloseSuggestions(page) EXCEPT !.closing = FALSE])
  /\ UNCHANGED <<calls, server, left>>

\* The form is sent and empties the text; the field is not told.
SendText ==
  /\ Act /\ On("mention")
  /\ Show([page EXCEPT !.typed = Absent, !.late = @ \/ page.range])
  /\ UNCHANGED <<calls, server>>

MentionNext ==
  /\ On("mention")
  /\ \/ \E q \in DOMAIN Mentionable : LoadSuggestions(q)
     \/ TypeElsewhere \/ AskMentionable \/ ServeMentionable \/ MentionableAnswer
     \/ ChooseMention \/ Escape \/ Blur \/ CloseAfterBlur \/ SendText

-------------------------------------------------------------------------------

\* Once nothing is on its way the users suggested are those for what is
\* typed, and a chosen one has taken its place, unless the suggestions came
\* after their menu was closed or the text was sent
\* (MentionTextarea.tsx:86-97, 118).
SuggestionsAnswerTheQuery ==
  On("mention") /\ ~page.late =>
    /\ ~page.beside
    /\ calls = <<>> /\ page.timer = Absent /\ IsOpen(page) => page.suggestions.of = page.typed
===============================================================================
