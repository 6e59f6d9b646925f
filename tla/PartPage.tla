-------------------------------- MODULE PartPage -------------------------------
(***************************************************************************)
(* The page of one part: frontend/src/pages/PartDetailPage.tsx with        *)
(* lib/partIdentity.ts.  The page stays mounted when a link leads to       *)
(* another part: what it shows is replaced as the answers come in.         *)
(*                                                                         *)
(* Loading the part is cancelled by the next load; the loads of files,     *)
(* overview and share links, and the answers to what the user did, are not *)
(* and land on whatever part is shown by then.  `doubt' is history: such   *)
(* an answer was late, overlapped with another one, or failed.  `uses' is  *)
(* what is used of the page.  A text is known by the parts it was          *)
(* typed for, a comment, a file and a share link by the part it is of.     *)
(***************************************************************************)
EXTENDS Browser

CONSTANT Parts      \* [pn, rev], as in the address of the page

Comments == [of : Parts, id : Nat, v : Nat]

\* No value is neither a failure nor something that is answered.
ASSUME PartAssumption ==
  /\ \A p \in Parts : p = [pn |-> p.pn, rev |-> p.rev]
  /\ Absent \notin Comments \cup Seq(Comments) \cup {Failure}

NoText == [of |-> {}, v |-> 0]

PartStart(u, uses) ==
  [at |-> "part", uses |-> uses, url |-> u, tick |-> FALSE, part |-> u, loading |-> FALSE,
   forbidden |-> FALSE, notes |-> [of |-> {u}, v |-> 0], saved |-> [of |-> {u}, v |-> 0],
   notesSaving |-> FALSE, comments |-> <<>>, commentSaving |-> FALSE, refreshing |-> FALSE,
   uploading |-> FALSE, extra |-> [of |-> u, files |-> {}], overview |-> [of |-> u, files |-> {}],
   shareLinks |-> {}, shareUrl |-> Absent, sharing |-> FALSE, arenaBusy |-> Absent,
   doubt |-> FALSE]

PartServer(hidden) ==
  [there |-> Parts, hidden |-> hidden, notes |-> [p \in Parts |-> [of |-> {p}, v |-> 0]],
   comments |-> [p \in Parts |-> <<>>], files |-> [p \in Parts |-> {}],
   shares |-> [p \in Parts |-> {}], made |-> 0]

\* The revision of the loaded part while it is the part in the address.
EffectiveRevisionFor(p) ==
  IF p.part # Absent /\ p.part.pn = p.url.pn THEN p.part.rev ELSE p.url.rev

Sel(p) == [pn |-> p.url.pn, rev |-> EffectiveRevisionFor(p)]

Shown(p) == ~p.loading /\ ~p.forbidden /\ p.part # Absent

-------------------------------------------------------------------------------
(* Rendering: an effect runs again when what it depends on has changed.    *)

Reloads(p, q)    == p.url # q.url \/ p.tick # q.tick
Reselects(p, q)  == Sel(p) # Sel(q)

DetailLoad(p) == Call("detail", [part |-> p.url, canceled |-> FALSE])
ExtraLoad(sel)    == Call("extra", sel)
OverviewLoad(u)   == Call("overview", u)
LoadShareLinks(sel) == Call("shares", sel)

PageEffects(p, q) ==
     (IF Reloads(p, q) THEN <<DetailLoad(q)>> ELSE <<>>)
  \o (IF "files" \in q.uses /\ (Reselects(p, q) \/ p.tick # q.tick) THEN <<ExtraLoad(Sel(q))>> ELSE <<>>)
  \o (IF "files" \in q.uses /\ Reloads(p, q) THEN <<OverviewLoad(q.url)>> ELSE <<>>)
  \o (IF "shares" \in q.uses /\ Reselects(p, q) THEN <<LoadShareLinks(Sel(q))>> ELSE <<>>)

Canceled(cs) ==
  [i \in DOMAIN cs |-> IF cs[i].op = "detail" THEN [cs[i] EXCEPT !.args.canceled = TRUE] ELSE cs[i]]

\* The page becomes q; `rest' are the requests that remain.  A comment on
\* its way meets a load of all comments.
Render(q, rest) ==
  LET r == IF Reselects(page, q) THEN [q EXCEPT !.shareUrl = Absent] ELSE q IN
  /\ Show(IF Reloads(page, q)
          THEN [r EXCEPT !.loading = TRUE, !.forbidden = FALSE, !.doubt = @ \/ r.commentSaving]
          ELSE r)
  /\ calls' = (IF Reloads(page, q) THEN Canceled(rest) ELSE rest) \o PageEffects(page, q)

\* Something of this page is on its way, or was asked for another part.
Late(i, ops, here) == here \/ \E j \in DOMAIN calls \ {i} : calls[j].op \in ops
InDoubt(q, late)   == [q EXCEPT !.doubt = @ \/ late]

Look(q)     == Act /\ On("part") /\ Render(q, calls) /\ UNCHANGED server
AskFor(q, c)  == Act /\ On("part") /\ Shown(page) /\ Show(q) /\ Send(<<c>>) /\ UNCHANGED server
Answering   == UNCHANGED <<server, left>>
Handling    == UNCHANGED <<page, left>>

-------------------------------------------------------------------------------
(* The part.                                                               *)

Navigate(u) == u # page.url /\ Look([page EXCEPT !.url = u])

ServeDetail == \E i \in DOMAIN calls :
  /\ IsAsked(i, "detail")
  /\ LET p == calls[i].args.part IN
     Reply(i, IF p \notin server.there THEN Failure
              ELSE [part |-> p, forbidden |-> p \in server.hidden, notes |-> server.notes[p],
                    comments |-> server.comments[p]])
  /\ Handling /\ UNCHANGED server

\* Mutant: an answer is taken whatever was asked for since.
CurrentUnlessFailed(i) == ~calls[i].args.canceled \/ ~Failed(i)

Current(i) == ~calls[i].args.canceled

\* Mutant: the notes on screen are kept, for whoever is typing.
LoadedKeepingNotes(q, r) ==
  [q EXCEPT !.part = r.part, !.loading = FALSE, !.comments = r.comments]

Loaded(q, r) ==
  [q EXCEPT !.part = r.part, !.loading = FALSE, !.notes = r.notes, !.saved = r.notes,
            !.comments = r.comments]

DetailAnswer == \E i \in DOMAIN calls :
  /\ IsAnswered(i, "detail")
  /\ LET r == calls[i].reply IN
     IF ~Current(i) THEN Take(i) /\ UNCHANGED page
     ELSE Render(CASE Failed(i)   -> [page EXCEPT !.part = Absent, !.loading = FALSE, !.notes = NoText,
                                                  !.saved = NoText, !.comments = <<>>]
                   [] ~Failed(i) /\ r.forbidden  -> [page EXCEPT !.loading = FALSE, !.forbidden = TRUE]
                   [] ~Failed(i) /\ ~r.forbidden -> Loaded(page, r), Others(i))
  /\ Answering

\* The files of the part are searched for, then everything is loaded again.
HandleRefreshFiles ==
  ~page.refreshing /\ AskFor([page EXCEPT !.refreshing = TRUE], Call("refresh", page.part))

RefreshFiles == \E i \in DOMAIN calls :
  IsAsked(i, "refresh") /\ Reply(i, TRUE) /\ Handling /\ UNCHANGED server

RefreshAnswer == \E i \in DOMAIN calls :
  /\ IsAnswered(i, "refresh")
  /\ LET q == [page EXCEPT !.refreshing = FALSE] IN
     Render(IF Failed(i) THEN q ELSE [q EXCEPT !.tick = ~@], Others(i))
  /\ Answering

\* The deleted part is left for the list of parts, whatever is shown by then.
HandleDeletePart == AskFor(page, Call("deletePart", page.part))

DeletePart == \E i \in DOMAIN calls :
  /\ IsAsked(i, "deletePart")
  /\ LET p == calls[i].args IN
     IF p \in server.there THEN Reply(i, TRUE) /\ server' = [server EXCEPT !.there = @ \ {p}]
     ELSE Reply(i, Failure) /\ UNCHANGED server
  /\ Handling

DeletedPart == \E i \in DOMAIN calls :
  /\ IsAnswered(i, "deletePart")
  /\ IF Failed(i) THEN UNCHANGED page /\ Take(i)
     ELSE Show([page EXCEPT !.at = "parts list"]) /\ calls' = <<>>
  /\ Answering

-------------------------------------------------------------------------------
(* Notes: the editor holds one text, and one save is out at a time.        *)

TypeNotes ==
  /\ Shown(page)
  /\ Look([page EXCEPT !.notes = [of |-> @.of \cup {page.part}, v |-> @.v + 1]])

SaveNotes ==
  /\ ~page.notesSaving /\ page.notes # page.saved
  /\ AskFor([page EXCEPT !.notesSaving = TRUE], Call("saveNotes", [part |-> page.part, notes |-> page.notes]))

ClearNotes ==
  /\ ~page.notesSaving /\ {page.notes, page.saved} # {NoText}
  /\ AskFor([page EXCEPT !.notesSaving = TRUE, !.notes = NoText],
          Call("saveNotes", [part |-> page.part, notes |-> NoText]))

StoreNotes == \E i \in DOMAIN calls :
  /\ IsAsked(i, "saveNotes")
  /\ server' = [server EXCEPT !.notes[calls[i].args.part] = calls[i].args.notes]
  /\ Reply(i, calls[i].args.notes)
  /\ Handling

\* The stored text replaces what is in the editor.
NotesAnswer == \E i \in DOMAIN calls :
  /\ IsAnswered(i, "saveNotes")
  /\ LET q == [page EXCEPT !.notesSaving = FALSE] IN
     Show(IF Failed(i) THEN q
          ELSE InDoubt([q EXCEPT !.notes = calls[i].reply, !.saved = calls[i].reply],
                       page.part # calls[i].args.part))
  /\ Take(i) /\ Answering

NotesPart == TypeNotes \/ SaveNotes \/ ClearNotes \/ StoreNotes \/ NotesAnswer

-------------------------------------------------------------------------------
(* Comments: one request is out at a time.                                 *)

CommentRequest(op, args) ==
  ~page.commentSaving /\ AskFor([page EXCEPT !.commentSaving = TRUE], Call(op, args))

AddComment    == CommentRequest("addComment", [part |-> page.part, comment |-> Absent])
\* A reply, another status or another priority: the comment is replaced.
ChangeComment == \E k \in DOMAIN page.comments :
  CommentRequest("changeComment", [part |-> page.part, comment |-> page.comments[k]])
DeleteComment == \E k \in DOMAIN page.comments :
  CommentRequest("deleteComment", [part |-> page.part, comment |-> page.comments[k]])

SameComment(c, d) == c.of = d.of /\ c.id = d.id
Replaced(s, d)    == [k \in DOMAIN s |-> IF SameComment(s[k], d) THEN d ELSE s[k]]

StoreComment == \E i \in DOMAIN calls :
  /\ \E op \in {"addComment", "changeComment", "deleteComment"} : IsAsked(i, op)
  /\ LET a == calls[i].args
         s == server.comments[a.part]
         new == [of |-> a.part, id |-> server.made + 1, v |-> 0]
         changed == [a.comment EXCEPT !.v = @ + 1]
         others == Picked(s, {k \in DOMAIN s : ~SameComment(s[k], a.comment)})
     IN CASE calls[i].op = "addComment" ->
               /\ server' = [server EXCEPT !.comments[a.part] = Append(s, new), !.made = @ + 1]
               /\ Reply(i, new)
          [] calls[i].op = "changeComment" ->
               IF others = s THEN Reply(i, Failure) /\ UNCHANGED server
               ELSE server' = [server EXCEPT !.comments[a.part] = Replaced(s, changed)] /\ Reply(i, changed)
          [] calls[i].op = "deleteComment" ->
               IF others = s THEN Reply(i, Failure) /\ UNCHANGED server
               ELSE server' = [server EXCEPT !.comments[a.part] = others] /\ Reply(i, others)
  /\ Handling

\* Mutant: a new comment replaces the list.
CommentsAfterAlone(i, s) == IF calls[i].op = "addComment" THEN <<calls[i].reply>> ELSE s

\* A new comment is appended, a changed one replaced; a deletion answers with the list.
CommentsAfter(i, s) ==
  CASE calls[i].op = "addComment"    -> Append(s, calls[i].reply)
    [] calls[i].op = "changeComment" -> Replaced(s, calls[i].reply)
    [] calls[i].op = "deleteComment" -> calls[i].reply

CommentAnswer == \E i \in DOMAIN calls :
  /\ \E op \in {"addComment", "changeComment", "deleteComment"} : IsAnswered(i, op)
  /\ LET q == [page EXCEPT !.commentSaving = FALSE] IN
     Show(IF Failed(i) THEN [q EXCEPT !.doubt = TRUE]
          ELSE InDoubt([q EXCEPT !.comments = CommentsAfter(i, @)], page.part # calls[i].args.part))
  /\ Take(i) /\ Answering

CommentsPart == AddComment \/ ChangeComment \/ DeleteComment \/ StoreComment \/ CommentAnswer

-------------------------------------------------------------------------------
(* Associated files, and the overview of all files of the part.            *)

HandleExtraUpload ==
  ~page.uploading /\ AskFor([page EXCEPT !.uploading = TRUE], Call("upload", [sel |-> Sel(page), file |-> 0, url |-> page.url]))

HandleExtraDelete == \E f \in page.overview.files :
  AskFor(page, Call("deleteFile", [sel |-> Sel(page), file |-> f, url |-> page.url]))

StoreFile == \E i \in DOMAIN calls :
  /\ IsAsked(i, "upload") \/ IsAsked(i, "deleteFile")
  /\ LET a == calls[i].args IN
     CASE calls[i].op = "upload" ->
            /\ server' = [server EXCEPT !.files[a.sel] = @ \cup {server.made + 1}, !.made = @ + 1]
            /\ Reply(i, TRUE)
       [] calls[i].op = "deleteFile" ->
            IF a.file \in server.files[a.sel]
            THEN server' = [server EXCEPT !.files[a.sel] = @ \ {a.file}] /\ Reply(i, TRUE)
            ELSE Reply(i, Failure) /\ UNCHANGED server
  /\ Handling

\* Mutant: only the associated files are read again.
AfterFileExtraOnly(a) == <<ExtraLoad(a.sel)>>

\* The handler reads both lists again, of the part it was created for; the
\* second when the first is there, which the order of the answers covers.
AfterFile(a) == <<ExtraLoad(a.sel), OverviewLoad(a.url)>>

FileAnswer == \E i \in DOMAIN calls :
  /\ IsAnswered(i, "upload") \/ IsAnswered(i, "deleteFile")
  /\ LET a == calls[i].args
         q == IF calls[i].op = "upload" THEN [page EXCEPT !.uploading = FALSE] ELSE page
     IN IF Failed(i) THEN Show([q EXCEPT !.doubt = TRUE]) /\ Take(i)
        ELSE /\ Show(InDoubt(q, Late(i, {"extra", "overview"}, a.sel # Sel(page))))
             /\ TakeAndSend(i, AfterFile(a))
  /\ Answering

ListFiles == \E i \in DOMAIN calls :
  /\ IsAsked(i, "extra") \/ IsAsked(i, "overview")
  /\ LET p == calls[i].args IN
     Reply(i, IF p \in server.hidden \/ p \notin server.there THEN Failure
              ELSE [of |-> p, files |-> server.files[p]])
  /\ Handling /\ UNCHANGED server

\* Neither asks which part is shown by now.
FilesAnswer == \E i \in DOMAIN calls :
  /\ IsAnswered(i, "extra") \/ IsAnswered(i, "overview")
  /\ LET late == Late(i, {calls[i].op}, calls[i].args # (IF calls[i].op = "extra" THEN Sel(page) ELSE page.url))
         rows == IF Failed(i) THEN [of |-> calls[i].args, files |-> {}] ELSE calls[i].reply
     IN Show(InDoubt(IF calls[i].op = "extra" THEN [page EXCEPT !.extra = rows]
                     ELSE [page EXCEPT !.overview = rows], late \/ Failed(i)))
  /\ Take(i) /\ Answering

FilesPart == HandleExtraUpload \/ HandleExtraDelete \/ StoreFile \/ FileAnswer \/ ListFiles \/ FilesAnswer

-------------------------------------------------------------------------------
(* Share links.  The address of a new one is shown once.                   *)

CreateShareLink ==
  ~page.sharing /\ AskFor([page EXCEPT !.sharing = TRUE], Call("share", [sel |-> Sel(page), share |-> 0]))

RevokeShareLink == \E s \in page.shareLinks :
  AskFor(page, Call("unshare", [sel |-> Sel(page), share |-> s.id]))

StoreShare == \E i \in DOMAIN calls :
  /\ IsAsked(i, "share") \/ IsAsked(i, "unshare")
  /\ LET a == calls[i].args
         new == [of |-> a.sel, id |-> server.made + 1]
     IN CASE calls[i].op = "share" ->
               /\ server' = [server EXCEPT !.shares[a.sel] = @ \cup {new}, !.made = @ + 1]
               /\ Reply(i, new)
          [] calls[i].op = "unshare" ->
               /\ server' = [server EXCEPT !.shares[a.sel] = {s \in @ : s.id # a.share}]
               /\ Reply(i, TRUE)
  /\ Handling

ShareAnswer == \E i \in DOMAIN calls :
  /\ IsAnswered(i, "share") \/ IsAnswered(i, "unshare")
  /\ LET q == IF calls[i].op = "share" THEN [page EXCEPT !.sharing = FALSE] ELSE page IN
     IF Failed(i) THEN Show([q EXCEPT !.doubt = TRUE]) /\ Take(i)
     ELSE /\ Show(InDoubt(IF calls[i].op = "share" THEN [q EXCEPT !.shareUrl = calls[i].reply] ELSE q,
                          Late(i, {"shares"}, calls[i].args.sel # Sel(page))))
          /\ TakeAndSend(i, <<LoadShareLinks(calls[i].args.sel)>>)
  /\ Answering

ListShares == \E i \in DOMAIN calls :
  IsAsked(i, "shares") /\ Reply(i, server.shares[calls[i].args]) /\ Handling /\ UNCHANGED server

SharesAnswer == \E i \in DOMAIN calls :
  /\ IsAnswered(i, "shares")
  /\ LET late == Late(i, {"shares"}, calls[i].args # Sel(page)) IN
     Show(InDoubt([page EXCEPT !.shareLinks = IF Failed(i) THEN {} ELSE calls[i].reply], late \/ Failed(i)))
  /\ Take(i) /\ Answering

SharesPart ==
  CreateShareLink \/ RevokeShareLink \/ StoreShare \/ ShareAnswer \/ ListShares \/ SharesAnswer

-------------------------------------------------------------------------------
(* Exports for Arena, of the BOM or of the links of files: one at a time,  *)
(* of the part shown when it was asked for.                                *)

DownloadArenaCsv(kind) ==
  /\ page.arenaBusy = Absent
  /\ AskFor([page EXCEPT !.arenaBusy = kind], Call("arena", [sel |-> Sel(page), kind |-> kind]))

ExportArena == \E i \in DOMAIN calls :
  /\ IsAsked(i, "arena")
  /\ Reply(i, IF calls[i].args.sel \in server.there \ server.hidden THEN TRUE ELSE Failure)
  /\ Handling /\ UNCHANGED server

\* Mutant: the page is told of success only.
ArenaFreeWhenDone(i) == IF Failed(i) THEN page.arenaBusy ELSE Absent

ArenaFree(i) == Absent

ArenaAnswer == \E i \in DOMAIN calls :
  /\ IsAnswered(i, "arena")
  /\ Show([page EXCEPT !.arenaBusy = ArenaFree(i)]) /\ Take(i) /\ Answering

ExportPart == (\E kind \in {"bom", "links"} : DownloadArenaCsv(kind)) \/ ExportArena \/ ArenaAnswer

PartNext ==
  /\ On("part")
  /\ \/ \E u \in Parts : Navigate(u)
     \/ ServeDetail \/ DetailAnswer
     \/ HandleRefreshFiles \/ RefreshFiles \/ RefreshAnswer
     \/ "notes" \in page.uses /\ NotesPart
     \/ "comments" \in page.uses /\ CommentsPart
     \/ "files" \in page.uses /\ FilesPart
     \/ "shares" \in page.uses /\ SharesPart
     \/ "export" \in page.uses /\ ExportPart
     \/ "delete" \in page.uses /\ (HandleDeletePart \/ DeletePart \/ DeletedPart)

-------------------------------------------------------------------------------

\* The part on screen is the one in the address, however fast one follows
\* links and whatever order the answers come in (PartDetailPage.tsx:650).
ShownPartIsTheRequested == On("part") /\ Shown(page) => page.part = page.url

\* No part is given the notes of another one, unless a save was answered
\* after its page had moved on (PartDetailPage.tsx:2224).
NotesStayWithTheirPart ==
  On("part") /\ ~page.doubt => \A p \in Parts : server.notes[p].of \subseteq {p}

\* A quiet page shows the comments of its part, each once, unless an answer
\* was late or failed, or a comment was on its way while the part was loaded
\* (PartDetailPage.tsx:2297).
CommentsAreTheParts ==
  On("part") /\ Shown(page) /\ calls = <<>> /\ ~page.doubt /\ page.part \in server.there =>
    page.comments = server.comments[page.part]

\* A quiet page shows the files and the share links of its part, and a new
\* link only beside its part, with the same exceptions
\* (PartDetailPage.tsx:1178, 1202, 1980).
FilesAndLinksAreTheParts ==
  On("part") /\ Shown(page) /\ calls = <<>> /\ ~page.doubt =>
    /\ "files" \in page.uses =>
         \A shown \in {page.extra, page.overview} : shown = [of |-> page.part, files |-> server.files[page.part]]
    /\ "shares" \in page.uses =>
         page.shareLinks = server.shares[page.part] /\ (page.shareUrl # Absent => page.shareUrl.of = page.part)
===============================================================================
