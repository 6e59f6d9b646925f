------------------------------- MODULE PartProofs ------------------------------
(***************************************************************************)
(* Proofs about PartPage: however fast links are followed and in whatever  *)
(* order the answers come, the part on screen is the one in the address,   *)
(* no part is given another one's notes, and a page on which no request is *)
(* out is not busy and shows the comments, files and share links of its    *)
(* part.                                                                   *)
(***************************************************************************)
EXTENDS FrontEnd, BrowserProofs

\* The page alone, opened on some part; any parts may be hidden.
PartInit == \E u \in Parts, hidden \in SUBSET Parts,
               uses \in SUBSET {"notes", "comments", "files", "shares", "export", "delete"} :
  /\ page = PartStart(u, uses)
  /\ calls = <<>>
  /\ server = PartServer(hidden)
  /\ left \in Nat

PartSpec == PartInit /\ [][PartNext \/ Lose]_vars

-------------------------------------------------------------------------------
(* The inductive invariant.                                                *)

PartFields ==
  {"at", "uses", "url", "tick", "part", "loading", "forbidden", "notes", "saved", "notesSaving",
   "comments", "commentSaving", "refreshing", "uploading", "extra", "overview", "shareLinks",
   "shareUrl", "sharing", "arenaBusy", "doubt"}

Arrived(c) == c.reply \notin {Absent, Failure}

\* Without a doubt the text in the editor was typed for the part it is beside.
PageOK(p) ==
  /\ DOMAIN p = PartFields /\ p.url \in Parts /\ p.doubt \in BOOLEAN /\ p.commentSaving \in BOOLEAN
  /\ Shown(p) => p.part = p.url
  /\ ~p.doubt => p.notes.of \subseteq {p.part}

\* A load that was not cancelled is of the part in the address, and what it
\* brings is that part.  A save carries notes of the part it names.
RequestOK(c, p) ==
  /\ DOMAIN c = CallFields
  /\ c.op = "detail" =>
       /\ DOMAIN c.args = {"part", "canceled"} /\ c.args.canceled \in BOOLEAN /\ c.args.part \in Parts
       /\ ~c.args.canceled => c.args.part = p.url
       /\ Arrived(c) => c.reply.part = c.args.part
       /\ Arrived(c) /\ ~p.doubt => c.reply.notes.of \subseteq {c.args.part}
  /\ c.op = "saveNotes" =>
       /\ ~p.doubt => c.args.notes.of \subseteq {c.args.part}
       /\ Arrived(c) => c.reply = c.args.notes

StoreOK(s, p) ==
  /\ DOMAIN s = {"there", "hidden", "notes", "comments", "files", "shares", "made"}
  /\ DOMAIN s.notes = Parts
  /\ ~p.doubt => \A u \in Parts : s.notes[u].of \subseteq {u}

IInv ==
  /\ PageOK(page) /\ StoreOK(server, page)
  /\ IsSequence(calls) /\ \A c \in Elems(calls) : RequestOK(c, page)

-------------------------------------------------------------------------------
(* What has to be shown of a step.                                         *)

\* Nothing but the flags, lists and messages that are not about the part.
Minor(q) ==
  /\ DOMAIN q = PartFields /\ q.url = page.url /\ q.part = page.part
  /\ q.loading = page.loading /\ q.forbidden = page.forbidden
  /\ q.commentSaving \in BOOLEAN /\ q.doubt \in BOOLEAN /\ (page.doubt => q.doubt)
  /\ q.notes \in {page.notes, NoText}

LEMMA MinorOK ==
  ASSUME IInv, NEW q, Minor(q)
  PROVE  /\ PageOK(q) /\ StoreOK(server, q)
         /\ \A c : RequestOK(c, page) => RequestOK(c, q)
  <1>1. PageOK(q)
    <2>1. ~q.doubt => q.notes.of \subseteq {q.part}
      BY DEF IInv, PageOK, Minor, NoText
    <2>2. q.url \in Parts /\ (Shown(q) => q.part = q.url)
      BY DEF IInv, PageOK, Minor, Shown
    <2> QED BY <2>1, <2>2 DEF PageOK, Minor
  <1>2. StoreOK(server, q)
    BY DEF IInv, StoreOK, Minor
  <1>3. \A c : RequestOK(c, page) => RequestOK(c, q)
    BY DEF RequestOK, Minor
  <1> QED BY <1>1, <1>2, <1>3

LEMMA Keeps ==
  ASSUME IInv, Minor(page'), UNCHANGED server, IsSequence(calls'),
         \A c \in Elems(calls') : c \in Elems(calls) \/ RequestOK(c, page)
  PROVE  IInv'
  <1> DEFINE q == page'
  <1>1. Minor(q)
    OBVIOUS
  <1> HIDE DEF q
  <1>2. PageOK(q) /\ StoreOK(server, q) /\ \A c : RequestOK(c, page) => RequestOK(c, q)
    BY <1>1, MinorOK
  <1>3. \A c \in Elems(calls') : RequestOK(c, q)
    BY <1>2 DEF IInv
  <1> QED BY <1>2, <1>3 DEF IInv, q

\* An answer is taken, and what follows from it, if anything, is sent.
LEMMA Takes ==
  ASSUME IInv, Minor(page'), UNCHANGED server, NEW i \in DOMAIN calls, Take(i)
  PROVE  IInv'
  <1>1. IsSequence(calls') /\ Elems(calls') \subseteq Elems(calls)
    BY Remaining DEF IInv, Take
  <1> QED BY <1>1, Keeps

LEMMA TakesAndSends ==
  ASSUME IInv, Minor(page'), UNCHANGED server, NEW i \in DOMAIN calls, NEW STATE cs, TakeAndSend(i, cs),
         IsSequence(cs), \A c \in Elems(cs) : RequestOK(c, page)
  PROVE  IInv'
  <1>1. IsSequence(Others(i)) /\ Elems(Others(i)) \subseteq Elems(calls)
    BY Remaining DEF IInv
  <1>2. IsSequence(calls') /\ Elems(calls') = Elems(Others(i)) \cup Elems(cs)
    BY <1>1, Joined DEF TakeAndSend
  <1> QED BY <1>1, <1>2, Keeps

\* The user asks the server for something.
LEMMA UserAsks ==
  ASSUME IInv, NEW STATE q, NEW STATE c, AskFor(q, c), Minor(q), RequestOK(c, page)
  PROVE  IInv'
  <1>1. page' = q /\ calls' = calls \o <<c>> /\ UNCHANGED server
    BY DEF AskFor, Show, Send
  <1>2. Minor(page')
    BY <1>1
  <1>3. IsSequence(calls') /\ Elems(calls') = Elems(calls) \cup {c}
    BY <1>1, Few, Joined DEF IInv
  <1> QED BY <1>1, <1>2, <1>3, Keeps

\* The server answers.
LEMMA Replies ==
  ASSUME IInv, NEW i \in DOMAIN calls, NEW STATE r, Reply(i, r), UNCHANGED page, StoreOK(server', page),
         calls[i].op = "detail" => r = Failure \/
            (r.part = calls[i].args.part /\ (~page.doubt => r.notes.of \subseteq {calls[i].args.part})),
         calls[i].op = "saveNotes" => r \in {Failure, calls[i].args.notes}
  PROVE  IInv'
  <1>1. RequestOK(calls[i], page) /\ DOMAIN calls[i] = CallFields
    BY DEF IInv, Elems, RequestOK
  <1>2. PICK c : /\ DOMAIN c = CallFields /\ c.op = calls[i].op /\ c.args = calls[i].args /\ c.reply = r
                 /\ IsSequence(calls') /\ Elems(calls') \subseteq Elems(calls) \cup {c}
    <2>1. IsSequence(calls)
      BY DEF IInv
    <2> QED BY <1>1, <2>1, Answered
  <1>3. RequestOK(c, page)
    BY <1>1, <1>2 DEF RequestOK, Arrived
  <1> QED BY <1>2, <1>3 DEF IInv

\* A request that is neither for the part nor for its notes.
LEMMA NewCall ==
  ASSUME NEW op, NEW args
  PROVE  /\ DOMAIN Call(op, args) = CallFields /\ Call(op, args).op = op
         /\ Call(op, args).args = args /\ Call(op, args).reply = Absent
  BY DEF Call, CallFields

LEMMA OtherCall ==
  ASSUME NEW op, NEW args, NEW p, op \notin {"detail", "saveNotes"}
  PROVE  RequestOK(Call(op, args), p)
  BY NewCall DEF RequestOK

-------------------------------------------------------------------------------
(* Rendering.                                                              *)

\* Loads of files, overview and share links, and of the part if it changed.
LEMMA Effects ==
  ASSUME NEW p, NEW q, q.url \in Parts
  PROVE  /\ IsSequence(PageEffects(p, q))
         /\ \A c \in Elems(PageEffects(p, q)) : RequestOK(c, q)
  <1> DEFINE Good(s) == IsSequence(s) /\ \A c \in Elems(s) : RequestOK(c, q)
             a == IF Reloads(p, q) THEN <<DetailLoad(q)>> ELSE <<>>
             b == IF "files" \in q.uses /\ (Reselects(p, q) \/ p.tick # q.tick) THEN <<ExtraLoad(Sel(q))>> ELSE <<>>
             c == IF "files" \in q.uses /\ Reloads(p, q) THEN <<OverviewLoad(q.url)>> ELSE <<>>
             d == IF "shares" \in q.uses /\ Reselects(p, q) THEN <<LoadShareLinks(Sel(q))>> ELSE <<>>
  <1>1. Good(<<>>) /\ \A r : RequestOK(r, q) => Good(<<r>>)
    BY Few
  <1>2. RequestOK(DetailLoad(q), q)
    <2> DEFINE args == [part |-> q.url, canceled |-> FALSE]
    <2>1. DOMAIN args = {"part", "canceled"} /\ args.canceled = FALSE /\ args.part = q.url
      OBVIOUS
    <2>2. DetailLoad(q) = Call("detail", args)
      BY DEF DetailLoad
    <2> HIDE DEF args
    <2> DEFINE load == DetailLoad(q)
    <2>3. DOMAIN load = CallFields /\ load.op = "detail" /\ load.args = args /\ load.reply = Absent
      BY <2>2, NewCall
    <2> HIDE DEF load
    <2>4. RequestOK(load, q)
      BY <2>1, <2>3 DEF RequestOK, Arrived
    <2> QED BY <2>4 DEF load
  <1>3. RequestOK(ExtraLoad(Sel(q)), q) /\ RequestOK(OverviewLoad(q.url), q) /\ RequestOK(LoadShareLinks(Sel(q)), q)
    BY OtherCall DEF ExtraLoad, OverviewLoad, LoadShareLinks
  <1>4. Good(a) /\ Good(b) /\ Good(c) /\ Good(d)
    BY <1>1, <1>2, <1>3
  <1>5. PageEffects(p, q) = a \o b \o c \o d
    BY DEF PageEffects
  <1> HIDE DEF a, b, c, d
  <1>6. ASSUME NEW s, NEW t, Good(s), Good(t) PROVE Good(s \o t)
    BY <1>6, Joined
  <1>7. Good(a \o b)
    BY <1>4, <1>6
  <1>8. Good(a \o b \o c)
    BY <1>4, <1>6, <1>7
  <1>9. Good(a \o b \o c \o d)
    BY <1>4, <1>6, <1>8
  <1> QED BY <1>5, <1>9

\* Cancelled requests are as good as they were, for any address.
LEMMA LoadsCanceled ==
  ASSUME NEW cs, IsSequence(cs), NEW p, NEW q, \A c \in Elems(cs) : RequestOK(c, p), p.doubt => q.doubt
  PROVE  IsSequence(Canceled(cs)) /\ \A c \in Elems(Canceled(cs)) : RequestOK(c, q)
  <1> DEFINE e(i) == IF cs[i].op = "detail" THEN [cs[i] EXCEPT !.args.canceled = TRUE] ELSE cs[i]
  <1>1. PICK S : cs \in Seq(S)
    BY DEF IsSequence
  <1>2. DOMAIN cs = 1 .. Len(cs) /\ Len(cs) \in Nat
    BY <1>1, LenProperties
  <1>3. Canceled(cs) = [i \in 1 .. Len(cs) |-> e(i)]
    BY <1>2 DEF Canceled
  <1>4. ASSUME NEW i \in 1 .. Len(cs) PROVE RequestOK(e(i), q)
    <2>1. RequestOK(cs[i], p)
      BY <1>2 DEF Elems
    <2>2. CASE cs[i].op # "detail"
      BY <2>1, <2>2 DEF RequestOK
    <2>3. CASE cs[i].op = "detail"
      <3>1. /\ DOMAIN e(i) = CallFields /\ e(i).op = "detail" /\ e(i).reply = cs[i].reply
            /\ e(i).args = [cs[i].args EXCEPT !.canceled = TRUE]
        BY <2>1, <2>3 DEF RequestOK, CallFields
      <3>2. DOMAIN e(i).args = {"part", "canceled"} /\ e(i).args.canceled = TRUE /\ e(i).args.part = cs[i].args.part
        BY <2>1, <2>3, <3>1 DEF RequestOK
      <3> HIDE DEF e
      <3> QED BY <2>1, <2>3, <3>1, <3>2 DEF RequestOK, Arrived
    <2> QED BY <2>2, <2>3
  <1> HIDE DEF e
  <1>5. Canceled(cs) \in Seq({e(i) : i \in 1 .. Len(cs)})
    BY <1>2, <1>3, IsASeq
  <1>6. DOMAIN Canceled(cs) = 1 .. Len(cs) /\ \A i \in 1 .. Len(cs) : Canceled(cs)[i] = e(i)
    BY <1>3
  <1> QED BY <1>4, <1>5, <1>6 DEF IsSequence, Elems

\* The page becomes q, at the same address or another one.
LEMMA Rendered ==
  ASSUME IInv, NEW STATE q, NEW STATE rest, Render(q, rest), UNCHANGED server,
         IsSequence(rest), Elems(rest) \subseteq Elems(calls),
         DOMAIN q = PartFields, q.url \in Parts, q.doubt \in BOOLEAN, q.commentSaving \in BOOLEAN,
         page.doubt => q.doubt, ~q.doubt => q.notes.of \subseteq {q.part},
         Reloads(page, q) \/ (Shown(q) => q.part = q.url)
  PROVE  IInv'
  <1> DEFINE r == IF Reselects(page, q) THEN [q EXCEPT !.shareUrl = Absent] ELSE q
             s == IF Reloads(page, q)
                  THEN [r EXCEPT !.loading = TRUE, !.forbidden = FALSE, !.doubt = @ \/ r.commentSaving]
                  ELSE r
             cs == IF Reloads(page, q) THEN Canceled(rest) ELSE rest
  <1>1. page' = s /\ calls' = cs \o PageEffects(page, q)
    BY DEF Render, Show
  <1>2. /\ DOMAIN r = PartFields /\ r.url = q.url /\ r.part = q.part /\ r.loading = q.loading
        /\ r.forbidden = q.forbidden /\ r.notes = q.notes /\ r.doubt = q.doubt
        /\ r.commentSaving = q.commentSaving
    BY DEF PartFields
  <1> HIDE DEF r
  <1>3. /\ DOMAIN s = PartFields /\ s.url = q.url /\ s.part = q.part /\ s.notes = q.notes
        /\ s.doubt \in BOOLEAN /\ (q.doubt => s.doubt) /\ s.commentSaving \in BOOLEAN
        /\ Shown(s) => ~Reloads(page, q) /\ Shown(q)
    BY <1>2 DEF PartFields, Shown
  <1> HIDE DEF s
  <1>4. PageOK(s)
    BY <1>3 DEF PageOK
  <1>5. StoreOK(server, s)
    BY <1>3 DEF IInv, StoreOK
  <1>6. IsSequence(cs) /\ \A c \in Elems(cs) : RequestOK(c, s)
    <2>1. \A c \in Elems(rest) : RequestOK(c, page)
      BY DEF IInv
    <2>2. CASE Reloads(page, q)
      BY <1>3, <2>1, <2>2, LoadsCanceled
    <2>3. CASE ~Reloads(page, q)
      <3>1. s.url = page.url
        BY <1>3, <2>3 DEF Reloads
      <3>2. \A c : RequestOK(c, page) => RequestOK(c, s)
        BY <1>3, <3>1 DEF RequestOK
      <3> QED BY <2>1, <2>3, <3>2
    <2> QED BY <2>2, <2>3
  <1>7. /\ IsSequence(PageEffects(page, q))
        /\ \A c \in Elems(PageEffects(page, q)) : RequestOK(c, s)
    <2>1. \A c : RequestOK(c, q) => RequestOK(c, s)
      BY <1>3 DEF RequestOK
    <2> QED BY <2>1, Effects
  <1> HIDE DEF cs
  <1>8. IsSequence(calls') /\ Elems(calls') = Elems(cs) \cup Elems(PageEffects(page, q))
    BY <1>1, <1>6, <1>7, Joined
  <1> QED BY <1>1, <1>4, <1>5, <1>6, <1>7, <1>8 DEF IInv

-------------------------------------------------------------------------------
(* The part.                                                               *)

LEMMA PageFacts ==
  ASSUME IInv
  PROVE  /\ DOMAIN page = PartFields /\ page.url \in Parts /\ page.doubt \in BOOLEAN
         /\ page.commentSaving \in BOOLEAN /\ (Shown(page) => page.part = page.url)
         /\ (~page.doubt => page.notes.of \subseteq {page.part})
         /\ IsSequence(calls) /\ StoreOK(server, page) /\ Minor(page)
         /\ DOMAIN server = {"there", "hidden", "notes", "comments", "files", "shares", "made"}
  BY DEF IInv, PageOK, StoreOK, Minor

\* The server keeps the notes as they are.
LEMMA OtherStore ==
  ASSUME IInv, DOMAIN server' = DOMAIN server, server'.notes = server.notes
  PROVE  StoreOK(server', page)
  BY DEF IInv, StoreOK

LEMMA NavigateStep ==
  ASSUME IInv, NEW u \in Parts, Navigate(u)
  PROVE  IInv'
  <1> DEFINE q == [page EXCEPT !.url = u]
  <1>1. Render(q, calls) /\ UNCHANGED server /\ u # page.url
    BY DEF Navigate, Look
  <1>2. /\ DOMAIN q = PartFields /\ q.url = u /\ q.doubt = page.doubt /\ q.commentSaving = page.commentSaving
        /\ q.notes = page.notes /\ q.part = page.part
    BY PageFacts DEF PartFields
  <1> HIDE DEF q
  <1>3. Reloads(page, q)
    BY <1>1, <1>2 DEF Reloads
  <1> QED BY <1>1, <1>2, <1>3, PageFacts, Rendered

LEMMA ServeDetailStep ==
  ASSUME IInv, ServeDetail
  PROVE  IInv'
  <1>1. PICK i \in DOMAIN calls : \E r :
          /\ calls[i].op = "detail" /\ Reply(i, r) /\ UNCHANGED <<page, server>>
          /\ \/ r = Failure
             \/ r.part = calls[i].args.part /\ r.notes = server.notes[calls[i].args.part]
    <2>1. PICK i \in DOMAIN calls :
            /\ calls[i].op = "detail" /\ UNCHANGED <<page, server>>
            /\ Reply(i, IF calls[i].args.part \notin server.there THEN Failure
                        ELSE [part |-> calls[i].args.part, forbidden |-> calls[i].args.part \in server.hidden,
                              notes |-> server.notes[calls[i].args.part],
                              comments |-> server.comments[calls[i].args.part]])
      BY DEF ServeDetail, IsAsked, Handling
    <2>2. CASE calls[i].args.part \notin server.there
      BY <2>1, <2>2
    <2>3. CASE calls[i].args.part \in server.there
      <3> DEFINE r == [part |-> calls[i].args.part, forbidden |-> calls[i].args.part \in server.hidden,
                       notes |-> server.notes[calls[i].args.part],
                       comments |-> server.comments[calls[i].args.part]]
      <3>1. r.part = calls[i].args.part /\ r.notes = server.notes[calls[i].args.part]
        OBVIOUS
      <3>2. Reply(i, r)
        BY <2>1, <2>3
      <3> HIDE DEF r
      <3> QED BY <2>1, <3>1, <3>2
    <2> QED BY <2>2, <2>3
  <1>2. PICK r :
          /\ Reply(i, r)
          /\ \/ r = Failure
             \/ r.part = calls[i].args.part /\ r.notes = server.notes[calls[i].args.part]
    BY <1>1
  <1>3. calls[i].args.part \in Parts
    BY <1>1 DEF IInv, RequestOK, Elems
  <1>4. StoreOK(server', page) /\ (~page.doubt => server.notes[calls[i].args.part].of \subseteq {calls[i].args.part})
    BY <1>1, <1>3 DEF IInv, StoreOK
  <1> QED BY <1>1, <1>2, <1>4, Replies

LEMMA DetailAnswerStep ==
  ASSUME IInv, DetailAnswer
  PROVE  IInv'
  <1> DEFINE Gone == [page EXCEPT !.part = Absent, !.loading = FALSE, !.notes = NoText,
                                  !.saved = NoText, !.comments = <<>>]
             Denied == [page EXCEPT !.loading = FALSE, !.forbidden = TRUE]
  <1>1. PICK i \in DOMAIN calls :
          /\ IsAnswered(i, "detail") /\ UNCHANGED server
          /\ \/ Take(i) /\ UNCHANGED page
             \/ /\ ~calls[i].args.canceled
                /\ \E q : /\ Render(q, Others(i))
                          /\ \/ q = Gone \/ q = Denied
                             \/ ~Failed(i) /\ q = Loaded(page, calls[i].reply)
    <2>1. PICK i \in DOMAIN calls :
            /\ IsAnswered(i, "detail") /\ UNCHANGED server
            /\ LET r == calls[i].reply IN
               IF ~Current(i) THEN Take(i) /\ UNCHANGED page
               ELSE Render(CASE Failed(i)   -> Gone
                             [] ~Failed(i) /\ r.forbidden  -> Denied
                             [] ~Failed(i) /\ ~r.forbidden -> Loaded(page, r), Others(i))
      BY DEF DetailAnswer, Answering
    <2> HIDE DEF Gone, Denied
    <2>2. CASE ~Current(i)
      BY <2>1, <2>2
    <2>3. CASE Current(i)
      <3> DEFINE q == CASE Failed(i) -> Gone
                        [] ~Failed(i) /\ calls[i].reply.forbidden  -> Denied
                        [] ~Failed(i) /\ ~calls[i].reply.forbidden -> Loaded(page, calls[i].reply)
      <3>1. Render(q, Others(i))
        BY <2>1, <2>3
      <3>2. q = Gone \/ q = Denied \/ (~Failed(i) /\ q = Loaded(page, calls[i].reply))
        OBVIOUS
      <3> HIDE DEF q
      <3> QED BY <2>1, <2>3, <3>1, <3>2 DEF Current
    <2> QED BY <2>2, <2>3
  <1>2. IsSequence(Others(i)) /\ Elems(Others(i)) \subseteq Elems(calls) /\ calls[i] \in Elems(calls)
    BY Remaining DEF IInv
  <1>3. RequestOK(calls[i], page) /\ calls[i].op = "detail" /\ calls[i].reply # Absent
    BY <1>1, <1>2 DEF IInv, IsAnswered
  <1>4. CASE Take(i) /\ UNCHANGED page
    <2>1. Minor(page')
      BY <1>4, PageFacts
    <2> QED BY <1>1, <1>4, <2>1, Takes
  <1>5. ASSUME ~calls[i].args.canceled, NEW q, Render(q, Others(i)),
               q = Gone \/ q = Denied \/ (~Failed(i) /\ q = Loaded(page, calls[i].reply))
        PROVE  IInv'
    <2>1. CASE q = Gone
      <3>1. /\ DOMAIN q = PartFields /\ q.url = page.url /\ q.doubt = page.doubt
            /\ q.commentSaving = page.commentSaving /\ q.part = Absent /\ q.notes = NoText
        BY <2>1, PageFacts DEF PartFields
      <3> HIDE DEF Gone
      <3>2. ~Shown(q) /\ q.notes.of = {}
        BY <3>1 DEF Shown, NoText
      <3> QED BY <1>1, <1>2, <1>5, <3>1, <3>2, PageFacts, Rendered
    <2>2. CASE q = Denied
      <3>1. /\ DOMAIN q = PartFields /\ q.url = page.url /\ q.doubt = page.doubt /\ q.forbidden = TRUE
            /\ q.commentSaving = page.commentSaving /\ q.part = page.part /\ q.notes = page.notes
        BY <2>2, PageFacts DEF PartFields
      <3> HIDE DEF Denied
      <3>2. ~Shown(q)
        BY <3>1 DEF Shown
      <3> QED BY <1>1, <1>2, <1>5, <3>1, <3>2, PageFacts, Rendered
    <2>3. CASE ~Failed(i) /\ q = Loaded(page, calls[i].reply)
      <3>1. /\ calls[i].reply.part = page.url
            /\ ~page.doubt => calls[i].reply.notes.of \subseteq {page.url}
        BY <1>3, <1>5, <2>3 DEF RequestOK, Arrived, Failed
      <3>2. /\ DOMAIN q = PartFields /\ q.url = page.url /\ q.doubt = page.doubt
            /\ q.commentSaving = page.commentSaving
            /\ q.part = calls[i].reply.part /\ q.notes = calls[i].reply.notes
        BY <2>3, PageFacts DEF Loaded, PartFields
      <3> QED BY <1>1, <1>2, <1>5, <3>1, <3>2, PageFacts, Rendered
    <2> QED BY <1>5, <2>1, <2>2, <2>3
  <1> HIDE DEF Gone, Denied
  <1> QED BY <1>1, <1>4, <1>5

LEMMA RefreshStep ==
  ASSUME IInv, HandleRefreshFiles \/ RefreshFiles \/ RefreshAnswer
  PROVE  IInv'
  <1>1. ASSUME HandleRefreshFiles PROVE IInv'
    <2> DEFINE q == [page EXCEPT !.refreshing = TRUE]
    <2>1. AskFor(q, Call("refresh", page.part))
      BY <1>1 DEF HandleRefreshFiles
    <2>2. Minor(q)
      BY PageFacts DEF Minor, PartFields
    <2> HIDE DEF q
    <2> QED BY <2>1, <2>2, OtherCall, UserAsks
  <1>2. ASSUME RefreshFiles PROVE IInv'
    <2>1. PICK i \in DOMAIN calls : calls[i].op = "refresh" /\ Reply(i, TRUE) /\ UNCHANGED <<page, server>>
      BY <1>2 DEF RefreshFiles, IsAsked, Handling
    <2>2. StoreOK(server', page)
      BY <2>1, PageFacts
    <2> QED BY <2>1, <2>2, Replies
  <1>3. ASSUME RefreshAnswer PROVE IInv'
    <2> DEFINE f == [page EXCEPT !.refreshing = FALSE]
    <2>1. PICK i \in DOMAIN calls :
            /\ Render(IF Failed(i) THEN f ELSE [f EXCEPT !.tick = ~@], Others(i))
            /\ UNCHANGED server
      BY <1>3 DEF RefreshAnswer, Answering
    <2> DEFINE q == IF Failed(i) THEN f ELSE [f EXCEPT !.tick = ~@]
    <2>2. /\ DOMAIN q = PartFields /\ q.url = page.url /\ q.doubt = page.doubt /\ q.part = page.part
          /\ q.commentSaving = page.commentSaving /\ q.notes = page.notes
          /\ q.loading = page.loading /\ q.forbidden = page.forbidden
      BY PageFacts DEF PartFields
    <2>3. Render(q, Others(i))
      BY <2>1
    <2> HIDE DEF q
    <2>4. Shown(q) => q.part = q.url
      BY <2>2, PageFacts DEF Shown
    <2>5. IsSequence(Others(i)) /\ Elems(Others(i)) \subseteq Elems(calls)
      BY Remaining DEF IInv
    <2> QED BY <2>1, <2>2, <2>3, <2>4, <2>5, PageFacts, Rendered
  <1> QED BY <1>1, <1>2, <1>3

\* The list of parts takes the page's place, and its requests are nobody's.
LEMMA DeleteStep ==
  ASSUME IInv, HandleDeletePart \/ DeletePart \/ DeletedPart
  PROVE  IInv'
  <1>1. ASSUME HandleDeletePart PROVE IInv'
    BY <1>1, PageFacts, OtherCall, UserAsks DEF HandleDeletePart
  <1>2. ASSUME DeletePart PROVE IInv'
    <2>1. PICK i \in DOMAIN calls : \E r \in {TRUE, Failure} :
            /\ calls[i].op = "deletePart" /\ Reply(i, r) /\ UNCHANGED page
            /\ UNCHANGED server \/ server' = [server EXCEPT !.there = @ \ {calls[i].args}]
      BY <1>2 DEF DeletePart, IsAsked, Handling
    <2>2. DOMAIN server' = DOMAIN server /\ server'.notes = server.notes
      BY <2>1, PageFacts
    <2> QED BY <2>1, <2>2, OtherStore, Replies
  <1>3. ASSUME DeletedPart PROVE IInv'
    <2>1. PICK i \in DOMAIN calls :
            /\ IF Failed(i) THEN UNCHANGED page /\ Take(i)
               ELSE page' = [page EXCEPT !.at = "parts list"] /\ calls' = <<>>
            /\ UNCHANGED server
      BY <1>3 DEF DeletedPart, Answering, Show
    <2>2. Minor(page')
      BY <2>1, PageFacts DEF Minor, PartFields
    <2>3. CASE Failed(i)
      BY <2>1, <2>2, <2>3, Takes
    <2>4. CASE ~Failed(i)
      <3>1. IsSequence(calls') /\ Elems(calls') = {}
        BY <2>1, <2>4, Few
      <3> QED BY <2>1, <2>2, <3>1, Keeps
    <2> QED BY <2>3, <2>4
  <1> QED BY <1>1, <1>2, <1>3

-------------------------------------------------------------------------------
(* Notes.                                                                  *)

LEMMA SaveOK ==
  ASSUME NEW part, NEW notes, ~page.doubt => notes.of \subseteq {part}
  PROVE  RequestOK(Call("saveNotes", [part |-> part, notes |-> notes]), page)
  <1> DEFINE args == [part |-> part, notes |-> notes]
  <1>1. args.part = part /\ args.notes = notes
    OBVIOUS
  <1> HIDE DEF args
  <1> DEFINE c == Call("saveNotes", args)
  <1>2. DOMAIN c = CallFields /\ c.op = "saveNotes" /\ c.args = args /\ c.reply = Absent
    BY NewCall
  <1> HIDE DEF c
  <1>3. RequestOK(c, page)
    BY <1>1, <1>2 DEF RequestOK, Arrived
  <1> QED BY <1>3 DEF c, args

LEMMA NotesStep ==
  ASSUME IInv, NotesPart
  PROVE  IInv'
  <1>1. ASSUME TypeNotes PROVE IInv'
    <2> DEFINE n == [of |-> page.notes.of \cup {page.part}, v |-> page.notes.v + 1]
               q == [page EXCEPT !.notes = n]
    <2>1. n.of = page.notes.of \cup {page.part}
      OBVIOUS
    <2>2. Render(q, calls) /\ UNCHANGED server
      BY <1>1, PageFacts DEF TypeNotes, Look, PartFields
    <2> HIDE DEF n
    <2>3. /\ DOMAIN q = PartFields /\ q.url = page.url /\ q.doubt = page.doubt /\ q.part = page.part
          /\ q.commentSaving = page.commentSaving /\ q.notes = n
          /\ q.loading = page.loading /\ q.forbidden = page.forbidden
      BY PageFacts DEF PartFields
    <2> HIDE DEF q
    <2>4. (Shown(q) => q.part = q.url) /\ (~q.doubt => q.notes.of \subseteq {q.part})
      BY <2>1, <2>3, PageFacts DEF Shown
    <2> QED BY <2>2, <2>3, <2>4, PageFacts, Rendered
  <1>2. ASSUME SaveNotes PROVE IInv'
    <2> DEFINE q == [page EXCEPT !.notesSaving = TRUE]
    <2>1. AskFor(q, Call("saveNotes", [part |-> page.part, notes |-> page.notes]))
      BY <1>2 DEF SaveNotes
    <2>2. Minor(q)
      BY PageFacts DEF Minor, PartFields
    <2> HIDE DEF q
    <2>3. RequestOK(Call("saveNotes", [part |-> page.part, notes |-> page.notes]), page)
      BY PageFacts, SaveOK
    <2> QED BY <2>1, <2>2, <2>3, UserAsks
  <1>3. ASSUME ClearNotes PROVE IInv'
    <2> DEFINE q == [page EXCEPT !.notesSaving = TRUE, !.notes = NoText]
    <2>1. AskFor(q, Call("saveNotes", [part |-> page.part, notes |-> NoText]))
      BY <1>3 DEF ClearNotes
    <2>2. Minor(q)
      BY PageFacts DEF Minor, PartFields
    <2> HIDE DEF q
    <2>3. NoText.of = {}
      BY DEF NoText
    <2>4. RequestOK(Call("saveNotes", [part |-> page.part, notes |-> NoText]), page)
      BY <2>3, SaveOK
    <2> QED BY <2>1, <2>2, <2>4, UserAsks
  <1>4. ASSUME StoreNotes PROVE IInv'
    <2>1. PICK i \in DOMAIN calls :
            /\ calls[i].op = "saveNotes" /\ Reply(i, calls[i].args.notes) /\ UNCHANGED page
            /\ server' = [server EXCEPT !.notes[calls[i].args.part] = calls[i].args.notes]
      BY <1>4 DEF StoreNotes, IsAsked, Handling
    <2>2. ~page.doubt => calls[i].args.notes.of \subseteq {calls[i].args.part}
      BY <2>1 DEF IInv, RequestOK, Elems
    <2> DEFINE part == calls[i].args.part
               notes == calls[i].args.notes
    <2>3. /\ DOMAIN server' = DOMAIN server
          /\ server'.notes = [server.notes EXCEPT ![part] = notes]
      BY <2>1, PageFacts
    <2>4. StoreOK(server', page)
      <3> HIDE DEF part, notes
      <3>1. ~page.doubt => notes.of \subseteq {part}
        BY <2>2 DEF part, notes
      <3> QED BY <2>3, <3>1 DEF IInv, StoreOK
    <2> QED BY <2>1, <2>4, Replies
  <1>5. ASSUME NotesAnswer PROVE IInv'
    <2> DEFINE f == [page EXCEPT !.notesSaving = FALSE]
    <2>1. PICK i \in DOMAIN calls :
            /\ IsAnswered(i, "saveNotes") /\ Take(i) /\ UNCHANGED server
            /\ page' = IF Failed(i) THEN f
                       ELSE InDoubt([f EXCEPT !.notes = calls[i].reply, !.saved = calls[i].reply],
                                    page.part # calls[i].args.part)
      BY <1>5 DEF NotesAnswer, Show, Answering
    <2>2. CASE Failed(i)
      <3>1. Minor(f)
        BY PageFacts DEF Minor, PartFields
      <3> HIDE DEF f
      <3> QED BY <2>1, <2>2, <3>1, Takes
    <2>3. CASE ~Failed(i)
      <3>1. IsSequence(calls') /\ Elems(calls') \subseteq Elems(calls) /\ calls[i] \in Elems(calls)
        BY <2>1, Remaining DEF IInv, Take
      <3>2. /\ calls[i].reply = calls[i].args.notes
            /\ ~page.doubt => calls[i].args.notes.of \subseteq {calls[i].args.part}
        BY <2>1, <2>3, <3>1 DEF IInv, RequestOK, Arrived, IsAnswered, Failed
      <3> DEFINE q == InDoubt([f EXCEPT !.notes = calls[i].reply, !.saved = calls[i].reply],
                              page.part # calls[i].args.part)
      <3>3. /\ DOMAIN q = PartFields /\ q.url = page.url /\ q.part = page.part
            /\ q.commentSaving = page.commentSaving /\ q.notes = calls[i].reply
            /\ q.loading = page.loading /\ q.forbidden = page.forbidden
            /\ q.doubt = (page.doubt \/ page.part # calls[i].args.part)
        BY PageFacts DEF InDoubt, PartFields
      <3>4. page' = q
        BY <2>1, <2>3
      <3> HIDE DEF q, f
      <3>5. q.doubt \in BOOLEAN /\ (~q.doubt => ~page.doubt /\ page.part = calls[i].args.part)
        BY <3>3, PageFacts
      <3>6. PageOK(q)
        BY <3>2, <3>3, <3>5, PageFacts DEF PageOK, Shown
      <3>7. StoreOK(server, q) /\ \A c : RequestOK(c, page) => RequestOK(c, q)
        BY <3>3, <3>5, PageFacts DEF StoreOK, RequestOK
      <3> QED BY <2>1, <3>1, <3>4, <3>6, <3>7 DEF IInv
    <2> QED BY <2>2, <2>3
  <1> QED BY <1>1, <1>2, <1>3, <1>4, <1>5 DEF NotesPart

-------------------------------------------------------------------------------
(* Comments, files, share links and exports leave the notes alone.         *)

\* Some other flags, lists and messages of the page.
LEMMA InDoubtMinor ==
  ASSUME NEW q, Minor(q), NEW late \in BOOLEAN
  PROVE  Minor(InDoubt(q, late))
  BY DEF Minor, InDoubt, PartFields

LEMMA CommentsStep ==
  ASSUME IInv, CommentsPart
  PROVE  IInv'
  <1>1. ASSUME NEW op, NEW args, CommentRequest(op, args), op \notin {"detail", "saveNotes"} PROVE IInv'
    <2> DEFINE q == [page EXCEPT !.commentSaving = TRUE]
    <2>1. AskFor(q, Call(op, args))
      BY <1>1 DEF CommentRequest
    <2>2. Minor(q)
      BY PageFacts DEF Minor, PartFields
    <2> HIDE DEF q
    <2> QED BY <1>1, <2>1, <2>2, OtherCall, UserAsks
  <1>2. ASSUME AddComment \/ ChangeComment \/ DeleteComment PROVE IInv'
    <2>1. \E op \in {"addComment", "changeComment", "deleteComment"} : \E args : CommentRequest(op, args)
      BY <1>2, Zenon DEF AddComment, ChangeComment, DeleteComment
    <2> QED BY <1>1, <2>1
  <1>3. ASSUME StoreComment PROVE IInv'
    <2>1. PICK i \in DOMAIN calls : \E r :
            /\ calls[i].op \in {"addComment", "changeComment", "deleteComment"}
            /\ Reply(i, r) /\ UNCHANGED page
            /\ DOMAIN server' = DOMAIN server /\ server'.notes = server.notes
      <3>1. PICK i \in DOMAIN calls :
              /\ calls[i].op \in {"addComment", "changeComment", "deleteComment"} /\ UNCHANGED page
              /\ LET a == calls[i].args
                     s == server.comments[a.part]
                     new == [of |-> a.part, id |-> server.made + 1, v |-> 0]
                     changed == [a.comment EXCEPT !.v = @ + 1]
                     others == Picked(s, {k \in DOMAIN s : ~SameComment(s[k], a.comment)})
                 IN CASE calls[i].op = "addComment" ->
                           /\ server' = [server EXCEPT !.comments[a.part] = Append(s, new), !.made = @ + 1]
                           /\ Reply(i, new)
                      [] calls[i].op = "changeComment" ->
                           IF others = s THEN Reply(i, Failure) /\ UNCHANGED server
                           ELSE /\ server' = [server EXCEPT !.comments[a.part] = Replaced(s, changed)]
                                /\ Reply(i, changed)
                      [] calls[i].op = "deleteComment" ->
                           IF others = s THEN Reply(i, Failure) /\ UNCHANGED server
                           ELSE server' = [server EXCEPT !.comments[a.part] = others] /\ Reply(i, others)
        BY <1>3 DEF StoreComment, IsAsked, Handling
      <3> DEFINE a == calls[i].args
                 s == server.comments[a.part]
                 new == [of |-> a.part, id |-> server.made + 1, v |-> 0]
                 changed == [a.comment EXCEPT !.v = @ + 1]
                 others == Picked(s, {k \in DOMAIN s : ~SameComment(s[k], a.comment)})
      <3> DEFINE Kept == DOMAIN server' = DOMAIN server /\ server'.notes = server.notes
      <3> HIDE DEF new, changed, others, s
      <3>2. CASE calls[i].op = "addComment"
        <4>1. server' = [server EXCEPT !.comments[a.part] = Append(s, new), !.made = @ + 1] /\ Reply(i, new)
          BY <3>1, <3>2 DEF new, s
        <4>2. Kept
          BY <4>1, PageFacts
        <4> QED BY <3>1, <4>1, <4>2
      <3>3. CASE calls[i].op = "changeComment"
        <4>1. \/ Reply(i, Failure) /\ UNCHANGED server
              \/ server' = [server EXCEPT !.comments[a.part] = Replaced(s, changed)] /\ Reply(i, changed)
          BY <3>1, <3>3 DEF changed, others, s
        <4>2. Kept
          BY <4>1, PageFacts
        <4> QED BY <3>1, <4>1, <4>2
      <3>4. CASE calls[i].op = "deleteComment"
        <4>1. \/ Reply(i, Failure) /\ UNCHANGED server
              \/ server' = [server EXCEPT !.comments[a.part] = others] /\ Reply(i, others)
          BY <3>1, <3>4 DEF others, s
        <4>2. Kept
          BY <4>1, PageFacts
        <4> QED BY <3>1, <4>1, <4>2
      <3> QED BY <3>1, <3>2, <3>3, <3>4
    <2>2. StoreOK(server', page)
      BY <2>1, OtherStore
    <2> QED BY <2>1, <2>2, Replies
  <1>4. ASSUME CommentAnswer PROVE IInv'
    <2> DEFINE f == [page EXCEPT !.commentSaving = FALSE]
    <2>1. PICK i \in DOMAIN calls :
            /\ Take(i) /\ UNCHANGED server
            /\ page' = IF Failed(i) THEN [f EXCEPT !.doubt = TRUE]
                       ELSE InDoubt([f EXCEPT !.comments = CommentsAfter(i, @)],
                                    page.part # calls[i].args.part)
      BY <1>4 DEF CommentAnswer, Show, Answering
    <2>2. Minor([f EXCEPT !.doubt = TRUE]) /\ Minor([f EXCEPT !.comments = CommentsAfter(i, @)])
      BY PageFacts DEF Minor, PartFields
    <2> HIDE DEF f
    <2>3. Minor(page')
      BY <2>1, <2>2, InDoubtMinor
    <2> QED BY <2>1, <2>3, Takes
  <1> QED BY <1>2, <1>3, <1>4 DEF CommentsPart

LEMMA FilesStep ==
  ASSUME IInv, FilesPart
  PROVE  IInv'
  <1>1. ASSUME HandleExtraUpload PROVE IInv'
    <2> DEFINE q == [page EXCEPT !.uploading = TRUE]
    <2>1. AskFor(q, Call("upload", [sel |-> Sel(page), file |-> 0, url |-> page.url]))
      BY <1>1 DEF HandleExtraUpload
    <2>2. Minor(q)
      BY PageFacts DEF Minor, PartFields
    <2> HIDE DEF q
    <2> QED BY <2>1, <2>2, OtherCall, UserAsks
  <1>2. ASSUME HandleExtraDelete PROVE IInv'
    <2>1. PICK f : AskFor(page, Call("deleteFile", [sel |-> Sel(page), file |-> f, url |-> page.url]))
      BY <1>2 DEF HandleExtraDelete
    <2> QED BY <2>1, PageFacts, OtherCall, UserAsks
  <1>3. ASSUME StoreFile PROVE IInv'
    <2>1. PICK i \in DOMAIN calls : \E r \in {TRUE, Failure} :
            /\ calls[i].op \in {"upload", "deleteFile"} /\ Reply(i, r) /\ UNCHANGED page
            /\ \/ UNCHANGED server
               \/ server' = [server EXCEPT !.files[calls[i].args.sel] = @ \cup {server.made + 1}, !.made = @ + 1]
               \/ server' = [server EXCEPT !.files[calls[i].args.sel] = @ \ {calls[i].args.file}]
      BY <1>3 DEF StoreFile, IsAsked, Handling
    <2>2. DOMAIN server' = DOMAIN server /\ server'.notes = server.notes
      BY <2>1, PageFacts
    <2> QED BY <2>1, <2>2, OtherStore, Replies
  <1>4. ASSUME FileAnswer PROVE IInv'
    <2> DEFINE q(i) == IF calls[i].op = "upload" THEN [page EXCEPT !.uploading = FALSE] ELSE page
    <2>1. PICK i \in DOMAIN calls :
            /\ UNCHANGED server
            /\ \/ page' = [q(i) EXCEPT !.doubt = TRUE] /\ Take(i)
               \/ /\ page' = InDoubt(q(i), Late(i, {"extra", "overview"}, calls[i].args.sel # Sel(page)))
                  /\ TakeAndSend(i, AfterFile(calls[i].args))
      BY <1>4 DEF FileAnswer, Show, Answering
    <2>2. Minor(q(i)) /\ Minor([q(i) EXCEPT !.doubt = TRUE])
      BY PageFacts DEF Minor, PartFields
    <2> HIDE DEF q
    <2>3. Minor(page')
      BY <2>1, <2>2, InDoubtMinor DEF Late
    <2>4. /\ IsSequence(AfterFile(calls[i].args))
          /\ \A c \in Elems(AfterFile(calls[i].args)) : RequestOK(c, page)
      BY Few, OtherCall DEF AfterFile, ExtraLoad, OverviewLoad
    <2> QED BY <2>1, <2>3, <2>4, Takes, TakesAndSends
  <1>5. ASSUME ListFiles PROVE IInv'
    <2>1. PICK i \in DOMAIN calls : \E r :
            calls[i].op \in {"extra", "overview"} /\ Reply(i, r) /\ UNCHANGED <<page, server>>
      BY <1>5 DEF ListFiles, IsAsked, Handling
    <2>2. StoreOK(server', page)
      BY <2>1, PageFacts
    <2> QED BY <2>1, <2>2, Replies
  <1>6. ASSUME FilesAnswer PROVE IInv'
    <2>1. PICK i \in DOMAIN calls : \E late \in BOOLEAN : \E rows :
            /\ page' \in {InDoubt([page EXCEPT !.extra = rows], late), InDoubt([page EXCEPT !.overview = rows], late)}
            /\ Take(i) /\ UNCHANGED server
      <3>1. PICK i \in DOMAIN calls :
              LET late == Late(i, {calls[i].op},
                               calls[i].args # (IF calls[i].op = "extra" THEN Sel(page) ELSE page.url))
                  rows == IF Failed(i) THEN [of |-> calls[i].args, files |-> {}] ELSE calls[i].reply
              IN /\ page' = InDoubt(IF calls[i].op = "extra" THEN [page EXCEPT !.extra = rows]
                                    ELSE [page EXCEPT !.overview = rows], late \/ Failed(i))
                 /\ Take(i) /\ UNCHANGED server
        BY <1>6 DEF FilesAnswer, Show, Answering
      <3> DEFINE late == Late(i, {calls[i].op},
                              calls[i].args # (IF calls[i].op = "extra" THEN Sel(page) ELSE page.url)) \/ Failed(i)
                 rows == IF Failed(i) THEN [of |-> calls[i].args, files |-> {}] ELSE calls[i].reply
      <3>2. late \in BOOLEAN
        BY DEF Late
      <3>3. page' = InDoubt(IF calls[i].op = "extra" THEN [page EXCEPT !.extra = rows]
                            ELSE [page EXCEPT !.overview = rows], late)
        BY <3>1
      <3>4. Take(i) /\ UNCHANGED server
        BY <3>1
      <3> HIDE DEF late, rows
      <3>5. page' \in {InDoubt([page EXCEPT !.extra = rows], late), InDoubt([page EXCEPT !.overview = rows], late)}
        BY <3>3
      <3> QED BY <3>2, <3>4, <3>5
    <2>2. \A rows : Minor([page EXCEPT !.extra = rows]) /\ Minor([page EXCEPT !.overview = rows])
      BY PageFacts DEF Minor, PartFields
    <2>3. Minor(page')
      BY <2>1, <2>2, InDoubtMinor
    <2> QED BY <2>1, <2>3, Takes
  <1> QED BY <1>1, <1>2, <1>3, <1>4, <1>5, <1>6 DEF FilesPart

LEMMA SharesStep ==
  ASSUME IInv, SharesPart
  PROVE  IInv'
  <1>1. ASSUME CreateShareLink PROVE IInv'
    <2> DEFINE q == [page EXCEPT !.sharing = TRUE]
    <2>1. AskFor(q, Call("share", [sel |-> Sel(page), share |-> 0]))
      BY <1>1 DEF CreateShareLink
    <2>2. Minor(q)
      BY PageFacts DEF Minor, PartFields
    <2> HIDE DEF q
    <2> QED BY <2>1, <2>2, OtherCall, UserAsks
  <1>2. ASSUME RevokeShareLink PROVE IInv'
    <2>1. PICK s : AskFor(page, Call("unshare", [sel |-> Sel(page), share |-> s.id]))
      BY <1>2 DEF RevokeShareLink
    <2> QED BY <2>1, PageFacts, OtherCall, UserAsks
  <1>3. ASSUME StoreShare PROVE IInv'
    <2>1. PICK i \in DOMAIN calls : \E r, f :
            /\ calls[i].op \in {"share", "unshare"} /\ Reply(i, r) /\ UNCHANGED page
            /\ \/ server' = [server EXCEPT !.shares = f, !.made = @ + 1]
               \/ server' = [server EXCEPT !.shares = f]
      BY <1>3 DEF StoreShare, IsAsked, Handling
    <2>2. DOMAIN server' = DOMAIN server /\ server'.notes = server.notes
      BY <2>1, PageFacts
    <2> QED BY <2>1, <2>2, OtherStore, Replies
  <1>4. ASSUME ShareAnswer PROVE IInv'
    <2> DEFINE q(i) == IF calls[i].op = "share" THEN [page EXCEPT !.sharing = FALSE] ELSE page
               w(i) == IF calls[i].op = "share" THEN [q(i) EXCEPT !.shareUrl = calls[i].reply] ELSE q(i)
    <2>1. PICK i \in DOMAIN calls :
            /\ UNCHANGED server
            /\ \/ page' = [q(i) EXCEPT !.doubt = TRUE] /\ Take(i)
               \/ /\ page' = InDoubt(w(i), Late(i, {"shares"}, calls[i].args.sel # Sel(page)))
                  /\ TakeAndSend(i, <<LoadShareLinks(calls[i].args.sel)>>)
      BY <1>4 DEF ShareAnswer, Show, Answering
    <2>2. Minor(w(i)) /\ Minor([q(i) EXCEPT !.doubt = TRUE])
      BY PageFacts DEF Minor, PartFields
    <2> HIDE DEF q, w
    <2>3. Minor(page')
      BY <2>1, <2>2, InDoubtMinor DEF Late
    <2> DEFINE cs == <<LoadShareLinks(calls[i].args.sel)>>
    <2>4. IsSequence(cs) /\ \A c \in Elems(cs) : RequestOK(c, page)
      BY Few, OtherCall DEF LoadShareLinks
    <2>5. Take(i) \/ TakeAndSend(i, cs)
      BY <2>1
    <2> HIDE DEF cs
    <2> QED BY <2>1, <2>3, <2>4, <2>5, Takes, TakesAndSends
  <1>5. ASSUME ListShares PROVE IInv'
    <2>1. PICK i \in DOMAIN calls :
            /\ calls[i].op = "shares" /\ Reply(i, server.shares[calls[i].args])
            /\ UNCHANGED <<page, server>>
      BY <1>5 DEF ListShares, IsAsked, Handling
    <2>2. StoreOK(server', page)
      BY <2>1, PageFacts
    <2> QED BY <2>1, <2>2, Replies
  <1>6. ASSUME SharesAnswer PROVE IInv'
    <2> DEFINE q(i) == [page EXCEPT !.shareLinks = IF Failed(i) THEN {} ELSE calls[i].reply]
    <2>1. PICK i \in DOMAIN calls :
            /\ page' = InDoubt(q(i), Late(i, {"shares"}, calls[i].args # Sel(page)) \/ Failed(i))
            /\ Take(i) /\ UNCHANGED server
      BY <1>6 DEF SharesAnswer, Show, Answering
    <2>2. Minor(q(i))
      BY PageFacts DEF Minor, PartFields
    <2> HIDE DEF q
    <2>3. Minor(page')
      BY <2>1, <2>2, InDoubtMinor DEF Late
    <2> QED BY <2>1, <2>3, Takes
  <1> QED BY <1>1, <1>2, <1>3, <1>4, <1>5, <1>6 DEF SharesPart

LEMMA ExportStep ==
  ASSUME IInv, ExportPart
  PROVE  IInv'
  <1>1. ASSUME NEW kind, DownloadArenaCsv(kind) PROVE IInv'
    <2> DEFINE q == [page EXCEPT !.arenaBusy = kind]
    <2>1. AskFor(q, Call("arena", [sel |-> Sel(page), kind |-> kind]))
      BY <1>1 DEF DownloadArenaCsv
    <2>2. Minor(q)
      BY PageFacts DEF Minor, PartFields
    <2> HIDE DEF q
    <2> QED BY <2>1, <2>2, OtherCall, UserAsks
  <1>2. ASSUME ExportArena PROVE IInv'
    <2>1. PICK i \in DOMAIN calls : \E r :
            calls[i].op = "arena" /\ Reply(i, r) /\ UNCHANGED <<page, server>>
      BY <1>2 DEF ExportArena, IsAsked, Handling
    <2>2. StoreOK(server', page)
      BY <2>1, PageFacts
    <2> QED BY <2>1, <2>2, Replies
  <1>3. ASSUME ArenaAnswer PROVE IInv'
    <2>1. PICK i \in DOMAIN calls :
            page' = [page EXCEPT !.arenaBusy = ArenaFree(i)] /\ Take(i) /\ UNCHANGED server
      BY <1>3 DEF ArenaAnswer, Show, Answering
    <2>2. Minor(page')
      BY <2>1, PageFacts DEF Minor, PartFields
    <2> QED BY <2>1, <2>2, Takes
  <1> QED BY <1>1, <1>2, <1>3 DEF ExportPart

-------------------------------------------------------------------------------
(* The invariant holds in every state.                                     *)

LEMMA LoseStep ==
  ASSUME IInv, Lose
  PROVE  IInv'
  <1>1. PICK i \in DOMAIN calls : Reply(i, Failure) /\ UNCHANGED <<page, server>>
    BY DEF Lose
  <1>2. StoreOK(server', page)
    BY <1>1, PageFacts
  <1> QED BY <1>1, <1>2, Replies

LEMMA InitIInv == PartInit => IInv
  <1> SUFFICES ASSUME NEW u \in Parts, NEW hidden, NEW uses, page = PartStart(u, uses), calls = <<>>,
                      server = PartServer(hidden)
               PROVE  IInv
    BY DEF PartInit
  <1>1. /\ DOMAIN page = PartFields /\ page.url = u /\ page.part = u /\ page.notes.of = {u}
        /\ page.doubt = FALSE /\ page.commentSaving = FALSE
    BY DEF PartStart, PartFields
  <1>2. StoreOK(server, page)
    BY DEF PartServer, StoreOK
  <1>3. IsSequence(calls) /\ Elems(calls) = {}
    BY Few
  <1> QED BY <1>1, <1>2, <1>3 DEF IInv, PageOK

LEMMA NextIInv == IInv /\ [PartNext \/ Lose]_vars => IInv'
  <1>1. ASSUME IInv, PartNext PROVE IInv'
    BY <1>1, NavigateStep, ServeDetailStep, DetailAnswerStep, RefreshStep, NotesStep, CommentsStep,
       FilesStep, SharesStep, ExportStep, DeleteStep DEF PartNext
  <1>2. ASSUME IInv, UNCHANGED vars PROVE IInv'
    BY <1>2 DEF vars, IInv
  <1> QED BY <1>1, <1>2, LoseStep

\* Loads that were not cancelled are of the part in the address, and without
\* a doubt every text is beside, on its way to or stored with the part it
\* was typed for.
THEOREM PartInvariant == PartSpec => []IInv
  BY InitIInv, NextIInv, PTL DEF PartSpec

\* However fast links are followed, whatever order the answers come in and
\* whatever is lost, the part on screen is the one in the address: the
\* clean-up of the effect cancels the load that is overtaken.
THEOREM PartIsRequested == PartSpec => []ShownPartIsTheRequested
  <1>1. IInv => ShownPartIsTheRequested
    BY DEF IInv, PageOK, ShownPartIsTheRequested
  <1> QED BY <1>1, PartInvariant, PTL

\* For any parts, any typing and any number of saves and loads on their way,
\* no part is given another one's notes, unless a save was answered after
\* its page had moved on.
THEOREM PartNotesStay == PartSpec => []NotesStayWithTheirPart
  <1>1. IInv => NotesStayWithTheirPart
    BY DEF IInv, StoreOK, NotesStayWithTheirPart
  <1> QED BY <1>1, PartInvariant, PTL
-------------------------------------------------------------------------------
(* What is on screen, and what is on its way.                              *)

CommentOps == {"addComment", "changeComment", "deleteComment"}
FileOps    == {"upload", "deleteFile"}
ShareOps   == {"share", "unshare"}

\* Of comments one request is out at a time, and of loads one that counts.
KindOf(c) ==
  IF c.op \in CommentOps THEN "comment"
  ELSE IF c.op = "detail" /\ ~c.args.canceled THEN "load" ELSE "other"

Solo(s) == \A i, j \in DOMAIN s : KindOf(s[i]) = KindOf(s[j]) /\ KindOf(s[i]) # "other" => i = j

Due(sort) == \E c \in Elems(calls) : KindOf(c) = sort
Out(ops)     == \E c \in Elems(calls) : c.op \in ops

\* What the page says that it waits for is on its way.
Waits ==
  /\ Solo(calls)
  /\ (page.loading => Due("load")) /\ (Due("load") => page.loading)
  /\ (page.commentSaving => Due("comment")) /\ (Due("comment") => page.commentSaving)
  /\ page.notesSaving => Out({"saveNotes"})
  /\ page.refreshing  => Out({"refresh"})
  /\ page.uploading   => Out({"upload"})
  /\ page.sharing     => Out({"share"})
  /\ page.arenaBusy # Absent => Out({"arena"})

CommentTyped(c) ==
  /\ c.op = "detail" /\ Arrived(c) => c.reply.comments \in Seq(Comments)
  /\ c.op \in CommentOps =>
       /\ c.args.part \in Parts /\ (c.op # "addComment" => c.args.comment \in Comments)
       /\ Arrived(c) => IF c.op = "deleteComment" THEN c.reply \in Seq(Comments) ELSE c.reply \in Comments

CommentsTyped ==
  /\ page.comments \in Seq(Comments) /\ server.made \in Nat /\ server.comments \in [Parts -> Seq(Comments)]
  /\ \A c \in Elems(calls) : CommentTyped(c)

\* The comments after a change was answered, CommentsAfter in terms of the request.
Afterwards(c, r, s) ==
  IF c.op = "addComment" THEN Append(s, r) ELSE IF c.op = "changeComment" THEN Replaced(s, r) ELSE r

\* The comments on screen, or in the load that counts, are the stored ones,
\* up to the change that is out.
CommentOK(c) ==
  /\ KindOf(c) = "comment" =>
       /\ Shown(page) /\ c.args.part = page.part
       /\ c.reply = Absent => page.comments = server.comments[page.part]
       /\ Arrived(c) => server.comments[page.part] = Afterwards(c, c.reply, page.comments)
  /\ KindOf(c) = "load" /\ Arrived(c) => c.reply.comments = server.comments[page.url]

CommentsOK ==
  ~page.doubt =>
    /\ \A c \in Elems(calls) : CommentOK(c)
    /\ Shown(page) /\ ~Due("comment") => page.comments = server.comments[page.part]

Rows(p, s) == [of |-> p, files |-> s.files[p]]

\* So are files, unless they are being changed or read again.
FilesOK ==
  ~page.doubt /\ "files" \in page.uses =>
    /\ Out(FileOps) \/ Out({"extra"}) \/ page.extra = Rows(Sel(page), server)
    /\ Out(FileOps) \/ Out({"overview"}) \/ page.overview = Rows(page.url, server)
    /\ \A c \in Elems(calls) : c.op \in {"extra", "overview"} /\ Arrived(c) => c.reply = Rows(c.args, server) \/ Out(FileOps)

\* And share links; the address of a new one is of the part shown.
SharesOK ==
  ~page.doubt /\ "shares" \in page.uses =>
    /\ Out(ShareOps) \/ Out({"shares"}) \/ page.shareLinks = server.shares[Sel(page)]
    /\ \A c \in Elems(calls) : c.op = "shares" /\ Arrived(c) => c.reply = server.shares[c.args] \/ Out(ShareOps)
    /\ \A c \in Elems(calls) : c.op = "share" /\ Arrived(c) => c.reply.of = c.args.sel
    /\ page.shareUrl # Absent => page.shareUrl.of = Sel(page)

Quiet == Waits /\ CommentsTyped /\ CommentsOK /\ FilesOK /\ SharesOK

QuietInv == page.at \in {"part", "parts list"} /\ (On("part") => Quiet)

-------------------------------------------------------------------------------
(* The requests that are left, and those that join.                        *)

\* Requests other than those of the kinds X stay, and none comes.
Same(X) == \A d : d.op \notin X => (d \in Elems(calls) <=> d \in Elems(calls'))

LEMMA SoloOthers ==
  ASSUME IsSequence(calls), Solo(calls), NEW i \in DOMAIN calls
  PROVE  /\ Solo(Others(i))
         /\ KindOf(calls[i]) # "other" => \A c \in Elems(Others(i)) : KindOf(c) # KindOf(calls[i])
  <1>1. /\ Len(calls) \in Nat /\ DOMAIN calls = 1 .. Len(calls)
        /\ Others(i) = [j \in 1 .. Len(calls) - 1 |-> calls[IF j < i THEN j ELSE j + 1]]
    BY LenProperties DEF IsSequence, Others
  <1> DEFINE k(j) == IF j < i THEN j ELSE j + 1
  <1>2. \A j \in 1 .. Len(calls) - 1 : k(j) \in DOMAIN calls /\ k(j) # i
    BY <1>1
  <1>3. \A j, l \in 1 .. Len(calls) - 1 : k(j) = k(l) => j = l
    BY <1>1
  <1>4. DOMAIN Others(i) = 1 .. Len(calls) - 1 /\ \A j \in 1 .. Len(calls) - 1 : Others(i)[j] = calls[k(j)]
    BY <1>1
  <1> HIDE DEF k
  <1>5. Solo(Others(i))
    BY <1>2, <1>3, <1>4 DEF Solo
  <1>6. ASSUME NEW c \in Elems(Others(i)), KindOf(calls[i]) # "other", KindOf(c) = KindOf(calls[i]) PROVE FALSE
    <2>1. PICK j \in 1 .. Len(calls) - 1 : c = calls[k(j)]
      BY <1>4 DEF Elems
    <2> QED BY <1>2, <1>6, <2>1 DEF Solo
  <1> QED BY <1>5, <1>6

LEMMA SoloServed ==
  ASSUME IsSequence(calls), Solo(calls), NEW i \in DOMAIN calls, DOMAIN calls[i] = CallFields,
         NEW STATE r, Reply(i, r)
  PROVE  Solo(calls')
  <1> DEFINE c == [calls[i] EXCEPT !.reply = r, !.work = Absent]
  <1>1. c.op = calls[i].op /\ c.args = calls[i].args
    BY DEF CallFields
  <1>2. PICK S : calls \in Seq(S)
    BY DEF IsSequence
  <1>3. calls' = [calls EXCEPT ![i] = c]
    BY DEF Reply
  <1> HIDE DEF c
  <1>4. /\ \E T : calls' \in Seq(T)
        /\ Len(calls) \in Nat /\ i \in 1 .. Len(calls) /\ Len(calls') = Len(calls)
        /\ \A j \in 1 .. Len(calls) : calls'[j] = IF j = i THEN c ELSE calls[j]
    BY <1>2, <1>3, CallReplaced
  <1>5. DOMAIN calls' = 1 .. Len(calls) /\ DOMAIN calls = 1 .. Len(calls)
    BY <1>2, <1>4, LenProperties
  <1>6. KindOf(c) = KindOf(calls[i])
    BY <1>1 DEF KindOf
  <1>7. \A j \in DOMAIN calls' : j \in DOMAIN calls /\ KindOf(calls'[j]) = KindOf(calls[j])
    BY <1>4, <1>5, <1>6
  <1> QED BY <1>7 DEF Solo

\* Of the requests that join, none is of a kind that is there or is twice of one kind.
LEMMA SoloJoined ==
  ASSUME NEW s, NEW t, IsSequence(s), IsSequence(t), Solo(s), Solo(t),
         \A c \in Elems(s), d \in Elems(t) : KindOf(c) = KindOf(d) => KindOf(c) = "other"
  PROVE  Solo(s \o t)
  <1>1. PICK S : s \in Seq(S)
    BY DEF IsSequence
  <1>2. PICK T : t \in Seq(T)
    BY DEF IsSequence
  <1>3. s \in Seq(S \cup T) /\ t \in Seq(S \cup T)
    BY <1>1, <1>2, SeqMonotonic
  <1>4. /\ s \o t \in Seq(S \cup T) /\ Len(s \o t) = Len(s) + Len(t) /\ Len(s) \in Nat /\ Len(t) \in Nat
        /\ DOMAIN s = 1 .. Len(s) /\ DOMAIN t = 1 .. Len(t)
        /\ \A j \in 1 .. Len(s) + Len(t) : (s \o t)[j] = IF j <= Len(s) THEN s[j] ELSE t[j - Len(s)]
    BY <1>3, ConcatProperties, LenProperties
  <1>5. DOMAIN (s \o t) = 1 .. Len(s) + Len(t)
    BY <1>4, LenProperties
  <1> DEFINE u == s \o t
  <1> HIDE DEF u
  <1>6. ASSUME NEW j \in DOMAIN u, NEW l \in DOMAIN u, KindOf(u[j]) = KindOf(u[l]), KindOf(u[j]) # "other"
        PROVE  j = l
    <2>1. /\ j \in 1 .. Len(s) + Len(t) /\ l \in 1 .. Len(s) + Len(t)
          /\ u[j] = (IF j <= Len(s) THEN s[j] ELSE t[j - Len(s)])
          /\ u[l] = (IF l <= Len(s) THEN s[l] ELSE t[l - Len(s)])
      BY <1>4, <1>5 DEF u
    <2>2. CASE j <= Len(s) /\ l <= Len(s)
      <3>1. j \in DOMAIN s /\ l \in DOMAIN s /\ u[j] = s[j] /\ u[l] = s[l]
        BY <1>4, <2>1, <2>2
      <3> QED BY <1>6, <3>1 DEF Solo
    <2>3. CASE j > Len(s) /\ l > Len(s)
      <3>1. /\ j - Len(s) \in DOMAIN t /\ l - Len(s) \in DOMAIN t
            /\ u[j] = t[j - Len(s)] /\ u[l] = t[l - Len(s)]
        BY <1>4, <2>1, <2>3
      <3>2. j - Len(s) = l - Len(s)
        BY <1>6, <3>1 DEF Solo
      <3> QED BY <1>4, <2>1, <3>2
    <2>4. CASE j <= Len(s) /\ l > Len(s)
      <3>1. u[j] \in Elems(s) /\ u[l] \in Elems(t)
        BY <1>4, <2>1, <2>4 DEF Elems
      <3> QED BY <1>6, <3>1
    <2>5. CASE j > Len(s) /\ l <= Len(s)
      <3>1. u[l] \in Elems(s) /\ u[j] \in Elems(t)
        BY <1>4, <2>1, <2>5 DEF Elems
      <3> QED BY <1>6, <3>1
    <2>6. (j <= Len(s) \/ j > Len(s)) /\ (l <= Len(s) \/ l > Len(s))
      BY <1>4, <2>1
    <2> QED BY <2>2, <2>3, <2>4, <2>5, <2>6
  <1>7. Solo(u)
    BY <1>6 DEF Solo
  <1> QED BY <1>7 DEF u

LEMMA SoloFew ==
  /\ Solo(<<>>) /\ \A c : Solo(<<c>>)
  /\ \A c, d : KindOf(c) = "other" /\ KindOf(d) = "other" => Solo(<<c, d>>)
  <1>1. Solo(<<>>)
    BY DEF Solo
  <1>2. ASSUME NEW c PROVE Solo(<<c>>)
    <2>1. DOMAIN <<c>> = {1}
      OBVIOUS
    <2> QED BY <2>1 DEF Solo
  <1>3. ASSUME NEW c, NEW d, KindOf(c) = "other", KindOf(d) = "other" PROVE Solo(<<c, d>>)
    <2>1. DOMAIN <<c, d>> = {1, 2} /\ <<c, d>>[1] = c /\ <<c, d>>[2] = d
      <3>1. Len(<<c, d>>) = 2 /\ 1 .. 2 = {1, 2} /\ <<c, d>>[1] = c /\ <<c, d>>[2] = d
        OBVIOUS
      <3>2. <<c, d>> \in Seq({c, d})
        OBVIOUS
      <3> QED BY <3>1, <3>2, LenProperties
    <2> QED BY <1>3, <2>1 DEF Solo
  <1> QED BY <1>1, <1>2, <1>3

LEMMA CallFacts ==
  ASSUME IInv, NEW i \in DOMAIN calls
  PROVE  /\ IsSequence(calls) /\ calls[i] \in Elems(calls) /\ DOMAIN calls[i] = CallFields
         /\ RequestOK(calls[i], page)
  BY DEF IInv, RequestOK, Elems

\* What is served stays, with its answer.
LEMMA Replied ==
  ASSUME IInv, NEW i \in DOMAIN calls, NEW STATE r, Reply(i, r)
  PROVE  /\ \A c \in Elems(calls) : \E d \in Elems(calls') : d.op = c.op /\ d.args = c.args
         /\ \A d \in Elems(calls') : \/ d \in Elems(calls)
                                     \/ d.op = calls[i].op /\ d.args = calls[i].args /\ d.reply = r
         /\ \A X : calls[i].op \in X => Same(X)
  <1>1. IsSequence(calls) /\ DOMAIN calls[i] = CallFields
    BY CallFacts
  <1>2. PICK c : /\ DOMAIN c = CallFields /\ c.op = calls[i].op /\ c.args = calls[i].args /\ c.reply = r
                 /\ IsSequence(calls') /\ Elems(calls') \subseteq Elems(calls) \cup {c}
                 /\ c \in Elems(calls') /\ Elems(calls) \subseteq Elems(calls') \cup {calls[i]}
    BY <1>1, Answered
  <1>3. ASSUME NEW X, calls[i].op \in X PROVE Same(X)
    BY <1>2, <1>3 DEF Same
  <1> QED BY <1>2, <1>3

\* What is taken is gone, and what follows from it has joined.
LEMMA AnswerTaken ==
  ASSUME IInv, NEW i \in DOMAIN calls, NEW cs, IsSequence(cs), calls' = Others(i) \o cs
  PROVE  /\ Elems(calls') \subseteq Elems(calls) \cup Elems(cs) /\ Elems(cs) \subseteq Elems(calls')
         /\ Elems(calls) \subseteq Elems(calls') \cup {calls[i]}
         /\ \A X : calls[i].op \in X /\ (\A c \in Elems(cs) : c.op \in X) => Same(X)
         /\ \A c \in Elems(calls') : c \in Elems(Others(i)) \/ c \in Elems(cs)
         /\ Elems(Others(i)) \subseteq Elems(calls)
  <1>1. /\ IsSequence(Others(i)) /\ Elems(Others(i)) \subseteq Elems(calls)
        /\ Elems(calls) \subseteq Elems(Others(i)) \cup {calls[i]}
    BY Remaining DEF IInv
  <1>2. Elems(calls') = Elems(Others(i)) \cup Elems(cs)
    BY <1>1, Joined
  <1>3. \A ops : calls[i].op \in ops /\ (\A c \in Elems(cs) : c.op \in ops) => Same(ops)
    <2>1. SUFFICES ASSUME NEW ops, calls[i].op \in ops, \A c \in Elems(cs) : c.op \in ops PROVE Same(ops)
      OBVIOUS
    <2> QED BY <1>1, <1>2, <2>1 DEF Same
  <1>4. \A c \in Elems(calls') : c \in Elems(Others(i)) \/ c \in Elems(cs)
    BY <1>2
  <1>5. Elems(calls') \subseteq Elems(calls) \cup Elems(cs) /\ Elems(cs) \subseteq Elems(calls')
    BY <1>1, <1>2
  <1>6. Elems(calls) \subseteq Elems(calls') \cup {calls[i]}
    BY <1>1, <1>2
  <1> QED BY <1>1, <1>3, <1>4, <1>5, <1>6

LEMMA OnlyTaken ==
  ASSUME IInv, NEW i \in DOMAIN calls, Take(i)
  PROVE  calls' = Others(i) \o <<>>
  <1>1. IsSequence(Others(i))
    BY CallFacts, Remaining
  <1> QED BY <1>1, ConcatEmptySeq DEF Take, IsSequence

\* What is asked has joined.
LEMMA Asked ==
  ASSUME IInv, NEW c, calls' = calls \o <<c>>
  PROVE  Elems(calls') = Elems(calls) \cup {c} /\ Same({c.op})
  <1>1. IsSequence(calls)
    BY DEF IInv
  <1>2. Elems(calls') = Elems(calls) \cup {c}
    BY <1>1, Few, Joined
  <1> QED BY <1>2 DEF Same

-------------------------------------------------------------------------------
(* What has to be shown of a step that is about something else.            *)

\* The same part on screen, as far as it is.
SamePart(p, q) ==
  /\ q.at = p.at /\ q.uses = p.uses /\ q.url = p.url /\ q.part = p.part
  /\ q.loading = p.loading /\ q.forbidden = p.forbidden /\ (p.doubt => q.doubt)

SameComments(p, q) == q.comments = p.comments
SameFiles(p, q)    == q.extra = p.extra /\ q.overview = p.overview
SameShares(p, q)   == q.shareLinks = p.shareLinks /\ q.shareUrl = p.shareUrl

LEMMA SamePartShows ==
  ASSUME NEW p, NEW q, SamePart(p, q)
  PROVE  (Shown(q) <=> Shown(p)) /\ Sel(q) = Sel(p)
  BY DEF SamePart, Shown, Sel, EffectiveRevisionFor

LEMMA OtherComments ==
  ASSUME CommentsTyped, CommentsOK, SamePart(page, page'), SameComments(page, page'),
         \A d \in Elems(calls') : d \in Elems(calls) \/ d.op \notin CommentOps \cup {"detail"},
         Due("comment") => Due("comment")', server'.comments = server.comments, server'.made \in Nat
  PROVE  CommentsTyped' /\ CommentsOK'
  <1>1. CommentsTyped'
    <2>1. \A d \in Elems(calls') : CommentTyped(d)
      BY DEF CommentsTyped, CommentTyped
    <2> QED BY <2>1 DEF CommentsTyped, CommentTyped, SameComments
  <1>2. (Shown(page') <=> Shown(page)) /\ page'.part = page.part /\ page'.url = page.url
    BY SamePartShows DEF SamePart
  <1>3. ASSUME ~page'.doubt, NEW c \in Elems(calls') PROVE CommentOK(c)'
    <2>1. CASE c \in Elems(calls)
      <3>1. CommentOK(c)
        BY <1>3, <2>1 DEF CommentsOK, SamePart
      <3> QED BY <1>2, <3>1 DEF CommentOK, SameComments
    <2>2. CASE c.op \notin CommentOps \cup {"detail"}
      BY <2>2 DEF CommentOK, KindOf
    <2> QED BY <2>1, <2>2
  <1> QED BY <1>1, <1>2, <1>3 DEF CommentsOK, SamePart, SameComments

LEMMA OtherFiles ==
  ASSUME FilesOK, SamePart(page, page'), SameFiles(page, page'),
         NEW X, Same(X), X \cap (FileOps \cup {"extra", "overview"}) = {}, server'.files = server.files
  PROVE  FilesOK'
  <1>1. \A c : c.op \in FileOps \cup {"extra", "overview"} => (c \in Elems(calls) <=> c \in Elems(calls'))
    BY DEF Same
  <1>2. /\ Out(FileOps) => Out(FileOps)'
        /\ Out({"extra"}) => Out({"extra"})'
        /\ Out({"overview"}) => Out({"overview"})'
    BY <1>1 DEF Out
  <1>3. Sel(page') = Sel(page) /\ page'.url = page.url
    BY SamePartShows DEF SamePart
  <1>5. ASSUME ~page'.doubt, "files" \in page'.uses, NEW c \in Elems(calls'),
               c.op \in {"extra", "overview"}, Arrived(c)
        PROVE  c.reply = Rows(c.args, server) \/ Out(FileOps)
    BY <1>1, <1>5 DEF FilesOK, SamePart
  <1>6. ASSUME ~page'.doubt, "files" \in page'.uses
        PROVE  /\ Out(FileOps)' \/ Out({"extra"})' \/ page'.extra = Rows(Sel(page), server)'
               /\ Out(FileOps)' \/ Out({"overview"})' \/ page'.overview = Rows(page.url, server)'
    <2>1. /\ Out(FileOps) \/ Out({"extra"}) \/ page.extra = Rows(Sel(page), server)
          /\ Out(FileOps) \/ Out({"overview"}) \/ page.overview = Rows(page.url, server)
      BY <1>6 DEF FilesOK, SamePart
    <2>2. Rows(Sel(page), server)' = Rows(Sel(page), server) /\ Rows(page.url, server)' = Rows(page.url, server)
      BY <1>3 DEF Rows
    <2> HIDE DEF Rows, Out, Sel
    <2>3. Out(FileOps)' \/ Out({"extra"})' \/ page'.extra = Rows(Sel(page), server)'
      BY <1>2, <2>1, <2>2 DEF SameFiles
    <2>4. Out(FileOps)' \/ Out({"overview"})' \/ page'.overview = Rows(page.url, server)'
      BY <1>2, <2>1, <2>2 DEF SameFiles
    <2> QED BY <2>3, <2>4
  <1>7. \A c \in Elems(calls') : Rows(c.args, server)' = Rows(c.args, server)
    BY DEF Rows
  <1> QED BY <1>2, <1>5, <1>6, <1>7 DEF FilesOK

LEMMA OtherShares ==
  ASSUME SharesOK, SamePart(page, page'), SameShares(page, page'),
         NEW X, Same(X), X \cap (ShareOps \cup {"shares"}) = {}, server'.shares = server.shares
  PROVE  SharesOK'
  <1>1. \A c : c.op \in ShareOps \cup {"shares"} => (c \in Elems(calls) <=> c \in Elems(calls'))
    BY DEF Same
  <1>2. (Out(ShareOps) => Out(ShareOps)') /\ (Out({"shares"}) => Out({"shares"})')
    BY <1>1 DEF Out
  <1>3. Sel(page') = Sel(page)
    BY SamePartShows
  <1>4. "share" \in ShareOps
    BY DEF ShareOps
  <1> QED BY <1>1, <1>2, <1>3, <1>4 DEF SharesOK, SameShares, SamePart

-------------------------------------------------------------------------------
(* The server answers.                                                     *)

LEMMA Alone ==
  ASSUME NEW s, Solo(s), NEW c \in Elems(s), NEW d \in Elems(s), KindOf(c) = KindOf(d), KindOf(c) # "other"
  PROVE  c = d
  BY DEF Solo, Elems

\* The flags and the requests agree when the server has answered.
LEMMA ServedWaits ==
  ASSUME IInv, Waits, UNCHANGED page, NEW i \in DOMAIN calls, NEW STATE r, Reply(i, r)
  PROVE  Waits'
  <1>1. Solo(calls')
    BY SoloServed, CallFacts DEF Waits
  <1>2. /\ \A c \in Elems(calls) : \E d \in Elems(calls') : d.op = c.op /\ d.args = c.args
        /\ \A d \in Elems(calls') : d \in Elems(calls) \/ (d.op = calls[i].op /\ d.args = calls[i].args)
        /\ calls[i] \in Elems(calls)
    BY Replied, CallFacts
  <1>3. \A c, d : c.op = d.op /\ c.args = d.args => KindOf(c) = KindOf(d)
    BY DEF KindOf
  <1>4. \A sort : Due(sort)' <=> Due(sort)
    BY <1>2, <1>3 DEF Due
  <1>5. \A ops : Out(ops) => Out(ops)'
    BY <1>2 DEF Out
  <1> QED BY <1>1, <1>4, <1>5 DEF Waits

LEMMA ServedComments ==
  ASSUME IInv, CommentsTyped, CommentsOK, UNCHANGED page, server'.comments = server.comments, server'.made \in Nat,
         NEW i \in DOMAIN calls, NEW STATE r, Reply(i, r),
         calls[i].op = "detail" => r = Failure \/ r.comments = server.comments[calls[i].args.part],
         calls[i].op \in CommentOps => r = Failure
  PROVE  CommentsTyped' /\ CommentsOK'
  <1>1. /\ \A c \in Elems(calls) : \E d \in Elems(calls') : d.op = c.op /\ d.args = c.args
        /\ \A d \in Elems(calls') : \/ d \in Elems(calls)
                                    \/ d.op = calls[i].op /\ d.args = calls[i].args /\ d.reply = r
        /\ calls[i] \in Elems(calls) /\ RequestOK(calls[i], page)
    BY Replied, CallFacts
  <1>2. Due("comment") => Due("comment")'
    <2>1. \A c, d : c.op = d.op /\ c.args = d.args => KindOf(c) = KindOf(d)
      BY DEF KindOf
    <2> QED BY <1>1, <2>1 DEF Due
  <1>3. ASSUME NEW d, d.op = calls[i].op, d.args = calls[i].args, d.reply = r
        PROVE  CommentTyped(d) /\ (~page.doubt => CommentOK(d))
    <2>1. CommentTyped(calls[i]) /\ (~page.doubt => CommentOK(calls[i]))
      BY <1>1 DEF CommentsTyped, CommentsOK
    <2>2. CASE d.op = "detail"
      <3>1. d.args.part \in Parts /\ (~d.args.canceled => d.args.part = page.url)
        BY <1>1, <1>3, <2>2 DEF RequestOK
      <3>2. r = Failure \/ (r.comments = server.comments[d.args.part] /\ r.comments \in Seq(Comments))
        BY <1>3, <2>2, <3>1 DEF CommentsTyped
      <3>3. CommentTyped(d)
        BY <1>3, <2>2, <3>2 DEF CommentTyped, CommentOps, Arrived
      <3>4. KindOf(d) = "load" /\ Arrived(d) => d.reply.comments = server.comments[page.url]
        BY <1>3, <2>2, <3>1, <3>2 DEF KindOf, Arrived, CommentOps
      <3>5. KindOf(d) # "comment"
        BY <2>2 DEF KindOf, CommentOps
      <3> QED BY <3>3, <3>4, <3>5 DEF CommentOK
    <2>3. CASE d.op \in CommentOps
      <3>1. d.reply = Failure /\ Failure # Absent /\ ~Arrived(d)
        BY <1>3, <2>3, PartAssumption DEF Arrived
      <3>2. CommentTyped(d)
        BY <1>3, <2>1, <2>3, <3>1 DEF CommentTyped, CommentOps
      <3>3. KindOf(d) = "comment" /\ KindOf(calls[i]) = "comment"
        BY <1>3, <2>3 DEF KindOf
      <3> QED BY <1>3, <2>1, <3>1, <3>2, <3>3 DEF CommentOK
    <2>4. CASE d.op \notin CommentOps \cup {"detail"}
      BY <2>4 DEF CommentTyped, CommentOK, KindOf
    <2> QED BY <2>2, <2>3, <2>4
  <1>4. ASSUME NEW d \in Elems(calls') PROVE CommentTyped(d) /\ (~page.doubt => CommentOK(d))
    BY <1>1, <1>3 DEF CommentsTyped, CommentsOK
  <1>5. CommentsTyped'
    BY <1>4 DEF CommentsTyped, CommentTyped
  <1>6. \A d : CommentOK(d) => CommentOK(d)'
    BY DEF CommentOK
  <1> QED BY <1>2, <1>4, <1>5, <1>6 DEF CommentsOK

LEMMA ServedFiles ==
  ASSUME IInv, FilesOK, UNCHANGED page, server'.files = server.files,
         NEW i \in DOMAIN calls, NEW STATE r, Reply(i, r),
         calls[i].op \in {"extra", "overview"} => r \in {Failure, Rows(calls[i].args, server)}
  PROVE  FilesOK'
  <1>1. /\ \A c \in Elems(calls) : \E d \in Elems(calls') : d.op = c.op /\ d.args = c.args
        /\ \A d \in Elems(calls') : \/ d \in Elems(calls)
                                    \/ d.op = calls[i].op /\ d.args = calls[i].args /\ d.reply = r
    BY Replied
  <1>2. \A ops : Out(ops) => Out(ops)'
    BY <1>1 DEF Out
  <1>3. \A p : Rows(p, server') = Rows(p, server)
    BY DEF Rows
  <1> SUFFICES ASSUME ~page.doubt, "files" \in page.uses
               PROVE  /\ Out(FileOps)' \/ Out({"extra"})' \/ page.extra = Rows(Sel(page), server')
                      /\ Out(FileOps)' \/ Out({"overview"})' \/ page.overview = Rows(page.url, server')
                      /\ \A c \in Elems(calls') : c.op \in {"extra", "overview"} /\ Arrived(c)
                                                    => c.reply = Rows(c.args, server') \/ Out(FileOps)'
    BY DEF FilesOK
  <1>4. Out(FileOps)' \/ Out({"extra"})' \/ page.extra = Rows(Sel(page), server')
    BY <1>2, <1>3 DEF FilesOK
  <1>5. Out(FileOps)' \/ Out({"overview"})' \/ page.overview = Rows(page.url, server')
    BY <1>2, <1>3 DEF FilesOK
  <1>6. ASSUME NEW c \in Elems(calls'), c.op \in {"extra", "overview"}, Arrived(c)
        PROVE  c.reply = Rows(c.args, server') \/ Out(FileOps)'
    <2>1. CASE c \in Elems(calls)
      BY <1>2, <1>3, <1>6, <2>1 DEF FilesOK
    <2>2. CASE c.op = calls[i].op /\ c.args = calls[i].args /\ c.reply = r
      BY <1>3, <1>6, <2>2 DEF Arrived
    <2> QED BY <1>1, <2>1, <2>2
  <1> QED BY <1>4, <1>5, <1>6

LEMMA ServedShares ==
  ASSUME IInv, SharesOK, UNCHANGED page, server'.shares = server.shares,
         NEW i \in DOMAIN calls, NEW STATE r, Reply(i, r),
         calls[i].op = "shares" => r \in {Failure, server.shares[calls[i].args]},
         calls[i].op = "share" => r = Failure
  PROVE  SharesOK'
  <1>1. /\ \A c \in Elems(calls) : \E d \in Elems(calls') : d.op = c.op /\ d.args = c.args
        /\ \A d \in Elems(calls') : \/ d \in Elems(calls)
                                    \/ d.op = calls[i].op /\ d.args = calls[i].args /\ d.reply = r
    BY Replied
  <1>2. \A ops : Out(ops) => Out(ops)'
    BY <1>1 DEF Out
  <1> SUFFICES ASSUME ~page.doubt, "shares" \in page.uses
               PROVE  /\ Out(ShareOps)' \/ Out({"shares"})' \/ page.shareLinks = server.shares[Sel(page)]
                      /\ \A c \in Elems(calls') : c.op = "shares" /\ Arrived(c)
                                                    => c.reply = server.shares[c.args] \/ Out(ShareOps)'
                      /\ \A c \in Elems(calls') : c.op = "share" /\ Arrived(c) => c.reply.of = c.args.sel
                      /\ page.shareUrl # Absent => page.shareUrl.of = Sel(page)
    BY DEF SharesOK
  <1>3. Out(ShareOps)' \/ Out({"shares"})' \/ page.shareLinks = server.shares[Sel(page)]
    BY <1>2 DEF SharesOK
  <1>4. ASSUME NEW c \in Elems(calls'), c.op = "shares", Arrived(c)
        PROVE  c.reply = server.shares[c.args] \/ Out(ShareOps)'
    <2>1. CASE c \in Elems(calls)
      BY <1>2, <1>4, <2>1 DEF SharesOK
    <2>2. CASE c.op = calls[i].op /\ c.args = calls[i].args /\ c.reply = r
      BY <1>4, <2>2 DEF Arrived
    <2> QED BY <1>1, <2>1, <2>2
  <1>5. ASSUME NEW c \in Elems(calls'), c.op = "share", Arrived(c) PROVE c.reply.of = c.args.sel
    <2>1. CASE c \in Elems(calls)
      BY <1>5, <2>1 DEF SharesOK
    <2>2. CASE c.op = calls[i].op /\ c.args = calls[i].args /\ c.reply = r
      BY <1>5, <2>2 DEF Arrived
    <2> QED BY <1>1, <2>1, <2>2
  <1> QED BY <1>3, <1>4, <1>5 DEF SharesOK

\* The server answers, and changes neither comments nor files nor share links.
LEMMA ServedQuiet ==
  ASSUME IInv, Quiet, UNCHANGED page, NEW i \in DOMAIN calls, NEW STATE r, Reply(i, r),
         server'.comments = server.comments, server'.files = server.files, server'.shares = server.shares,
         server'.made = server.made,
         \/ r = Failure
         \/ calls[i].op \in {"refresh", "deletePart", "saveNotes", "arena"}
         \/ calls[i].op = "detail" /\ r.comments = server.comments[calls[i].args.part]
         \/ calls[i].op \in {"extra", "overview"} /\ r = Rows(calls[i].args, server)
         \/ calls[i].op = "shares" /\ r = server.shares[calls[i].args]
  PROVE  Quiet'
  <1>1. Waits'
    BY ServedWaits DEF Quiet
  <1>2. /\ calls[i].op = "detail" => r = Failure \/ r.comments = server.comments[calls[i].args.part]
        /\ calls[i].op \in CommentOps \cup {"share"} => r = Failure
        /\ calls[i].op \in {"extra", "overview"} => r \in {Failure, Rows(calls[i].args, server)}
        /\ calls[i].op = "shares" => r \in {Failure, server.shares[calls[i].args]}
    BY DEF CommentOps
  <1>3. server'.made \in Nat
    BY DEF Quiet, CommentsTyped
  <1>4. CommentsTyped' /\ CommentsOK'
    BY <1>2, <1>3, ServedComments DEF Quiet
  <1>5. FilesOK'
    BY <1>2, ServedFiles DEF Quiet
  <1>6. SharesOK'
    BY <1>2, ServedShares DEF Quiet
  <1> QED BY <1>1, <1>4, <1>5, <1>6 DEF Quiet

LEMMA LoseQuiet ==
  ASSUME IInv, Quiet, Lose
  PROVE  Quiet'
  <1>1. PICK i \in DOMAIN calls : Reply(i, Failure) /\ UNCHANGED <<page, server>>
    BY DEF Lose
  <1> QED BY <1>1, ServedQuiet

LEMMA ServeDetailQuiet ==
  ASSUME IInv, Quiet, ServeDetail
  PROVE  Quiet'
  <1>1. PICK i \in DOMAIN calls :
          /\ calls[i].op = "detail" /\ UNCHANGED <<page, server>>
          /\ Reply(i, IF calls[i].args.part \notin server.there THEN Failure
                      ELSE [part |-> calls[i].args.part, forbidden |-> calls[i].args.part \in server.hidden,
                            notes |-> server.notes[calls[i].args.part],
                            comments |-> server.comments[calls[i].args.part]])
    BY DEF ServeDetail, IsAsked, Handling
  <1> DEFINE found == [part |-> calls[i].args.part, forbidden |-> calls[i].args.part \in server.hidden,
                       notes |-> server.notes[calls[i].args.part],
                       comments |-> server.comments[calls[i].args.part]]
             r == IF calls[i].args.part \notin server.there THEN Failure ELSE found
  <1>2. Reply(i, r)
    BY <1>1
  <1>3. found.comments = server.comments[calls[i].args.part]
    OBVIOUS
  <1> HIDE DEF found
  <1>4. r = Failure \/ r.comments = server.comments[calls[i].args.part]
    BY <1>3
  <1> HIDE DEF r
  <1> QED BY <1>1, <1>2, <1>4, ServedQuiet

LEMMA OthersServedQuiet ==
  ASSUME IInv, Quiet, RefreshFiles \/ DeletePart \/ StoreNotes \/ ListFiles \/ ListShares \/ ExportArena
  PROVE  Quiet'
  <1>1. ASSUME RefreshFiles PROVE Quiet'
    <2>1. PICK i \in DOMAIN calls : calls[i].op = "refresh" /\ Reply(i, TRUE) /\ UNCHANGED <<page, server>>
      BY <1>1 DEF RefreshFiles, IsAsked, Handling
    <2> QED BY <2>1, ServedQuiet
  <1>2. ASSUME DeletePart PROVE Quiet'
    <2>1. PICK i \in DOMAIN calls : \E r \in {TRUE, Failure} :
            /\ calls[i].op = "deletePart" /\ Reply(i, r) /\ UNCHANGED page
            /\ UNCHANGED server \/ server' = [server EXCEPT !.there = @ \ {calls[i].args}]
      BY <1>2 DEF DeletePart, IsAsked, Handling
    <2>2. /\ server'.comments = server.comments /\ server'.files = server.files
          /\ server'.shares = server.shares /\ server'.made = server.made
      BY <2>1, PageFacts
    <2> QED BY <2>1, <2>2, ServedQuiet
  <1>3. ASSUME StoreNotes PROVE Quiet'
    <2>1. PICK i \in DOMAIN calls :
            /\ calls[i].op = "saveNotes" /\ Reply(i, calls[i].args.notes) /\ UNCHANGED page
            /\ server' = [server EXCEPT !.notes[calls[i].args.part] = calls[i].args.notes]
      BY <1>3 DEF StoreNotes, IsAsked, Handling
    <2>2. /\ server'.comments = server.comments /\ server'.files = server.files
          /\ server'.shares = server.shares /\ server'.made = server.made
      BY <2>1, PageFacts
    <2> QED BY <2>1, <2>2, ServedQuiet
  <1>4. ASSUME ListFiles PROVE Quiet'
    <2>1. PICK i \in DOMAIN calls : \E r \in {Failure, Rows(calls[i].args, server)} :
            calls[i].op \in {"extra", "overview"} /\ Reply(i, r) /\ UNCHANGED <<page, server>>
      BY <1>4 DEF ListFiles, IsAsked, Handling, Rows
    <2> QED BY <2>1, ServedQuiet
  <1>5. ASSUME ListShares PROVE Quiet'
    <2>1. PICK i \in DOMAIN calls :
            /\ calls[i].op = "shares" /\ Reply(i, server.shares[calls[i].args])
            /\ UNCHANGED <<page, server>>
      BY <1>5 DEF ListShares, IsAsked, Handling
    <2> QED BY <2>1, ServedQuiet
  <1>6. ASSUME ExportArena PROVE Quiet'
    <2>1. PICK i \in DOMAIN calls : \E r :
            calls[i].op = "arena" /\ Reply(i, r) /\ UNCHANGED <<page, server>>
      BY <1>6 DEF ExportArena, IsAsked, Handling
    <2> QED BY <2>1, ServedQuiet
  <1> QED BY <1>1, <1>2, <1>3, <1>4, <1>5, <1>6

-------------------------------------------------------------------------------
(* The server stores a file, a share link or a comment.                    *)

LEMMA StoreFileQuiet ==
  ASSUME IInv, Quiet, StoreFile
  PROVE  Quiet'
  <1>1. PICK i \in DOMAIN calls : \E r \in {TRUE, Failure} :
          /\ calls[i].op \in FileOps /\ Reply(i, r) /\ UNCHANGED page
          /\ \/ UNCHANGED server
             \/ server' = [server EXCEPT !.files[calls[i].args.sel] = @ \cup {server.made + 1}, !.made = @ + 1]
             \/ server' = [server EXCEPT !.files[calls[i].args.sel] = @ \ {calls[i].args.file}]
    BY DEF StoreFile, IsAsked, Handling, FileOps
  <1>2. PICK r \in {TRUE, Failure} : Reply(i, r)
    BY <1>1
  <1>3. /\ server'.comments = server.comments /\ server'.shares = server.shares
        /\ server'.made \in {server.made, server.made + 1}
    BY <1>1, PageFacts
  <1>4. calls[i].op \notin CommentOps \cup ShareOps \cup {"detail", "shares"}
    BY <1>1 DEF FileOps, CommentOps, ShareOps
  <1>5. Waits'
    BY <1>1, <1>2, ServedWaits DEF Quiet
  <1>6. server'.made \in Nat
    BY <1>3 DEF Quiet, CommentsTyped
  <1>7. CommentsTyped' /\ CommentsOK'
    BY <1>1, <1>2, <1>3, <1>4, <1>6, ServedComments DEF Quiet
  <1>8. SharesOK'
    BY <1>1, <1>2, <1>3, <1>4, ServedShares DEF Quiet, ShareOps
  <1>9. Out(FileOps)'
    <2>1. \E d \in Elems(calls') : d.op = calls[i].op
      BY <1>2, Replied, CallFacts
    <2> QED BY <1>1, <2>1 DEF Out
  <1>10. FilesOK'
    BY <1>9 DEF FilesOK
  <1> QED BY <1>5, <1>7, <1>8, <1>10 DEF Quiet

LEMMA StoreShareQuiet ==
  ASSUME IInv, Quiet, StoreShare
  PROVE  Quiet'
  <1>1. PICK i \in DOMAIN calls : \E r :
          /\ calls[i].op \in ShareOps /\ Reply(i, r) /\ UNCHANGED page
          /\ calls[i].op = "share" => r.of = calls[i].args.sel
          /\ \E f : \/ server' = [server EXCEPT !.shares = f, !.made = @ + 1]
                    \/ server' = [server EXCEPT !.shares = f]
    <2>1. PICK i \in DOMAIN calls :
            /\ calls[i].op \in ShareOps /\ UNCHANGED page
            /\ LET a == calls[i].args
                   new == [of |-> a.sel, id |-> server.made + 1]
               IN CASE calls[i].op = "share" ->
                         /\ server' = [server EXCEPT !.shares[a.sel] = @ \cup {new}, !.made = @ + 1]
                         /\ Reply(i, new)
                    [] calls[i].op = "unshare" ->
                         /\ server' = [server EXCEPT !.shares[a.sel] = {s \in @ : s.id # a.share}]
                         /\ Reply(i, TRUE)
      BY DEF StoreShare, IsAsked, Handling, ShareOps
    <2> DEFINE new == [of |-> calls[i].args.sel, id |-> server.made + 1]
    <2>2. new.of = calls[i].args.sel
      OBVIOUS
    <2>3. CASE calls[i].op = "share"
      <3>1. /\ server' = [server EXCEPT !.shares[calls[i].args.sel] = @ \cup {new}, !.made = @ + 1]
            /\ Reply(i, new)
        BY <2>1, <2>3
      <3> HIDE DEF new
      <3>2. \E f : server' = [server EXCEPT !.shares = f, !.made = @ + 1]
        BY <3>1
      <3> QED BY <2>1, <2>2, <2>3, <3>1, <3>2
    <2>4. CASE calls[i].op = "unshare"
      <3>1. /\ server' = [server EXCEPT !.shares[calls[i].args.sel] = {s \in @ : s.id # calls[i].args.share}]
            /\ Reply(i, TRUE)
        BY <2>1, <2>4
      <3>2. \E f : server' = [server EXCEPT !.shares = f]
        BY <3>1
      <3> QED BY <2>1, <2>4, <3>1, <3>2
    <2> QED BY <2>1, <2>3, <2>4 DEF ShareOps
  <1>2. PICK r : Reply(i, r) /\ (calls[i].op = "share" => r.of = calls[i].args.sel)
    BY <1>1
  <1>3. /\ server'.comments = server.comments /\ server'.files = server.files
        /\ server'.made \in {server.made, server.made + 1}
    BY <1>1, PageFacts
  <1>4. calls[i].op \notin CommentOps \cup FileOps \cup {"detail", "extra", "overview"}
    BY <1>1 DEF FileOps, CommentOps, ShareOps
  <1>5. Waits'
    BY <1>1, <1>2, ServedWaits DEF Quiet
  <1>6. server'.made \in Nat
    BY <1>3 DEF Quiet, CommentsTyped
  <1>7. CommentsTyped' /\ CommentsOK'
    BY <1>1, <1>2, <1>3, <1>4, <1>6, ServedComments DEF Quiet
  <1>8. FilesOK'
    BY <1>1, <1>2, <1>3, <1>4, ServedFiles DEF Quiet
  <1>9. /\ \E d \in Elems(calls') : d.op = calls[i].op
        /\ \A d \in Elems(calls') : \/ d \in Elems(calls)
                                    \/ d.op = calls[i].op /\ d.args = calls[i].args /\ d.reply = r
    BY <1>2, Replied, CallFacts
  <1>10. Out(ShareOps)'
    BY <1>1, <1>9 DEF Out
  <1>11. SharesOK'
    <2> SUFFICES ASSUME ~page.doubt, "shares" \in page.uses
                 PROVE  /\ \A c \in Elems(calls') : c.op = "share" /\ Arrived(c) => c.reply.of = c.args.sel
                        /\ page.shareUrl # Absent => page.shareUrl.of = Sel(page)
      BY <1>1, <1>10 DEF SharesOK
    <2> QED BY <1>2, <1>9 DEF Quiet, SharesOK
  <1> QED BY <1>5, <1>7, <1>8, <1>11 DEF Quiet

-------------------------------------------------------------------------------
(* The server changes the comments of a part.                              *)

LEMMA CommentLists ==
  ASSUME NEW s \in Seq(Comments)
  PROVE  /\ \A d \in Comments : Append(s, d) \in Seq(Comments) /\ Replaced(s, d) \in Seq(Comments)
         /\ \A K \in SUBSET DOMAIN s : Picked(s, K) \in Seq(Comments)
  <1>1. DOMAIN s = 1 .. Len(s) /\ Len(s) \in Nat /\ \A k \in 1 .. Len(s) : s[k] \in Comments
    BY LenProperties, ElementOfSeq
  <1>2. ASSUME NEW d \in Comments PROVE Append(s, d) \in Seq(Comments) /\ Replaced(s, d) \in Seq(Comments)
    <2>1. Append(s, d) \in Seq(Comments)
      BY AppendProperties
    <2> DEFINE e(k) == IF SameComment(s[k], d) THEN d ELSE s[k]
    <2>2. Replaced(s, d) = [k \in 1 .. Len(s) |-> e(k)]
      BY <1>1 DEF Replaced
    <2>3. \A k \in 1 .. Len(s) : e(k) \in Comments
      BY <1>1
    <2> HIDE DEF e
    <2>4. [k \in 1 .. Len(s) |-> e(k)] \in Seq(Comments)
      BY <1>1, <2>3, IsASeq
    <2> QED BY <2>1, <2>2, <2>4
  <1>3. ASSUME NEW K \in SUBSET DOMAIN s PROVE Picked(s, K) \in Seq(Comments)
    <2> DEFINE t == Picked(s, K)
    <2>1. IsSequence(s)
      BY DEF IsSequence
    <2>2. IsSequence(t) /\ Elems(t) = {s[k] : k \in K}
      BY <2>1, PickedIs
    <2> HIDE DEF t
    <2>3. PICK T : t \in Seq(T)
      BY <2>2 DEF IsSequence
    <2>4. Len(t) \in Nat /\ DOMAIN t = 1 .. Len(t) /\ t = [k \in 1 .. Len(t) |-> t[k]]
      BY <2>3, LenProperties
    <2>5. \A k \in 1 .. Len(t) : t[k] \in Comments
      BY <1>1, <2>2, <2>4 DEF Elems
    <2>6. [k \in 1 .. Len(t) |-> t[k]] \in Seq(Comments)
      BY <2>4, <2>5, IsASeq
    <2> QED BY <2>4, <2>6 DEF t
  <1> QED BY <1>2, <1>3

LEMMA MadeComment ==
  /\ \A p \in Parts, n \in Nat : [of |-> p, id |-> n + 1, v |-> 0] \in Comments
  /\ \A c \in Comments : [c EXCEPT !.v = @ + 1] \in Comments
  BY DEF Comments

\* What the server does to the comments of a part it has been asked to change.
LEMMA StoredComment ==
  ASSUME IInv, CommentsTyped, StoreComment
  PROVE  \E i \in DOMAIN calls : \E r, s :
           /\ calls[i].op \in CommentOps /\ calls[i].reply = Absent /\ Reply(i, r) /\ UNCHANGED page
           /\ server'.files = server.files /\ server'.shares = server.shares /\ server'.made \in Nat
           /\ \/ r = Failure /\ server' = server
              \/ /\ IF calls[i].op = "deleteComment" THEN r \in Seq(Comments) ELSE r \in Comments
                 /\ s = Afterwards(calls[i], r, server.comments[calls[i].args.part]) /\ s \in Seq(Comments)
                 /\ server'.comments = [server.comments EXCEPT ![calls[i].args.part] = s]
  <1>1. PICK i \in DOMAIN calls :
          /\ calls[i].op \in CommentOps /\ calls[i].reply = Absent /\ UNCHANGED page
          /\ LET a == calls[i].args
                 s == server.comments[a.part]
                 new == [of |-> a.part, id |-> server.made + 1, v |-> 0]
                 changed == [a.comment EXCEPT !.v = @ + 1]
                 others == Picked(s, {k \in DOMAIN s : ~SameComment(s[k], a.comment)})
             IN CASE calls[i].op = "addComment" ->
                       /\ server' = [server EXCEPT !.comments[a.part] = Append(s, new), !.made = @ + 1]
                       /\ Reply(i, new)
                  [] calls[i].op = "changeComment" ->
                       IF others = s THEN Reply(i, Failure) /\ UNCHANGED server
                       ELSE /\ server' = [server EXCEPT !.comments[a.part] = Replaced(s, changed)]
                            /\ Reply(i, changed)
                  [] calls[i].op = "deleteComment" ->
                       IF others = s THEN Reply(i, Failure) /\ UNCHANGED server
                       ELSE server' = [server EXCEPT !.comments[a.part] = others] /\ Reply(i, others)
    BY DEF StoreComment, IsAsked, Handling, CommentOps
  <1> DEFINE a == calls[i].args
             s == server.comments[a.part]
             new == [of |-> a.part, id |-> server.made + 1, v |-> 0]
             changed == [a.comment EXCEPT !.v = @ + 1]
             places == {k \in DOMAIN s : ~SameComment(s[k], a.comment)}
             others == Picked(s, places)
  <1>2. CommentTyped(calls[i])
    BY CallFacts DEF CommentsTyped
  <1>3. a.part \in Parts /\ (calls[i].op # "addComment" => a.comment \in Comments)
    BY <1>1, <1>2 DEF CommentTyped
  <1>4. s \in Seq(Comments) /\ server.made \in Nat /\ server.comments \in [Parts -> Seq(Comments)]
    BY <1>3 DEF CommentsTyped
  <1>5. new \in Comments /\ (calls[i].op # "addComment" => changed \in Comments)
    <2>1. new \in Comments
      BY <1>3, <1>4, MadeComment
    <2>2. calls[i].op # "addComment" => changed \in Comments
      BY <1>3, MadeComment
    <2> QED BY <2>1, <2>2
  <1>6. others \in Seq(Comments)
    <2>1. places \in SUBSET DOMAIN s
      OBVIOUS
    <2> HIDE DEF places, s
    <2> QED BY <1>4, <2>1, CommentLists
  <1> DEFINE P(r, t) ==
               /\ calls[i].op \in CommentOps /\ calls[i].reply = Absent /\ Reply(i, r) /\ UNCHANGED page
               /\ server'.files = server.files /\ server'.shares = server.shares /\ server'.made \in Nat
               /\ \/ r = Failure /\ server' = server
                  \/ /\ IF calls[i].op = "deleteComment" THEN r \in Seq(Comments) ELSE r \in Comments
                     /\ t = Afterwards(calls[i], r, s) /\ t \in Seq(Comments)
                     /\ server'.comments = [server.comments EXCEPT ![a.part] = t]
  <1> HIDE DEF new, changed, others, s, places
  <1>7. ASSUME Reply(i, Failure), UNCHANGED server PROVE P(Failure, <<>>)
    BY <1>1, <1>4, <1>7
  <1>8. CASE calls[i].op = "addComment"
    <2>1. server' = [server EXCEPT !.comments[a.part] = Append(s, new), !.made = @ + 1] /\ Reply(i, new)
      BY <1>1, <1>8 DEF new, s
    <2>2. /\ server'.files = server.files /\ server'.shares = server.shares /\ server'.made = server.made + 1
          /\ server'.comments = [server.comments EXCEPT ![a.part] = Append(s, new)]
      BY <2>1, PageFacts
    <2>3. Append(s, new) \in Seq(Comments)
      BY <1>4, <1>5, CommentLists
    <2>4. P(new, Append(s, new))
      BY <1>1, <1>4, <1>5, <1>8, <2>1, <2>2, <2>3 DEF Afterwards
    <2> QED BY <2>4 DEF s
  <1>9. CASE calls[i].op = "changeComment"
    <2>1. \/ Reply(i, Failure) /\ UNCHANGED server
          \/ server' = [server EXCEPT !.comments[a.part] = Replaced(s, changed)] /\ Reply(i, changed)
      BY <1>1, <1>9 DEF changed, others, places, s
    <2>2. CASE Reply(i, Failure) /\ UNCHANGED server
      BY <1>7, <2>2 DEF s
    <2>3. CASE server' = [server EXCEPT !.comments[a.part] = Replaced(s, changed)] /\ Reply(i, changed)
      <3>1. /\ server'.files = server.files /\ server'.shares = server.shares /\ server'.made = server.made
            /\ server'.comments = [server.comments EXCEPT ![a.part] = Replaced(s, changed)]
        BY <2>3, PageFacts
      <3>2. Replaced(s, changed) \in Seq(Comments)
        BY <1>4, <1>5, <1>9, CommentLists
      <3>3. P(changed, Replaced(s, changed))
        BY <1>1, <1>4, <1>5, <1>9, <2>3, <3>1, <3>2 DEF Afterwards
      <3> QED BY <3>3 DEF s
    <2> QED BY <2>1, <2>2, <2>3
  <1>10. CASE calls[i].op = "deleteComment"
    <2>1. \/ Reply(i, Failure) /\ UNCHANGED server
          \/ server' = [server EXCEPT !.comments[a.part] = others] /\ Reply(i, others)
      BY <1>1, <1>10 DEF others, places, s
    <2>2. CASE Reply(i, Failure) /\ UNCHANGED server
      BY <1>7, <2>2 DEF s
    <2>3. CASE server' = [server EXCEPT !.comments[a.part] = others] /\ Reply(i, others)
      <3>1. /\ server'.files = server.files /\ server'.shares = server.shares /\ server'.made = server.made
            /\ server'.comments = [server.comments EXCEPT ![a.part] = others]
        BY <2>3, PageFacts
      <3>2. P(others, others)
        BY <1>1, <1>4, <1>6, <1>10, <2>3, <3>1 DEF Afterwards
      <3> QED BY <3>2 DEF s
    <2> QED BY <2>1, <2>2, <2>3
  <1> QED BY <1>1, <1>8, <1>9, <1>10 DEF CommentOps

LEMMA StoreCommentQuiet ==
  ASSUME IInv, Quiet, StoreComment
  PROVE  Quiet'
  <1>0. PICK i \in DOMAIN calls : \E r, s :
          /\ calls[i].op \in CommentOps /\ calls[i].reply = Absent /\ Reply(i, r) /\ UNCHANGED page
          /\ server'.files = server.files /\ server'.shares = server.shares /\ server'.made \in Nat
          /\ \/ r = Failure /\ server' = server
             \/ /\ IF calls[i].op = "deleteComment" THEN r \in Seq(Comments) ELSE r \in Comments
                /\ s = Afterwards(calls[i], r, server.comments[calls[i].args.part]) /\ s \in Seq(Comments)
                /\ server'.comments = [server.comments EXCEPT ![calls[i].args.part] = s]
    BY StoredComment DEF Quiet
  <1>1. PICK r, s :
          /\ calls[i].op \in CommentOps /\ calls[i].reply = Absent /\ Reply(i, r) /\ UNCHANGED page
          /\ server'.files = server.files /\ server'.shares = server.shares /\ server'.made \in Nat
          /\ \/ r = Failure /\ server' = server
             \/ /\ IF calls[i].op = "deleteComment" THEN r \in Seq(Comments) ELSE r \in Comments
                /\ s = Afterwards(calls[i], r, server.comments[calls[i].args.part]) /\ s \in Seq(Comments)
                /\ server'.comments = [server.comments EXCEPT ![calls[i].args.part] = s]
    BY <1>0
  <1>2. CASE r = Failure /\ server' = server
    BY <1>1, <1>2, ServedQuiet
  <1>3. CASE /\ IF calls[i].op = "deleteComment" THEN r \in Seq(Comments) ELSE r \in Comments
             /\ s = Afterwards(calls[i], r, server.comments[calls[i].args.part]) /\ s \in Seq(Comments)
             /\ server'.comments = [server.comments EXCEPT ![calls[i].args.part] = s]
    <2>1. calls[i].op \notin FileOps \cup ShareOps \cup {"detail", "extra", "overview", "shares"}
      BY <1>1 DEF FileOps, CommentOps, ShareOps
    <2>2. Waits'
      BY <1>1, ServedWaits DEF Quiet
    <2>3. FilesOK'
      BY <1>1, <2>1, ServedFiles DEF Quiet
    <2>4. SharesOK'
      BY <1>1, <2>1, ServedShares DEF Quiet, ShareOps
    <2>5. calls[i] \in Elems(calls) /\ KindOf(calls[i]) = "comment" /\ CommentTyped(calls[i])
      BY <1>1, CallFacts DEF KindOf, Quiet, CommentsTyped
    <2>6. calls[i].args.part \in Parts /\ r \notin {Absent}
      BY <1>1, <1>3, <2>5, PartAssumption DEF CommentTyped
    <2>7. PICK d \in Elems(calls') : d.op = calls[i].op /\ d.args = calls[i].args /\ d.reply = r
      <3>1. IsSequence(calls) /\ DOMAIN calls[i] = CallFields
        BY CallFacts
      <3> QED BY <1>1, <3>1, Answered
    <2>8. \A c \in Elems(calls') : c \in Elems(calls) \/ (c.op = calls[i].op /\ c.args = calls[i].args /\ c.reply = r)
      BY <1>1, Replied
    <2>9. \A c : c.op = calls[i].op /\ c.args = calls[i].args => KindOf(c) = "comment"
      BY <2>5 DEF KindOf
    <2>10. \A c \in Elems(calls') : KindOf(c) = "comment" => c = d
      BY <2>2, <2>7, <2>9, Alone DEF Waits
    <2>11. CommentsTyped'
      <3>1. \A c : c.op = calls[i].op /\ c.args = calls[i].args /\ c.reply = r => CommentTyped(c)
        BY <1>1, <1>3, <2>5 DEF CommentTyped, CommentOps
      <3>2. \A c \in Elems(calls') : CommentTyped(c)
        BY <2>8, <3>1 DEF Quiet, CommentsTyped
      <3>3. server'.comments \in [Parts -> Seq(Comments)]
        BY <1>3, <2>6 DEF Quiet, CommentsTyped
      <3> QED BY <1>1, <3>2, <3>3 DEF Quiet, CommentsTyped, CommentTyped
    <2>12. CommentsOK'
      <3> SUFFICES ASSUME ~page.doubt
                   PROVE  (\A c \in Elems(calls') : CommentOK(c)') /\ Due("comment")'
        BY <1>1 DEF CommentsOK
      <3>1. /\ Shown(page) /\ calls[i].args.part = page.part /\ page.comments = server.comments[page.part]
        BY <1>1, <2>5 DEF Quiet, CommentsOK, CommentOK
      <3>2. Due("comment")'
        BY <2>7, <2>9 DEF Due
      <3>3. CommentOK(d)'
        <4>1. server'.comments[page.part] = s
          BY <1>3, <2>6, <3>1 DEF Quiet, CommentsTyped
        <4>2. s = Afterwards(d, d.reply, page.comments)
          BY <1>3, <2>7, <3>1 DEF Afterwards
        <4>3. KindOf(d) = "comment"
          BY <2>7, <2>9
        <4> QED BY <1>1, <2>6, <2>7, <3>1, <4>1, <4>2, <4>3 DEF CommentOK, Shown
      <3>4. ASSUME NEW c \in Elems(calls'), KindOf(c) # "comment" PROVE CommentOK(c)'
        <4>1. ~Due("load")'
          BY <1>1, <2>2, <3>1 DEF Waits, Shown
        <4> QED BY <3>4, <4>1 DEF CommentOK, Due
      <3> QED BY <2>10, <3>2, <3>3, <3>4
    <2> QED BY <2>2, <2>3, <2>4, <2>11, <2>12 DEF Quiet
  <1> QED BY <1>1, <1>2, <1>3

-------------------------------------------------------------------------------
(* The user asks for something.                                            *)

\* The flags that are up were up, or have just been raised for a request op.
Raised(p, q, op) ==
  /\ q.notesSaving => p.notesSaving \/ op = "saveNotes"
  /\ q.refreshing  => p.refreshing \/ op = "refresh"
  /\ q.uploading   => p.uploading \/ op = "upload"
  /\ q.sharing     => p.sharing \/ op = "share"
  /\ q.arenaBusy # Absent => p.arenaBusy # Absent \/ op = "arena"
  /\ q.commentSaving = (p.commentSaving \/ op \in CommentOps)

SameLists(p, q) == SameComments(p, q) /\ SameFiles(p, q) /\ SameShares(p, q)

\* The user asks for something, which changes none of the lists shown.
LEMMA AskedQuiet ==
  ASSUME IInv, Quiet, NEW STATE q, NEW op, NEW STATE args, AskFor(q, Call(op, args)),
         SamePart(page, q), SameLists(page, q), Raised(page, q, op), op # "detail",
         op \in CommentOps =>
           /\ ~page.commentSaving /\ args.part = page.part
           /\ op # "addComment" => args.comment \in Comments
  PROVE  Quiet'
  <1> DEFINE c == Call(op, args)
  <1>1. /\ page' = q /\ calls' = calls \o <<c>> /\ UNCHANGED server /\ Shown(page)
        /\ c.op = op /\ c.args = args /\ c.reply = Absent
    BY NewCall DEF AskFor, Show, Send
  <1> HIDE DEF c
  <1>2. Elems(calls') = Elems(calls) \cup {c} /\ Same({c.op})
    BY <1>1, Asked
  <1>3. KindOf(c) = IF op \in CommentOps THEN "comment" ELSE "other"
    BY <1>1 DEF KindOf
  <1>4. /\ SamePart(page, page') /\ SameComments(page, page') /\ SameFiles(page, page') /\ SameShares(page, page')
        /\ (Shown(page') <=> Shown(page)) /\ Sel(page') = Sel(page) /\ page'.url = page.url
        /\ page'.part = page.part /\ page'.loading = page.loading /\ page'.uses = page.uses
        /\ page.doubt => page'.doubt
    BY <1>1, SamePartShows DEF SameLists, SamePart
  <1>5. \A ops : Out(ops)' <=> Out(ops) \/ op \in ops
    BY <1>1, <1>2 DEF Out
  <1>6. /\ Due("load")' <=> Due("load")
        /\ Due("comment")' <=> Due("comment") \/ op \in CommentOps
    BY <1>2, <1>3 DEF Due
  <1>7. Waits'
    <2>1. Solo(calls')
      <3>1. IsSequence(calls) /\ IsSequence(<<c>>) /\ Elems(<<c>>) = {c} /\ Solo(<<c>>) /\ Solo(calls)
        BY PageFacts, Few, SoloFew DEF Quiet, Waits
      <3>2. \A e \in Elems(calls) : KindOf(e) = KindOf(c) => KindOf(e) = "other"
        BY <1>3 DEF Quiet, Waits, Due
      <3> QED BY <1>1, <3>1, <3>2, SoloJoined
    <2>2. page'.commentSaving <=> page.commentSaving \/ op \in CommentOps
      BY <1>1 DEF Raised
    <2>3. /\ page'.notesSaving => Out({"saveNotes"})'
          /\ page'.refreshing  => Out({"refresh"})'
          /\ page'.uploading   => Out({"upload"})'
          /\ page'.sharing     => Out({"share"})'
          /\ page'.arenaBusy # Absent => Out({"arena"})'
      BY <1>1, <1>5 DEF Raised, Quiet, Waits
    <2>4. /\ page'.loading => Due("load")'
          /\ Due("load")' => page'.loading
      BY <1>4, <1>6 DEF Quiet, Waits
    <2>5. /\ page'.commentSaving => Due("comment")'
          /\ Due("comment")' => page'.commentSaving
      BY <1>6, <2>2 DEF Quiet, Waits
    <2> QED BY <2>1, <2>3, <2>4, <2>5 DEF Waits
  <1>8. CommentsTyped'
    <2>1. c.op \in CommentOps => c.args.part \in Parts
      BY <1>1, PageFacts
    <2>2. CommentTyped(c)
      BY <1>1, <2>1 DEF CommentTyped, Arrived
    <2> QED BY <1>1, <1>2, <1>4, <2>2 DEF Quiet, CommentsTyped, CommentTyped, SameComments
  <1>9. CommentsOK'
    <2> SUFFICES ASSUME ~page'.doubt
                 PROVE  /\ \A d \in Elems(calls') : CommentOK(d)'
                        /\ ~Due("comment")' => page'.comments = server.comments[page'.part]
      BY <1>1 DEF CommentsOK
    <2>1. ~page.doubt
      BY <1>4
    <2>2. \A d : CommentOK(d) => CommentOK(d)'
      BY <1>1, <1>4 DEF CommentOK, SameComments
    <2>3. CommentOK(c)
      <3>1. ASSUME op \in CommentOps PROVE ~Due("comment") /\ page.comments = server.comments[page.part]
        BY <1>1, <2>1, <3>1 DEF Quiet, Waits, CommentsOK
      <3> QED BY <1>1, <1>3, <3>1 DEF CommentOK, Arrived
    <2>4. ~Due("comment")' => page'.comments = server.comments[page'.part]
      BY <1>1, <1>4, <1>6, <2>1 DEF Quiet, CommentsOK, SameComments
    <2> QED BY <1>2, <2>1, <2>2, <2>3, <2>4 DEF Quiet, CommentsOK
  <1>10. FilesOK'
    <2> SUFFICES ASSUME ~page.doubt, "files" \in page.uses
                 PROVE  /\ Out(FileOps)' \/ Out({"extra"})' \/ page.extra = Rows(Sel(page), server)
                        /\ Out(FileOps)' \/ Out({"overview"})' \/ page.overview = Rows(page.url, server)
                        /\ \A d \in Elems(calls') : d.op \in {"extra", "overview"} /\ Arrived(d)
                                                      => d.reply = Rows(d.args, server) \/ Out(FileOps)'
      BY <1>1, <1>4 DEF FilesOK, SameFiles
    <2>1. ~Arrived(c)
      BY <1>1 DEF Arrived
    <2> QED BY <1>2, <1>5, <2>1 DEF Quiet, FilesOK
  <1>11. SharesOK'
    <2> SUFFICES ASSUME ~page.doubt, "shares" \in page.uses
                 PROVE  /\ Out(ShareOps)' \/ Out({"shares"})' \/ page.shareLinks = server.shares[Sel(page)]
                        /\ \A d \in Elems(calls') : d.op = "shares" /\ Arrived(d)
                                                      => d.reply = server.shares[d.args] \/ Out(ShareOps)'
                        /\ \A d \in Elems(calls') : d.op = "share" /\ Arrived(d) => d.reply.of = d.args.sel
                        /\ page.shareUrl # Absent => page.shareUrl.of = Sel(page)
      BY <1>1, <1>4 DEF SharesOK, SameShares
    <2>1. ~Arrived(c)
      BY <1>1 DEF Arrived
    <2> QED BY <1>2, <1>5, <2>1 DEF Quiet, SharesOK
  <1> QED BY <1>7, <1>8, <1>9, <1>10, <1>11 DEF Quiet

LEMMA AskQuiet ==
  ASSUME IInv, Quiet,
         \/ HandleRefreshFiles \/ HandleDeletePart \/ SaveNotes \/ ClearNotes
         \/ HandleExtraUpload \/ HandleExtraDelete \/ CreateShareLink \/ RevokeShareLink
         \/ \E kind \in {"bom", "links"} : DownloadArenaCsv(kind)
  PROVE  Quiet'
  <1> DEFINE Plain(q, op) == SamePart(page, q) /\ SameLists(page, q) /\ Raised(page, q, op)
             ops == {"refresh", "deletePart", "saveNotes", "upload", "deleteFile", "share", "unshare", "arena"}
  <1>1. ASSUME NEW STATE q, NEW op \in ops, NEW STATE args, AskFor(q, Call(op, args)), Plain(q, op)
        PROVE  Quiet'
    <2>1. op # "detail" /\ op \notin CommentOps
      BY DEF CommentOps
    <2> QED BY <1>1, <2>1, AskedQuiet
  <1>2. \A op \in ops : Plain(page, op)
    BY PageFacts DEF SamePart, SameLists, SameComments, SameFiles, SameShares, Raised, CommentOps
  <1>3. /\ Plain([page EXCEPT !.refreshing = TRUE], "refresh")
        /\ Plain([page EXCEPT !.notesSaving = TRUE], "saveNotes")
        /\ Plain([page EXCEPT !.notesSaving = TRUE, !.notes = NoText], "saveNotes")
        /\ Plain([page EXCEPT !.uploading = TRUE], "upload")
        /\ Plain([page EXCEPT !.sharing = TRUE], "share")
        /\ \A kind : Plain([page EXCEPT !.arenaBusy = kind], "arena")
    BY PageFacts DEF SamePart, SameLists, SameComments, SameFiles, SameShares, Raised, CommentOps, PartFields
  <1> HIDE DEF Plain
  <1>4. CASE HandleRefreshFiles
    BY <1>1, <1>3, <1>4 DEF HandleRefreshFiles
  <1>5. CASE HandleDeletePart
    BY <1>1, <1>2, <1>5 DEF HandleDeletePart
  <1>6. CASE SaveNotes
    BY <1>1, <1>3, <1>6 DEF SaveNotes
  <1>7. CASE ClearNotes
    BY <1>1, <1>3, <1>7 DEF ClearNotes
  <1>8. CASE HandleExtraUpload
    BY <1>1, <1>3, <1>8 DEF HandleExtraUpload
  <1>9. CASE HandleExtraDelete
    BY <1>1, <1>2, <1>9 DEF HandleExtraDelete
  <1>10. CASE CreateShareLink
    BY <1>1, <1>3, <1>10 DEF CreateShareLink
  <1>11. CASE RevokeShareLink
    BY <1>1, <1>2, <1>11 DEF RevokeShareLink
  <1>12. ASSUME NEW kind, DownloadArenaCsv(kind) PROVE Quiet'
    BY <1>1, <1>3, <1>12 DEF DownloadArenaCsv
  <1> QED BY <1>4, <1>5, <1>6, <1>7, <1>8, <1>9, <1>10, <1>11, <1>12

LEMMA CommentAskQuiet ==
  ASSUME IInv, Quiet, AddComment \/ ChangeComment \/ DeleteComment
  PROVE  Quiet'
  <1>1. ASSUME NEW op \in CommentOps, NEW STATE comment, op # "addComment" => comment \in Comments,
               CommentRequest(op, [part |-> page.part, comment |-> comment])
        PROVE  Quiet'
    <2> DEFINE q == [page EXCEPT !.commentSaving = TRUE]
               args == [part |-> page.part, comment |-> comment]
    <2>1. AskFor(q, Call(op, args)) /\ ~page.commentSaving
      BY <1>1 DEF CommentRequest
    <2>2. args.part = page.part /\ args.comment = comment
      OBVIOUS
    <2>3. SamePart(page, q) /\ SameLists(page, q) /\ Raised(page, q, op)
      BY PageFacts DEF SamePart, SameLists, SameComments, SameFiles, SameShares, Raised, PartFields
    <2>4. op # "detail"
      BY DEF CommentOps
    <2> HIDE DEF q, args
    <2> QED BY <1>1, <2>1, <2>2, <2>3, <2>4, AskedQuiet
  <1>2. CASE AddComment
    BY <1>1, <1>2 DEF AddComment, CommentOps
  <1>3. CASE ChangeComment \/ DeleteComment
    <2>1. PICK k \in DOMAIN page.comments : \E op \in {"changeComment", "deleteComment"} :
            CommentRequest(op, [part |-> page.part, comment |-> page.comments[k]])
      BY <1>3 DEF ChangeComment, DeleteComment
    <2>2. page.comments[k] \in Comments
      BY LenProperties, ElementOfSeq DEF Quiet, CommentsTyped
    <2> QED BY <1>1, <2>1, <2>2 DEF CommentOps
  <1> QED BY <1>2, <1>3

-------------------------------------------------------------------------------
(* An answer is taken.                                                     *)

\* The flags that are up were up, and not for the request c.
Lowered(p, q, c) ==
  /\ q.notesSaving => p.notesSaving /\ c.op # "saveNotes"
  /\ q.refreshing  => p.refreshing /\ c.op # "refresh"
  /\ q.uploading   => p.uploading /\ c.op # "upload"
  /\ q.sharing     => p.sharing /\ c.op # "share"
  /\ q.arenaBusy # Absent => p.arenaBusy # Absent /\ c.op # "arena"
  /\ (q.commentSaving => p.commentSaving /\ KindOf(c) # "comment")
  /\ (p.commentSaving /\ KindOf(c) # "comment" => q.commentSaving)
  /\ (q.loading => p.loading /\ KindOf(c) # "load")
  /\ (p.loading /\ KindOf(c) # "load" => q.loading)

LEMMA OthersAre ==
  ASSUME IInv, NEW i \in DOMAIN calls
  PROVE  \A c \in Elems(Others(i)) : \E j \in DOMAIN calls \ {i} : c = calls[j]
  <1>1. /\ Len(calls) \in Nat /\ DOMAIN calls = 1 .. Len(calls)
        /\ Others(i) = [j \in 1 .. Len(calls) - 1 |-> calls[IF j < i THEN j ELSE j + 1]]
    BY LenProperties DEF IInv, IsSequence, Others
  <1>2. ASSUME NEW c \in Elems(Others(i)) PROVE \E j \in DOMAIN calls \ {i} : c = calls[j]
    <2>1. PICK k \in 1 .. Len(calls) - 1 : c = calls[IF k < i THEN k ELSE k + 1]
      BY <1>1 DEF Elems
    <2> DEFINE j == IF k < i THEN k ELSE k + 1
    <2>2. j \in DOMAIN calls \ {i} /\ c = calls[j]
      BY <1>1, <2>1
    <2> QED BY <2>2
  <1> QED BY <1>2

\* An answer is taken, and requests join that no flag waits for.
LEMMA TakenWaits ==
  ASSUME IInv, Waits, NEW i \in DOMAIN calls, NEW cs, IsSequence(cs), Solo(cs),
         \A c \in Elems(cs) : KindOf(c) = "other", calls' = Others(i) \o cs, Lowered(page, page', calls[i])
  PROVE  Waits'
  <1>1. /\ Elems(calls) \subseteq Elems(calls') \cup {calls[i]}
        /\ \A c \in Elems(calls') : c \in Elems(Others(i)) \/ c \in Elems(cs)
        /\ Elems(Others(i)) \subseteq Elems(calls)
    BY AnswerTaken
  <1>2. /\ Solo(Others(i))
        /\ KindOf(calls[i]) # "other" => \A c \in Elems(Others(i)) : KindOf(c) # KindOf(calls[i])
    BY SoloOthers, PageFacts DEF Waits
  <1>3. Solo(calls')
    <2>1. IsSequence(Others(i))
      BY Remaining, PageFacts
    <2> QED BY <1>2, <2>1, SoloJoined
  <1>4. ASSUME NEW sort \in {"load", "comment"}
        PROVE  /\ Due(sort)' => Due(sort) /\ KindOf(calls[i]) # sort
               /\ Due(sort) /\ KindOf(calls[i]) # sort => Due(sort)'
    BY <1>1, <1>2 DEF Due
  <1>5. \A ops : Out(ops) /\ calls[i].op \notin ops => Out(ops)'
    BY <1>1 DEF Out
  <1>6. /\ page'.notesSaving => Out({"saveNotes"})'
        /\ page'.refreshing  => Out({"refresh"})'
        /\ page'.uploading   => Out({"upload"})'
        /\ page'.sharing     => Out({"share"})'
        /\ page'.arenaBusy # Absent => Out({"arena"})'
    BY <1>5 DEF Waits, Lowered
  <1>7. /\ (page'.loading => Due("load")') /\ (Due("load")' => page'.loading)
        /\ (page'.commentSaving => Due("comment")') /\ (Due("comment")' => page'.commentSaving)
    BY <1>4 DEF Waits, Lowered
  <1> QED BY <1>3, <1>6, <1>7 DEF Waits

\* The answer was no comment's, and no new request is one or loads the part.
LEMMA TakenComments ==
  ASSUME IInv, CommentsTyped, CommentsOK, UNCHANGED server, NEW i \in DOMAIN calls, NEW cs, IsSequence(cs),
         \A c \in Elems(cs) : c.op \notin CommentOps \cup {"detail"}, calls' = Others(i) \o cs,
         KindOf(calls[i]) # "comment", SamePart(page, page'), SameComments(page, page')
  PROVE  CommentsTyped' /\ CommentsOK'
  <1>1. /\ Elems(calls) \subseteq Elems(calls') \cup {calls[i]}
        /\ Elems(calls') \subseteq Elems(calls) \cup Elems(cs)
    BY AnswerTaken
  <1>2. Due("comment") => Due("comment")'
    BY <1>1 DEF Due
  <1>3. server'.made \in Nat
    BY DEF CommentsTyped
  <1> QED BY <1>1, <1>2, <1>3, OtherComments

\* With a doubt nothing is said of the lists.
LEMMA DoubtQuiet ==
  ASSUME Waits', CommentsTyped', page'.doubt
  PROVE  Quiet'
  BY DEF Quiet, CommentsOK, FilesOK, SharesOK

LEMMA TakenQuiet ==
  ASSUME IInv, Quiet, UNCHANGED server, NEW i \in DOMAIN calls, Take(i), SamePart(page, page'),
         SameLists(page, page'), Lowered(page, page', calls[i]), KindOf(calls[i]) = "other",
         calls[i].op \in {"saveNotes", "arena", "deletePart", "refresh", "detail"}
  PROVE  Quiet'
  <1>1. calls' = Others(i) \o <<>>
    BY OnlyTaken
  <1>2. IsSequence(<<>>) /\ Elems(<<>>) = {} /\ Solo(<<>>)
    BY Few, SoloFew
  <1>3. Waits'
    BY <1>1, <1>2, TakenWaits DEF Quiet
  <1>4. CommentsTyped' /\ CommentsOK'
    BY <1>1, <1>2, TakenComments DEF Quiet, SameLists
  <1>5. Same({calls[i].op})
    BY <1>1, <1>2, AnswerTaken
  <1>6. FilesOK'
    <2>1. {calls[i].op} \cap (FileOps \cup {"extra", "overview"}) = {}
      BY DEF FileOps
    <2> QED BY <1>5, <2>1, OtherFiles DEF Quiet, SameLists
  <1>7. SharesOK'
    <2>1. {calls[i].op} \cap (ShareOps \cup {"shares"}) = {}
      BY DEF ShareOps
    <2> QED BY <1>5, <2>1, OtherShares DEF Quiet, SameLists
  <1> QED BY <1>3, <1>4, <1>6, <1>7 DEF Quiet

LEMMA PlainAnswerQuiet ==
  ASSUME IInv, Quiet, NotesAnswer \/ ArenaAnswer
  PROVE  Quiet'
  <1>1. ASSUME NotesAnswer PROVE Quiet'
    <2> DEFINE f == [page EXCEPT !.notesSaving = FALSE]
    <2>1. PICK i \in DOMAIN calls :
            /\ calls[i].op = "saveNotes" /\ Take(i) /\ UNCHANGED server
            /\ page' = IF Failed(i) THEN f
                       ELSE InDoubt([f EXCEPT !.notes = calls[i].reply, !.saved = calls[i].reply],
                                    page.part # calls[i].args.part)
      BY <1>1 DEF NotesAnswer, Show, Answering, IsAnswered
    <2>2. KindOf(calls[i]) = "other"
      BY <2>1 DEF KindOf, CommentOps
    <2>3. SamePart(page, page') /\ SameLists(page, page') /\ Lowered(page, page', calls[i])
      BY <2>1, <2>2, PageFacts
         DEF SamePart, SameLists, SameComments, SameFiles, SameShares, Lowered, PartFields, InDoubt
    <2> QED BY <2>1, <2>2, <2>3, TakenQuiet
  <1>2. ASSUME ArenaAnswer PROVE Quiet'
    <2>1. PICK i \in DOMAIN calls :
            calls[i].op = "arena" /\ page' = [page EXCEPT !.arenaBusy = Absent] /\ Take(i) /\ UNCHANGED server
      BY <1>2 DEF ArenaAnswer, Show, Answering, IsAnswered, ArenaFree
    <2>2. KindOf(calls[i]) = "other"
      BY <2>1 DEF KindOf, CommentOps
    <2>3. SamePart(page, page') /\ SameLists(page, page') /\ Lowered(page, page', calls[i])
      BY <2>1, <2>2, PageFacts
         DEF SamePart, SameLists, SameComments, SameFiles, SameShares, Lowered, PartFields
    <2> QED BY <2>1, <2>2, <2>3, TakenQuiet
  <1> QED BY <1>1, <1>2

\* What comes of the comments is what the answer says.
LEMMA CommentAnswerQuiet ==
  ASSUME IInv, Quiet, CommentAnswer
  PROVE  Quiet'
  <1> DEFINE f == [page EXCEPT !.commentSaving = FALSE]
  <1>1. PICK i \in DOMAIN calls :
          /\ calls[i].op \in CommentOps /\ calls[i].reply # Absent /\ Take(i) /\ UNCHANGED server
          /\ page' = IF Failed(i) THEN [f EXCEPT !.doubt = TRUE]
                     ELSE InDoubt([f EXCEPT !.comments = CommentsAfter(i, @)], page.part # calls[i].args.part)
    BY DEF CommentAnswer, Show, Answering, IsAnswered, CommentOps
  <1>2. /\ calls' = Others(i) \o <<>> /\ IsSequence(<<>>) /\ Elems(<<>>) = {} /\ Solo(<<>>)
        /\ calls[i] \in Elems(calls) /\ KindOf(calls[i]) = "comment"
    BY <1>1, OnlyTaken, Few, SoloFew, CallFacts DEF KindOf
  <1>3. /\ SamePart(page, page') /\ SameFiles(page, page') /\ SameShares(page, page')
        /\ Lowered(page, page', calls[i])
        /\ ~Failed(i) => /\ page'.comments = CommentsAfter(i, page.comments)
                         /\ ~page'.doubt => ~page.doubt /\ page.part = calls[i].args.part
        /\ Failed(i) => page'.comments = page.comments /\ page'.doubt
    BY <1>1, <1>2, PageFacts
       DEF SamePart, SameFiles, SameShares, Lowered, PartFields, InDoubt, CommentOps
  <1>4. Waits'
    BY <1>2, <1>3, TakenWaits DEF Quiet
  <1>5. /\ Elems(calls') \subseteq Elems(calls)
        /\ KindOf(calls[i]) # "other" => \A c \in Elems(Others(i)) : KindOf(c) # KindOf(calls[i])
        /\ \A c \in Elems(calls') : c \in Elems(Others(i)) \/ c \in Elems(<<>>)
    BY <1>2, AnswerTaken, SoloOthers, PageFacts DEF Quiet, Waits
  <1>6. ~Due("comment")'
    BY <1>2, <1>5 DEF Due
  <1>7. ~Failed(i) => /\ Arrived(calls[i])
                      /\ page'.comments = Afterwards(calls[i], calls[i].reply, page.comments)
    BY <1>1, <1>3 DEF CommentsAfter, Afterwards, CommentOps, Arrived, Failed
  <1>8. CommentsTyped'
    <2>1. CommentTyped(calls[i]) /\ page.comments \in Seq(Comments)
      BY <1>2 DEF Quiet, CommentsTyped
    <2>2. page'.comments \in Seq(Comments)
      <3>1. CASE Failed(i)
        BY <1>3, <2>1, <3>1
      <3>2. CASE ~Failed(i)
        <4>1. IF calls[i].op = "deleteComment" THEN calls[i].reply \in Seq(Comments)
              ELSE calls[i].reply \in Comments
          BY <1>1, <1>7, <2>1, <3>2 DEF CommentTyped
        <4>2. CASE calls[i].op = "deleteComment"
          BY <1>7, <3>2, <4>1, <4>2 DEF Afterwards
        <4>3. CASE calls[i].op # "deleteComment"
          <5>1. calls[i].reply \in Comments
            BY <4>1, <4>3
          <5>2. /\ Append(page.comments, calls[i].reply) \in Seq(Comments)
                /\ Replaced(page.comments, calls[i].reply) \in Seq(Comments)
            BY <2>1, <5>1, CommentLists
          <5> QED BY <1>1, <1>7, <3>2, <4>3, <5>2 DEF Afterwards, CommentOps
        <4> QED BY <4>2, <4>3
      <3> QED BY <3>1, <3>2
    <2> QED BY <1>1, <1>5, <2>2 DEF Quiet, CommentsTyped, CommentTyped
  <1>9. CommentsOK'
    <2> SUFFICES ASSUME ~page'.doubt
                 PROVE  /\ \A c \in Elems(calls') : CommentOK(c)'
                        /\ page'.comments = server'.comments[page'.part]
      BY DEF CommentsOK
    <2>1. ~Failed(i) /\ ~page.doubt /\ page.part = calls[i].args.part /\ page'.part = page.part
      BY <1>3 DEF SamePart
    <2>2. page'.comments = server'.comments[page'.part]
      BY <1>1, <1>2, <1>7, <2>1 DEF Quiet, CommentsOK, CommentOK
    <2>3. ASSUME NEW c \in Elems(calls') PROVE CommentOK(c)'
      <3>1. KindOf(c) # "comment" /\ CommentOK(c) /\ page'.url = page.url
        BY <1>3, <1>5, <1>6, <2>1 DEF Due, Quiet, CommentsOK, SamePart
      <3> QED BY <1>1, <3>1 DEF CommentOK
    <2> QED BY <2>2, <2>3
  <1>10. Same(CommentOps)
    BY <1>1, <1>2, AnswerTaken
  <1>11. FilesOK'
    <2>1. CommentOps \cap (FileOps \cup {"extra", "overview"}) = {}
      BY DEF FileOps, CommentOps
    <2> QED BY <1>1, <1>3, <1>10, <2>1, OtherFiles DEF Quiet
  <1>12. SharesOK'
    <2>1. CommentOps \cap (ShareOps \cup {"shares"}) = {}
      BY DEF ShareOps, CommentOps
    <2> QED BY <1>1, <1>3, <1>10, <2>1, OtherShares DEF Quiet
  <1> QED BY <1>4, <1>8, <1>9, <1>11, <1>12 DEF Quiet

\* Both lists are read again, and no list read before is on its way.
LEMMA FileAnswerQuiet ==
  ASSUME IInv, Quiet, FileAnswer
  PROVE  Quiet'
  <1> DEFINE q(i) == IF calls[i].op = "upload" THEN [page EXCEPT !.uploading = FALSE] ELSE page
  <1>1. PICK i \in DOMAIN calls :
          /\ calls[i].op \in FileOps /\ UNCHANGED server
          /\ IF Failed(i) THEN page' = [q(i) EXCEPT !.doubt = TRUE] /\ Take(i)
             ELSE /\ page' = InDoubt(q(i), Late(i, {"extra", "overview"}, calls[i].args.sel # Sel(page)))
                  /\ TakeAndSend(i, AfterFile(calls[i].args))
    BY DEF FileAnswer, Show, Answering, IsAnswered, FileOps
  <1> DEFINE cs == IF Failed(i) THEN <<>> ELSE AfterFile(calls[i].args)
  <1>2. calls' = Others(i) \o cs
    BY <1>1, OnlyTaken DEF TakeAndSend
  <1>3. /\ IsSequence(cs) /\ Solo(cs)
        /\ \A c \in Elems(cs) : c.op \in {"extra", "overview"} /\ c.reply = Absent
        /\ ~Failed(i) => \A op \in {"extra", "overview"} : \E c \in Elems(cs) : c.op = op
    <2> DEFINE a == ExtraLoad(calls[i].args.sel)
               b == OverviewLoad(calls[i].args.url)
    <2>1. a.op = "extra" /\ b.op = "overview" /\ a.reply = Absent /\ b.reply = Absent
      BY NewCall DEF ExtraLoad, OverviewLoad
    <2> HIDE DEF a, b
    <2>2. KindOf(a) = "other" /\ KindOf(b) = "other"
      BY <2>1 DEF KindOf, CommentOps
    <2>3. IsSequence(<<a, b>>) /\ Elems(<<a, b>>) = {a, b} /\ Solo(<<a, b>>)
      BY <2>2, Few, SoloFew
    <2>4. cs = IF Failed(i) THEN <<>> ELSE <<a, b>>
      BY DEF AfterFile, a, b
    <2> HIDE DEF cs
    <2>5. CASE Failed(i)
      BY <2>4, <2>5, Few, SoloFew
    <2>6. CASE ~Failed(i)
      BY <2>1, <2>3, <2>4, <2>6
    <2> QED BY <2>5, <2>6
  <1> HIDE DEF cs
  <1>4. KindOf(calls[i]) = "other" /\ \A c \in Elems(cs) : KindOf(c) = "other"
    BY <1>1, <1>3 DEF KindOf, CommentOps, FileOps
  <1>5. /\ SamePart(page, page') /\ SameLists(page, page') /\ Lowered(page, page', calls[i])
        /\ Failed(i) => page'.doubt
        /\ ~Failed(i) => page'.doubt = (page.doubt \/ Late(i, {"extra", "overview"}, calls[i].args.sel # Sel(page)))
    BY <1>1, <1>4, PageFacts
       DEF SamePart, SameLists, SameComments, SameFiles, SameShares, Lowered, PartFields, InDoubt, FileOps
  <1>6. Waits'
    BY <1>2, <1>3, <1>4, <1>5, TakenWaits DEF Quiet
  <1>7. CommentsTyped' /\ CommentsOK'
    <2>1. \A c \in Elems(cs) : c.op \notin CommentOps \cup {"detail"}
      BY <1>3 DEF CommentOps
    <2> QED BY <1>1, <1>2, <1>3, <1>4, <1>5, <2>1, TakenComments DEF Quiet, SameLists
  <1>8. CASE Failed(i)
    BY <1>5, <1>6, <1>7, <1>8, DoubtQuiet
  <1>9. CASE ~Failed(i)
    <2>1. /\ Elems(cs) \subseteq Elems(calls')
          /\ \A c \in Elems(calls') : c \in Elems(Others(i)) \/ c \in Elems(cs)
      BY <1>2, <1>3, AnswerTaken
    <2>2. Out({"extra"})' /\ Out({"overview"})'
      BY <1>3, <1>9, <2>1 DEF Out
    <2>3. ASSUME ~page'.doubt, NEW c \in Elems(calls'), c.op \in {"extra", "overview"} PROVE ~Arrived(c)
      <3>1. ~Late(i, {"extra", "overview"}, calls[i].args.sel # Sel(page))
        BY <1>5, <1>9, <2>3
      <3>2. c \notin Elems(Others(i))
        BY <2>3, <3>1, OthersAre DEF Late
      <3> QED BY <1>3, <2>1, <3>2 DEF Arrived
    <2>4. FilesOK'
      BY <2>2, <2>3 DEF FilesOK, Arrived
    <2>5. Same(FileOps \cup {"extra", "overview"})
      BY <1>1, <1>2, <1>3, AnswerTaken
    <2>6. SharesOK'
      <3>1. (FileOps \cup {"extra", "overview"}) \cap (ShareOps \cup {"shares"}) = {}
        BY DEF ShareOps, FileOps
      <3> QED BY <1>1, <1>5, <2>5, <3>1, OtherShares DEF Quiet, SameLists
    <2> QED BY <1>6, <1>7, <2>4, <2>6 DEF Quiet
  <1> QED BY <1>8, <1>9

\* The list is that of the part shown, and no other one is on its way.
LEMMA FilesAnswerQuiet ==
  ASSUME IInv, Quiet, FilesAnswer
  PROVE  Quiet'
  <1>1. PICK i \in DOMAIN calls :
          /\ calls[i].op \in {"extra", "overview"} /\ calls[i].reply # Absent /\ Take(i) /\ UNCHANGED server
          /\ LET late == Late(i, {calls[i].op}, calls[i].args # (IF calls[i].op = "extra" THEN Sel(page) ELSE page.url))
                 rows == IF Failed(i) THEN [of |-> calls[i].args, files |-> {}] ELSE calls[i].reply
             IN page' = InDoubt(IF calls[i].op = "extra" THEN [page EXCEPT !.extra = rows]
                                ELSE [page EXCEPT !.overview = rows], late \/ Failed(i))
    BY DEF FilesAnswer, Show, Answering, IsAnswered
  <1> DEFINE late == Late(i, {calls[i].op}, calls[i].args # (IF calls[i].op = "extra" THEN Sel(page) ELSE page.url))
             rows == IF Failed(i) THEN [of |-> calls[i].args, files |-> {}] ELSE calls[i].reply
  <1>2. page' = InDoubt(IF calls[i].op = "extra" THEN [page EXCEPT !.extra = rows]
                        ELSE [page EXCEPT !.overview = rows], late \/ Failed(i))
    BY <1>1
  <1>3. late \in BOOLEAN
    BY DEF Late
  <1> HIDE DEF late, rows
  <1>4. KindOf(calls[i]) = "other"
    BY <1>1 DEF KindOf, CommentOps
  <1>5. /\ SamePart(page, page') /\ SameComments(page, page') /\ SameShares(page, page')
        /\ Lowered(page, page', calls[i]) /\ page'.doubt = (page.doubt \/ late \/ Failed(i))
        /\ calls[i].op = "extra" => page'.extra = rows /\ page'.overview = page.overview
        /\ calls[i].op = "overview" => page'.overview = rows /\ page'.extra = page.extra
    BY <1>1, <1>2, <1>3, <1>4, PageFacts
       DEF SamePart, SameComments, SameShares, Lowered, PartFields, InDoubt
  <1>6. /\ calls' = Others(i) \o <<>> /\ IsSequence(<<>>) /\ Elems(<<>>) = {} /\ Solo(<<>>)
        /\ calls[i] \in Elems(calls)
    BY <1>1, OnlyTaken, Few, SoloFew, CallFacts
  <1>7. Waits'
    BY <1>4, <1>5, <1>6, TakenWaits DEF Quiet
  <1>8. CommentsTyped' /\ CommentsOK'
    BY <1>1, <1>4, <1>5, <1>6, TakenComments DEF Quiet
  <1>9. /\ Elems(calls') \subseteq Elems(calls) /\ Elems(calls) \subseteq Elems(calls') \cup {calls[i]}
        /\ Same({calls[i].op})
    BY <1>6, AnswerTaken
  <1>10. SharesOK'
    <2>1. {calls[i].op} \cap (ShareOps \cup {"shares"}) = {}
      BY <1>1 DEF ShareOps
    <2> QED BY <1>1, <1>5, <1>9, <2>1, OtherShares DEF Quiet
  <1>11. FilesOK'
    <2> SUFFICES ASSUME ~page'.doubt, "files" \in page'.uses
                 PROVE  /\ Out(FileOps)' \/ Out({"extra"})' \/ page'.extra = Rows(Sel(page'), server')
                        /\ Out(FileOps)' \/ Out({"overview"})' \/ page'.overview = Rows(page'.url, server')
                        /\ \A c \in Elems(calls') : c.op \in {"extra", "overview"} /\ Arrived(c)
                                                      => c.reply = Rows(c.args, server') \/ Out(FileOps)'
      BY DEF FilesOK
    <2>1. /\ ~page.doubt /\ ~late /\ ~Failed(i) /\ "files" \in page.uses /\ Sel(page') = Sel(page)
          /\ page'.url = page.url /\ server' = server
      BY <1>1, <1>3, <1>5, SamePartShows, PageFacts DEF SamePart
    <2>2. Out(FileOps) => Out(FileOps)'
      BY <1>1, <1>9 DEF Out, FileOps
    <2>3. /\ Arrived(calls[i]) /\ rows = calls[i].reply
          /\ calls[i].args = IF calls[i].op = "extra" THEN Sel(page) ELSE page.url
      BY <1>1, <2>1 DEF Arrived, Failed, late, rows, Late
    <2>4. rows = Rows(calls[i].args, server) \/ Out(FileOps)
      BY <1>1, <1>6, <2>1, <2>3 DEF Quiet, FilesOK
    <2>5. \A c \in Elems(calls') : c.op \in {"extra", "overview"} /\ Arrived(c)
                                     => c.reply = Rows(c.args, server') \/ Out(FileOps)'
      BY <1>9, <2>1, <2>2 DEF Quiet, FilesOK
    <2>6. CASE calls[i].op = "extra"
      <3>1. Out({"overview"}) => Out({"overview"})'
        BY <1>9, <2>6 DEF Out
      <3>2. Out(FileOps)' \/ page'.extra = Rows(Sel(page'), server')
        BY <1>5, <2>1, <2>2, <2>3, <2>4, <2>6
      <3>3. Out(FileOps)' \/ Out({"overview"})' \/ page'.overview = Rows(page'.url, server')
        BY <1>5, <2>1, <2>2, <2>6, <3>1 DEF Quiet, FilesOK
      <3> QED BY <2>5, <3>2, <3>3
    <2>7. CASE calls[i].op = "overview"
      <3>1. Out({"extra"}) => Out({"extra"})'
        BY <1>9, <2>7 DEF Out
      <3>2. Out(FileOps)' \/ page'.overview = Rows(page'.url, server')
        BY <1>5, <2>1, <2>2, <2>3, <2>4, <2>7
      <3>3. Out(FileOps)' \/ Out({"extra"})' \/ page'.extra = Rows(Sel(page'), server')
        BY <1>5, <2>1, <2>2, <2>7, <3>1 DEF Quiet, FilesOK
      <3> QED BY <2>5, <3>2, <3>3
    <2> QED BY <1>1, <2>6, <2>7
  <1> QED BY <1>7, <1>8, <1>10, <1>11 DEF Quiet

LEMMA ShareAnswerQuiet ==
  ASSUME IInv, Quiet, ShareAnswer
  PROVE  Quiet'
  <1> DEFINE f(i) == IF calls[i].op = "share" THEN [page EXCEPT !.sharing = FALSE] ELSE page
             q(i) == IF calls[i].op = "share" THEN [f(i) EXCEPT !.shareUrl = calls[i].reply] ELSE f(i)
  <1>1. PICK i \in DOMAIN calls :
          /\ calls[i].op \in ShareOps /\ calls[i].reply # Absent /\ UNCHANGED server
          /\ IF Failed(i) THEN page' = [f(i) EXCEPT !.doubt = TRUE] /\ Take(i)
             ELSE /\ page' = InDoubt(q(i), Late(i, {"shares"}, calls[i].args.sel # Sel(page)))
                  /\ TakeAndSend(i, <<LoadShareLinks(calls[i].args.sel)>>)
    BY DEF ShareAnswer, Show, Answering, IsAnswered, ShareOps
  <1> DEFINE load == LoadShareLinks(calls[i].args.sel)
             cs == IF Failed(i) THEN <<>> ELSE <<load>>
  <1>2. calls' = Others(i) \o cs
    BY <1>1, OnlyTaken DEF TakeAndSend
  <1>3. /\ IsSequence(cs) /\ Solo(cs) /\ \A c \in Elems(cs) : c.op = "shares" /\ c.reply = Absent
        /\ ~Failed(i) => \E c \in Elems(cs) : c.op = "shares"
    <2>1. load.op = "shares" /\ load.reply = Absent
      BY NewCall DEF LoadShareLinks
    <2> HIDE DEF load
    <2>2. /\ IsSequence(<<load>>) /\ Elems(<<load>>) = {load} /\ Solo(<<load>>)
          /\ IsSequence(<<>>) /\ Elems(<<>>) = {} /\ Solo(<<>>)
      BY Few, SoloFew
    <2> QED BY <2>1, <2>2
  <1> HIDE DEF cs
  <1>4. KindOf(calls[i]) = "other" /\ \A c \in Elems(cs) : KindOf(c) = "other"
    BY <1>1, <1>3 DEF KindOf, CommentOps, ShareOps
  <1>5. /\ SamePart(page, page') /\ SameComments(page, page') /\ SameFiles(page, page')
        /\ Lowered(page, page', calls[i]) /\ page'.shareLinks = page.shareLinks
        /\ Failed(i) => page'.doubt
        /\ ~Failed(i) =>
             /\ page'.doubt = (page.doubt \/ Late(i, {"shares"}, calls[i].args.sel # Sel(page)))
             /\ page'.shareUrl = IF calls[i].op = "share" THEN calls[i].reply ELSE page.shareUrl
    BY <1>1, <1>4, PageFacts
       DEF SamePart, SameComments, SameFiles, Lowered, PartFields, InDoubt, ShareOps
  <1>6. Waits'
    BY <1>2, <1>3, <1>4, <1>5, TakenWaits DEF Quiet
  <1>7. CommentsTyped' /\ CommentsOK'
    <2>1. \A c \in Elems(cs) : c.op \notin CommentOps \cup {"detail"}
      BY <1>3 DEF CommentOps
    <2> QED BY <1>1, <1>2, <1>3, <1>4, <1>5, <2>1, TakenComments DEF Quiet
  <1>8. CASE Failed(i)
    BY <1>5, <1>6, <1>7, <1>8, DoubtQuiet
  <1>9. CASE ~Failed(i)
    <2>1. /\ Elems(cs) \subseteq Elems(calls') /\ Elems(Others(i)) \subseteq Elems(calls)
          /\ \A c \in Elems(calls') : c \in Elems(Others(i)) \/ c \in Elems(cs)
      BY <1>2, <1>3, AnswerTaken
    <2>2. Out({"shares"})'
      BY <1>3, <1>9, <2>1 DEF Out
    <2>3. SharesOK'
      <3> SUFFICES ASSUME ~page'.doubt, "shares" \in page'.uses
                   PROVE  /\ \A c \in Elems(calls') : c.op = "shares" => ~Arrived(c)
                          /\ \A c \in Elems(calls') : c.op = "share" /\ Arrived(c) => c.reply.of = c.args.sel
                          /\ page'.shareUrl # Absent => page'.shareUrl.of = Sel(page')
        BY <2>2 DEF SharesOK, Arrived
      <3>1. /\ ~page.doubt /\ "shares" \in page.uses /\ Sel(page') = Sel(page)
            /\ ~Late(i, {"shares"}, calls[i].args.sel # Sel(page))
        BY <1>5, <1>9, SamePartShows DEF SamePart
      <3>2. ASSUME NEW c \in Elems(calls'), c.op = "shares" PROVE ~Arrived(c)
        <4>1. c \notin Elems(Others(i))
          BY <3>1, <3>2, OthersAre DEF Late
        <4> QED BY <1>3, <2>1, <4>1 DEF Arrived
      <3>3. \A c \in Elems(calls') : c.op = "share" /\ Arrived(c) => c.reply.of = c.args.sel
        BY <1>3, <2>1, <3>1 DEF Quiet, SharesOK
      <3>4. page'.shareUrl # Absent => page'.shareUrl.of = Sel(page')
        <4>1. CASE calls[i].op = "share"
          <5>1. Arrived(calls[i]) /\ calls[i] \in Elems(calls) /\ calls[i].args.sel = Sel(page)
            BY <1>1, <1>9, <3>1, CallFacts DEF Arrived, Failed, Late
          <5> QED BY <1>5, <1>9, <3>1, <4>1, <5>1 DEF Quiet, SharesOK
        <4>2. CASE calls[i].op # "share"
          BY <1>5, <1>9, <3>1, <4>2 DEF Quiet, SharesOK
        <4> QED BY <4>1, <4>2
      <3> QED BY <3>2, <3>3, <3>4
    <2>4. Same(ShareOps \cup {"shares"})
      BY <1>1, <1>2, <1>3, AnswerTaken
    <2>5. FilesOK'
      <3>1. (ShareOps \cup {"shares"}) \cap (FileOps \cup {"extra", "overview"}) = {}
        BY DEF ShareOps, FileOps
      <3> QED BY <1>1, <1>5, <2>4, <3>1, OtherFiles DEF Quiet
    <2> QED BY <1>6, <1>7, <2>3, <2>5 DEF Quiet
  <1> QED BY <1>8, <1>9

LEMMA SharesAnswerQuiet ==
  ASSUME IInv, Quiet, SharesAnswer
  PROVE  Quiet'
  <1> DEFINE q(i) == [page EXCEPT !.shareLinks = IF Failed(i) THEN {} ELSE calls[i].reply]
  <1>1. PICK i \in DOMAIN calls :
          /\ calls[i].op = "shares" /\ calls[i].reply # Absent /\ Take(i) /\ UNCHANGED server
          /\ page' = InDoubt(q(i), Late(i, {"shares"}, calls[i].args # Sel(page)) \/ Failed(i))
    BY DEF SharesAnswer, Show, Answering, IsAnswered
  <1>2. KindOf(calls[i]) = "other"
    BY <1>1 DEF KindOf, CommentOps
  <1>3. /\ SamePart(page, page') /\ SameComments(page, page') /\ SameFiles(page, page')
        /\ Lowered(page, page', calls[i]) /\ page'.shareUrl = page.shareUrl
        /\ page'.shareLinks = IF Failed(i) THEN {} ELSE calls[i].reply
        /\ page'.doubt = (page.doubt \/ Late(i, {"shares"}, calls[i].args # Sel(page)) \/ Failed(i))
    BY <1>1, <1>2, PageFacts
       DEF SamePart, SameComments, SameFiles, Lowered, PartFields, InDoubt
  <1>4. /\ calls' = Others(i) \o <<>> /\ IsSequence(<<>>) /\ Elems(<<>>) = {} /\ Solo(<<>>)
        /\ calls[i] \in Elems(calls)
    BY <1>1, OnlyTaken, Few, SoloFew, CallFacts
  <1>5. Waits'
    BY <1>2, <1>3, <1>4, TakenWaits DEF Quiet
  <1>6. CommentsTyped' /\ CommentsOK'
    BY <1>1, <1>2, <1>3, <1>4, TakenComments DEF Quiet
  <1>7. /\ Elems(calls') \subseteq Elems(calls) /\ Elems(calls) \subseteq Elems(calls') \cup {calls[i]}
        /\ Same({"shares"})
    BY <1>1, <1>4, AnswerTaken
  <1>8. FilesOK'
    <2>1. {"shares"} \cap (FileOps \cup {"extra", "overview"}) = {}
      BY DEF FileOps
    <2> QED BY <1>1, <1>3, <1>7, <2>1, OtherFiles DEF Quiet
  <1>9. SharesOK'
    <2> SUFFICES ASSUME ~page'.doubt, "shares" \in page'.uses
                 PROVE  /\ Out(ShareOps)' \/ page'.shareLinks = server'.shares[Sel(page')]
                        /\ \A c \in Elems(calls') : c.op = "shares" /\ Arrived(c)
                                                      => c.reply = server'.shares[c.args] \/ Out(ShareOps)'
                        /\ \A c \in Elems(calls') : c.op = "share" /\ Arrived(c) => c.reply.of = c.args.sel
                        /\ page'.shareUrl # Absent => page'.shareUrl.of = Sel(page')
      BY DEF SharesOK
    <2>1. /\ ~page.doubt /\ "shares" \in page.uses /\ Sel(page') = Sel(page) /\ server' = server
          /\ ~Failed(i) /\ calls[i].args = Sel(page)
      BY <1>1, <1>3, SamePartShows DEF SamePart, Late
    <2>2. Out(ShareOps) => Out(ShareOps)'
      BY <1>1, <1>7 DEF Out, ShareOps
    <2>3. Arrived(calls[i])
      BY <1>1, <2>1 DEF Arrived, Failed
    <2>4. Out(ShareOps)' \/ page'.shareLinks = server'.shares[Sel(page')]
      BY <1>1, <1>3, <1>4, <2>1, <2>2, <2>3 DEF Quiet, SharesOK
    <2> QED BY <1>3, <1>7, <2>1, <2>2, <2>4 DEF Quiet, SharesOK
  <1> QED BY <1>5, <1>6, <1>8, <1>9 DEF Quiet

-------------------------------------------------------------------------------
(* The page is rendered anew.                                              *)

\* What rendering asks for: the part when it is loaded again, and the lists
\* of what is selected when that has changed.
LEMMA EffectsAre ==
  ASSUME NEW p, NEW q, q.url \in Parts
  PROVE  /\ IsSequence(PageEffects(p, q)) /\ Solo(PageEffects(p, q))
         /\ \A c \in Elems(PageEffects(p, q)) :
              /\ c.op \in {"detail", "extra", "overview", "shares"} /\ c.reply = Absent
              /\ c.op = "detail" => Reloads(p, q)
              /\ KindOf(c) # "comment"
         /\ Reloads(p, q) => \E c \in Elems(PageEffects(p, q)) : KindOf(c) = "load"
         /\ "files" \in q.uses /\ (Reselects(p, q) \/ p.tick # q.tick)
              => \E c \in Elems(PageEffects(p, q)) : c.op = "extra"
         /\ "files" \in q.uses /\ Reloads(p, q) => \E c \in Elems(PageEffects(p, q)) : c.op = "overview"
         /\ "shares" \in q.uses /\ Reselects(p, q) => \E c \in Elems(PageEffects(p, q)) : c.op = "shares"
  <1> DEFINE detail == DetailLoad(q)
             extra == ExtraLoad(Sel(q))
             overview == OverviewLoad(q.url)
             shares == LoadShareLinks(Sel(q))
             again == "files" \in q.uses /\ (Reselects(p, q) \/ p.tick # q.tick)
             anew == "files" \in q.uses /\ Reloads(p, q)
             moved == "shares" \in q.uses /\ Reselects(p, q)
             a == IF Reloads(p, q) THEN <<detail>> ELSE <<>>
             b == IF again THEN <<extra>> ELSE <<>>
             c == IF anew THEN <<overview>> ELSE <<>>
             d == IF moved THEN <<shares>> ELSE <<>>
  <1>1. /\ detail.op = "detail" /\ detail.reply = Absent /\ detail.args.canceled = FALSE
        /\ extra.op = "extra" /\ extra.reply = Absent
        /\ overview.op = "overview" /\ overview.reply = Absent
        /\ shares.op = "shares" /\ shares.reply = Absent
    <2> DEFINE args == [part |-> q.url, canceled |-> FALSE]
    <2>1. args.canceled = FALSE
      OBVIOUS
    <2>2. detail = Call("detail", args)
      BY DEF DetailLoad
    <2> HIDE DEF args
    <2>3. detail.op = "detail" /\ detail.reply = Absent /\ detail.args = args
      BY <2>2, NewCall
    <2> QED BY <2>1, <2>3, NewCall DEF ExtraLoad, OverviewLoad, LoadShareLinks
  <1>2. PageEffects(p, q) = a \o b \o c \o d
    BY DEF PageEffects
  <1> HIDE DEF detail, extra, overview, shares
  <1>3. KindOf(detail) = "load" /\ KindOf(extra) = "other" /\ KindOf(overview) = "other" /\ KindOf(shares) = "other"
    BY <1>1 DEF KindOf, CommentOps
  <1> HIDE DEF again, anew, moved
  <1>4. /\ IsSequence(a) /\ Solo(a) /\ Elems(a) = IF Reloads(p, q) THEN {detail} ELSE {}
        /\ IsSequence(b) /\ Solo(b) /\ Elems(b) = IF again THEN {extra} ELSE {}
        /\ IsSequence(c) /\ Solo(c) /\ Elems(c) = IF anew THEN {overview} ELSE {}
        /\ IsSequence(d) /\ Solo(d) /\ Elems(d) = IF moved THEN {shares} ELSE {}
    BY Few, SoloFew
  <1> HIDE DEF a, b, c, d
  <1>5. IsSequence(a \o b) /\ Solo(a \o b) /\ Elems(a \o b) = Elems(a) \cup Elems(b)
    BY <1>3, <1>4, Joined, SoloJoined
  <1>6. /\ IsSequence(a \o b \o c) /\ Solo(a \o b \o c)
        /\ Elems(a \o b \o c) = Elems(a) \cup Elems(b) \cup Elems(c)
    BY <1>3, <1>4, <1>5, Joined, SoloJoined
  <1>7. /\ IsSequence(a \o b \o c \o d) /\ Solo(a \o b \o c \o d)
        /\ Elems(a \o b \o c \o d) = Elems(a) \cup Elems(b) \cup Elems(c) \cup Elems(d)
    BY <1>3, <1>4, <1>6, Joined, SoloJoined
  <1> DEFINE effects == PageEffects(p, q)
  <1>8. /\ IsSequence(effects) /\ Solo(effects)
        /\ Elems(effects) = Elems(a) \cup Elems(b) \cup Elems(c) \cup Elems(d)
    BY <1>2, <1>7
  <1> HIDE DEF effects
  <1>9. \A e \in Elems(effects) : /\ e.op \in {"detail", "extra", "overview", "shares"} /\ e.reply = Absent
                                  /\ e.op = "detail" => Reloads(p, q)
                                  /\ KindOf(e) # "comment"
    BY <1>1, <1>3, <1>4, <1>8
  <1>10. /\ Reloads(p, q) => \E e \in Elems(effects) : KindOf(e) = "load"
         /\ again => \E e \in Elems(effects) : e.op = "extra"
         /\ anew => \E e \in Elems(effects) : e.op = "overview"
         /\ moved => \E e \in Elems(effects) : e.op = "shares"
    BY <1>1, <1>3, <1>4, <1>8
  <1> QED BY <1>8, <1>9, <1>10 DEF effects, again, anew, moved

\* When nothing has changed that it depends on, rendering asks for nothing.
LEMMA NothingAsked ==
  ASSUME NEW STATE q, NEW STATE rest, IsSequence(rest), Render(q, rest),
         q.url = page.url, q.tick = page.tick, q.part = page.part
  PROVE  page' = q /\ calls' = rest
  <1>1. ~Reloads(page, q) /\ ~Reselects(page, q)
    BY DEF Reloads, Reselects, Sel, EffectiveRevisionFor
  <1>2. PageEffects(page, q) = <<>>
    BY <1>1 DEF PageEffects, Reloads
  <1>3. rest \o <<>> = rest
    BY ConcatEmptySeq DEF IsSequence
  <1> QED BY <1>1, <1>2, <1>3 DEF Render, Show

LEMMA CanceledAre ==
  ASSUME NEW cs, IsSequence(cs), \A c \in Elems(cs) : RequestOK(c, page)
  PROVE  /\ IsSequence(Canceled(cs)) /\ (Solo(cs) => Solo(Canceled(cs)))
         /\ \A c \in Elems(Canceled(cs)) :
              /\ KindOf(c) # "load"
              /\ \E d \in Elems(cs) : c.op = d.op /\ c.reply = d.reply /\ (c.op # "detail" => c = d)
         /\ \A d \in Elems(cs) : d.op # "detail" => d \in Elems(Canceled(cs))
  <1> DEFINE e(i) == IF cs[i].op = "detail" THEN [cs[i] EXCEPT !.args.canceled = TRUE] ELSE cs[i]
             t == Canceled(cs)
  <1>1. IsSequence(t)
    BY LoadsCanceled
  <1>2. DOMAIN t = DOMAIN cs /\ \A i \in DOMAIN cs : t[i] = e(i)
    BY DEF Canceled
  <1>3. ASSUME NEW i \in DOMAIN cs
        PROVE  /\ e(i).op = cs[i].op /\ e(i).reply = cs[i].reply /\ (e(i).op # "detail" => e(i) = cs[i])
               /\ KindOf(e(i)) = IF KindOf(cs[i]) = "load" THEN "other" ELSE KindOf(cs[i])
    <2>1. RequestOK(cs[i], page)
      BY DEF Elems
    <2>2. CASE cs[i].op # "detail"
      BY <2>2 DEF KindOf
    <2>3. CASE cs[i].op = "detail"
      <3>1. /\ e(i).op = "detail" /\ e(i).reply = cs[i].reply
            /\ e(i).args = [cs[i].args EXCEPT !.canceled = TRUE]
        BY <2>1, <2>3 DEF RequestOK, CallFields
      <3>2. e(i).args.canceled = TRUE
        BY <2>1, <2>3, <3>1 DEF RequestOK
      <3>3. KindOf(cs[i]) \in {"load", "other"}
        BY <2>3 DEF KindOf, CommentOps
      <3> HIDE DEF e
      <3>4. KindOf(e(i)) = "other"
        BY <3>1, <3>2 DEF KindOf, CommentOps
      <3> QED BY <2>3, <3>1, <3>3, <3>4
    <2> QED BY <2>2, <2>3
  <1> HIDE DEF e, t
  <1>4. Solo(cs) => Solo(t)
    BY <1>2, <1>3 DEF Solo
  <1>5. \A c \in Elems(t) : /\ KindOf(c) # "load"
                            /\ \E d \in Elems(cs) : c.op = d.op /\ c.reply = d.reply /\ (c.op # "detail" => c = d)
    BY <1>2, <1>3 DEF Elems
  <1>6. \A d \in Elems(cs) : d.op # "detail" => d \in Elems(t)
    BY <1>2, <1>3 DEF Elems
  <1> QED BY <1>1, <1>4, <1>5, <1>6 DEF t

\* Lists that are no longer of what is selected are read again.
LEMMA RenderedLists ==
  ASSUME FilesOK, SharesOK, UNCHANGED server, page'.uses = page.uses, page.doubt => page'.doubt,
         SameFiles(page, page'), page'.shareLinks = page.shareLinks,
         \A c \in Elems(calls) :
           c.op \in FileOps \cup ShareOps \cup {"extra", "overview", "shares"} => c \in Elems(calls'),
         \A c \in Elems(calls') :
           c.op \in {"extra", "overview", "shares", "share"} => c \in Elems(calls) \/ c.reply = Absent,
         Sel(page') # Sel(page) =>
           /\ "files" \in page.uses => Out({"extra"})'
           /\ "shares" \in page.uses => Out({"shares"})'
           /\ page'.shareUrl = Absent,
         page'.url # page.url /\ "files" \in page.uses => Out({"overview"})',
         Sel(page') = Sel(page) => page'.shareUrl = page.shareUrl
  PROVE  FilesOK' /\ SharesOK'
  <1>1. /\ Out(FileOps) => Out(FileOps)'
        /\ Out(ShareOps) => Out(ShareOps)'
        /\ Out({"extra"}) => Out({"extra"})'
        /\ Out({"overview"}) => Out({"overview"})'
        /\ Out({"shares"}) => Out({"shares"})'
    BY DEF Out
  <1>2. FilesOK'
    <2> SUFFICES ASSUME ~page.doubt, "files" \in page.uses
                 PROVE  /\ Out(FileOps)' \/ Out({"extra"})' \/ page.extra = Rows(Sel(page'), server)
                        /\ Out(FileOps)' \/ Out({"overview"})' \/ page.overview = Rows(page'.url, server)
                        /\ \A c \in Elems(calls') : c.op \in {"extra", "overview"} /\ Arrived(c)
                                                      => c.reply = Rows(c.args, server) \/ Out(FileOps)'
      BY DEF FilesOK, SameFiles
    <2>1. Out(FileOps)' \/ Out({"extra"})' \/ page.extra = Rows(Sel(page'), server)
      BY <1>1 DEF FilesOK
    <2>2. Out(FileOps)' \/ Out({"overview"})' \/ page.overview = Rows(page'.url, server)
      BY <1>1 DEF FilesOK
    <2>3. \A c \in Elems(calls') : c.op \in {"extra", "overview"} /\ Arrived(c)
                                     => c.reply = Rows(c.args, server) \/ Out(FileOps)'
      BY <1>1 DEF FilesOK, Arrived
    <2> QED BY <2>1, <2>2, <2>3
  <1>3. SharesOK'
    <2> SUFFICES ASSUME ~page.doubt, "shares" \in page.uses
                 PROVE  /\ Out(ShareOps)' \/ Out({"shares"})' \/ page.shareLinks = server.shares[Sel(page')]
                        /\ \A c \in Elems(calls') : c.op = "shares" /\ Arrived(c)
                                                      => c.reply = server.shares[c.args] \/ Out(ShareOps)'
                        /\ \A c \in Elems(calls') : c.op = "share" /\ Arrived(c) => c.reply.of = c.args.sel
                        /\ page'.shareUrl # Absent => page'.shareUrl.of = Sel(page')
      BY DEF SharesOK
    <2>1. Out(ShareOps)' \/ Out({"shares"})' \/ page.shareLinks = server.shares[Sel(page')]
      BY <1>1 DEF SharesOK
    <2>2. \A c \in Elems(calls') : c.op = "shares" /\ Arrived(c)
                                     => c.reply = server.shares[c.args] \/ Out(ShareOps)'
      BY <1>1 DEF SharesOK, Arrived
    <2>3. \A c \in Elems(calls') : c.op = "share" /\ Arrived(c) => c.reply.of = c.args.sel
      BY DEF SharesOK, Arrived
    <2>4. page'.shareUrl # Absent => page'.shareUrl.of = Sel(page')
      BY DEF SharesOK
    <2> QED BY <2>1, <2>2, <2>3, <2>4
  <1> QED BY <1>2, <1>3

\* The page without the answers that a new load or selection takes back.
Untouched(p, q) ==
  /\ DOMAIN q = PartFields /\ q.at = p.at /\ q.uses = p.uses /\ SameFiles(p, q) /\ SameShares(p, q)
  /\ q.notesSaving = p.notesSaving /\ q.uploading = p.uploading /\ q.sharing = p.sharing
  /\ q.arenaBusy = p.arenaBusy /\ q.commentSaving = p.commentSaving /\ q.doubt = p.doubt

\* The part is loaded again, or another one is.
LEMMA ReloadQuiet ==
  ASSUME IInv, Quiet, UNCHANGED server, NEW STATE q, NEW STATE rest, Render(q, rest), Reloads(page, q),
         Untouched(page, q), q.url \in Parts, q.comments = page.comments, q.refreshing => page.refreshing,
         IsSequence(rest), Solo(rest), Elems(rest) \subseteq Elems(calls),
         \A c \in Elems(calls) : c \in Elems(rest) \/ (c.op = "refresh" /\ ~q.refreshing)
  PROVE  Quiet' /\ page'.at = page.at
  <1> DEFINE r == IF Reselects(page, q) THEN [q EXCEPT !.shareUrl = Absent] ELSE q
             s == [r EXCEPT !.loading = TRUE, !.forbidden = FALSE, !.doubt = @ \/ r.commentSaving]
             old == Canceled(rest)
             new == PageEffects(page, q)
  <1>1. page' = s /\ calls' = old \o new
    BY DEF Render, Show
  <1>2. /\ DOMAIN r = PartFields /\ r.at = q.at /\ r.uses = q.uses /\ r.url = q.url /\ r.part = q.part
        /\ SameFiles(q, r) /\ r.shareLinks = q.shareLinks /\ r.comments = q.comments
        /\ r.notesSaving = q.notesSaving /\ r.refreshing = q.refreshing /\ r.uploading = q.uploading
        /\ r.sharing = q.sharing /\ r.arenaBusy = q.arenaBusy /\ r.commentSaving = q.commentSaving
        /\ r.doubt = q.doubt /\ r.shareUrl = IF Reselects(page, q) THEN Absent ELSE q.shareUrl
    BY DEF Untouched, PartFields, SameFiles
  <1> HIDE DEF r
  <1>3. /\ s.at = q.at /\ s.uses = q.uses /\ s.url = q.url /\ s.part = q.part
        /\ SameFiles(q, s) /\ s.shareLinks = q.shareLinks /\ s.comments = q.comments
        /\ s.notesSaving = q.notesSaving /\ s.refreshing = q.refreshing /\ s.uploading = q.uploading
        /\ s.sharing = q.sharing /\ s.arenaBusy = q.arenaBusy /\ s.commentSaving = q.commentSaving
        /\ s.doubt = (q.doubt \/ q.commentSaving) /\ s.loading = TRUE
        /\ s.shareUrl = IF Reselects(page, q) THEN Absent ELSE q.shareUrl
    BY <1>2 DEF PartFields, SameFiles
  <1> HIDE DEF s
  <1>4. Sel(page') = Sel(q)
    BY <1>1, <1>3 DEF Sel, EffectiveRevisionFor
  <1>5. /\ IsSequence(old) /\ Solo(old)
        /\ \A c \in Elems(old) :
             /\ KindOf(c) # "load"
             /\ \E d \in Elems(calls) : c.op = d.op /\ c.reply = d.reply /\ (c.op # "detail" => c = d)
        /\ \A d \in Elems(rest) : d.op # "detail" => d \in Elems(old)
    BY CanceledAre DEF IInv
  <1>6. /\ IsSequence(new) /\ Solo(new)
        /\ \A c \in Elems(new) : /\ c.op \in {"detail", "extra", "overview", "shares"} /\ c.reply = Absent
                                 /\ KindOf(c) # "comment"
        /\ \E c \in Elems(new) : KindOf(c) = "load"
        /\ "files" \in q.uses /\ (Reselects(page, q) \/ page.tick # q.tick) => \E c \in Elems(new) : c.op = "extra"
        /\ "files" \in q.uses => \E c \in Elems(new) : c.op = "overview"
        /\ "shares" \in q.uses /\ Reselects(page, q) => \E c \in Elems(new) : c.op = "shares"
    BY EffectsAre
  <1> HIDE DEF old, new
  <1>7. Elems(calls') = Elems(old) \cup Elems(new)
    BY <1>1, <1>5, <1>6, Joined
  <1>8. \A c \in Elems(calls) : c.op # "detail" => c \in Elems(calls') \/ (c.op = "refresh" /\ ~q.refreshing)
    BY <1>5, <1>7
  <1>9. Due("comment")' => Due("comment")
    <2> SUFFICES ASSUME NEW c \in Elems(calls'), KindOf(c) = "comment" PROVE Due("comment")
      BY DEF Due
    <2>1. c \in Elems(old) /\ c.op # "detail"
      BY <1>6, <1>7 DEF KindOf, CommentOps
    <2> QED BY <1>5, <2>1 DEF Due
  <1>10. Due("comment") => Due("comment")'
    <2> SUFFICES ASSUME NEW c \in Elems(calls), KindOf(c) = "comment" PROVE Due("comment")'
      BY DEF Due
    <2>1. c.op \in CommentOps
      BY DEF KindOf
    <2>2. c \in Elems(calls')
      BY <1>8, <2>1 DEF CommentOps
    <2> QED BY <2>2 DEF Due
  <1>11. Waits'
    <2>1. Solo(calls')
      <3>1. \A c \in Elems(old), d \in Elems(new) : KindOf(c) = KindOf(d) => KindOf(c) = "other"
        BY <1>5, <1>6 DEF KindOf
      <3> QED BY <1>1, <1>5, <1>6, <3>1, SoloJoined
    <2>2. Due("load")' /\ page'.loading
      BY <1>1, <1>3, <1>6, <1>7 DEF Due
    <2>3. /\ page'.commentSaving => Due("comment")'
          /\ Due("comment")' => page'.commentSaving
      BY <1>1, <1>3, <1>9, <1>10 DEF Untouched, Quiet, Waits
    <2>4. /\ page'.notesSaving => Out({"saveNotes"})'
          /\ page'.uploading   => Out({"upload"})'
          /\ page'.sharing     => Out({"share"})'
          /\ page'.arenaBusy # Absent => Out({"arena"})'
      BY <1>1, <1>3, <1>8 DEF Untouched, Quiet, Waits, Out
    <2>5. page'.refreshing  => Out({"refresh"})'
      BY <1>1, <1>3, <1>8 DEF Quiet, Waits, Out
    <2> QED BY <2>1, <2>2, <2>3, <2>4, <2>5 DEF Waits
  <1>12. CommentsTyped'
    <2>1. ASSUME NEW c \in Elems(calls') PROVE CommentTyped(c)
      <3>1. CASE c \in Elems(new)
        BY <1>6, <3>1 DEF CommentTyped, CommentOps, Arrived
      <3>2. CASE c \in Elems(old)
        <4>1. PICK d \in Elems(calls) : c.op = d.op /\ c.reply = d.reply /\ (c.op # "detail" => c = d)
          BY <1>5, <3>2
        <4>2. CommentTyped(d)
          BY <4>1 DEF Quiet, CommentsTyped
        <4>3. CASE c.op = "detail"
          BY <4>1, <4>2, <4>3 DEF CommentTyped, CommentOps, Arrived
        <4>4. CASE c.op # "detail"
          BY <4>1, <4>2, <4>4
        <4> QED BY <4>3, <4>4
      <3> QED BY <1>7, <3>1, <3>2
    <2> QED BY <1>1, <1>3, <2>1 DEF Quiet, CommentsTyped, CommentTyped
  <1>13. CommentsOK'
    <2> SUFFICES ASSUME ~page'.doubt PROVE (\A c \in Elems(calls') : CommentOK(c)') /\ ~Shown(page')
      BY DEF CommentsOK
    <2>1. ~Due("comment")'
      BY <1>1, <1>3, <1>11 DEF Waits
    <2>2. ~Shown(page')
      BY <1>1, <1>3 DEF Shown
    <2>3. ASSUME NEW c \in Elems(calls') PROVE KindOf(c) # "comment" /\ ~(KindOf(c) = "load" /\ Arrived(c))
      BY <1>5, <1>6, <1>7, <2>1 DEF Due, Arrived
    <2> QED BY <2>2, <2>3 DEF CommentOK
  <1>14. FilesOK' /\ SharesOK'
    <2>1. /\ page'.uses = page.uses /\ (page.doubt => page'.doubt)
          /\ SameFiles(page, page') /\ page'.shareLinks = page.shareLinks
      BY <1>1, <1>3 DEF Untouched, SameFiles, SameShares
    <2>2. \A c \in Elems(calls) :
            c.op \in FileOps \cup ShareOps \cup {"extra", "overview", "shares"} => c \in Elems(calls')
      BY <1>8 DEF FileOps, ShareOps
    <2>3. \A c \in Elems(calls') :
            c.op \in {"extra", "overview", "shares", "share"} => c \in Elems(calls) \/ c.reply = Absent
      BY <1>5, <1>6, <1>7
    <2>4. Reselects(page, q) <=> Sel(page') # Sel(page)
      BY <1>4 DEF Reselects
    <2>5. Reselects(page, q) =>
           /\ "files" \in page.uses => Out({"extra"})'
           /\ "shares" \in page.uses => Out({"shares"})'
           /\ page'.shareUrl = Absent
      BY <1>1, <1>3, <1>6, <1>7 DEF Out, Untouched
    <2>6. "files" \in page.uses => Out({"overview"})'
      BY <1>6, <1>7 DEF Out, Untouched
    <2>7. ~Reselects(page, q) => page'.shareUrl = page.shareUrl
      BY <1>1, <1>3 DEF Untouched, SameShares
    <2> QED BY <2>1, <2>2, <2>3, <2>4, <2>5, <2>6, <2>7, RenderedLists DEF Quiet
  <1> QED BY <1>1, <1>3, <1>11, <1>12, <1>13, <1>14 DEF Quiet, Untouched

\* The load that counts has answered.
LEMMA LoadedQuiet ==
  ASSUME IInv, Quiet, UNCHANGED server, NEW STATE q, NEW i \in DOMAIN calls, Render(q, Others(i)),
         calls[i].op = "detail", KindOf(calls[i]) = "load", Untouched(page, q), q.url = page.url,
         q.tick = page.tick, q.refreshing = page.refreshing, q.loading = FALSE,
         q.comments \in Seq(Comments),
         ~page.doubt /\ Shown(q) => q.comments = server.comments[q.part]
  PROVE  Quiet' /\ page'.at = page.at
  <1> DEFINE r == IF Reselects(page, q) THEN [q EXCEPT !.shareUrl = Absent] ELSE q
             new == PageEffects(page, q)
  <1>1. ~Reloads(page, q)
    BY DEF Reloads
  <1>2. page' = r /\ calls' = Others(i) \o new
    BY <1>1 DEF Render, Show
  <1>3. /\ r.at = q.at /\ r.uses = q.uses /\ r.url = q.url /\ r.part = q.part /\ r.loading = q.loading
        /\ r.forbidden = q.forbidden
        /\ SameFiles(q, r) /\ r.shareLinks = q.shareLinks /\ r.comments = q.comments
        /\ r.notesSaving = q.notesSaving /\ r.refreshing = q.refreshing /\ r.uploading = q.uploading
        /\ r.sharing = q.sharing /\ r.arenaBusy = q.arenaBusy /\ r.commentSaving = q.commentSaving
        /\ r.doubt = q.doubt /\ r.shareUrl = IF Reselects(page, q) THEN Absent ELSE q.shareUrl
    BY DEF Untouched, PartFields, SameFiles
  <1> HIDE DEF r
  <1>4. Sel(page') = Sel(q) /\ (Shown(page') <=> Shown(q))
    BY <1>2, <1>3 DEF Sel, EffectiveRevisionFor, Shown
  <1>5. /\ IsSequence(new) /\ Solo(new)
        /\ \A c \in Elems(new) : /\ c.op \in {"extra", "overview", "shares"} /\ c.reply = Absent
                                 /\ KindOf(c) = "other"
        /\ "files" \in q.uses /\ Reselects(page, q) => \E c \in Elems(new) : c.op = "extra"
        /\ "shares" \in q.uses /\ Reselects(page, q) => \E c \in Elems(new) : c.op = "shares"
    <2>1. q.url \in Parts
      BY PageFacts
    <2>2. \A c : c.op \in {"extra", "overview", "shares"} => KindOf(c) = "other"
      BY DEF KindOf, CommentOps
    <2>3. /\ IsSequence(new) /\ Solo(new)
          /\ \A c \in Elems(new) : /\ c.op \in {"detail", "extra", "overview", "shares"} /\ c.reply = Absent
                                   /\ c.op = "detail" => Reloads(page, q)
          /\ "files" \in q.uses /\ Reselects(page, q) => \E c \in Elems(new) : c.op = "extra"
          /\ "shares" \in q.uses /\ Reselects(page, q) => \E c \in Elems(new) : c.op = "shares"
      BY <2>1, EffectsAre
    <2> HIDE DEF new
    <2> QED BY <1>1, <2>2, <2>3
  <1> HIDE DEF new
  <1>6. Lowered(page, page', calls[i])
    BY <1>2, <1>3 DEF Lowered, Untouched
  <1>7. Waits'
    BY <1>2, <1>5, <1>6, TakenWaits DEF Quiet
  <1>8. /\ Elems(calls') \subseteq Elems(calls) \cup Elems(new) /\ Elems(new) \subseteq Elems(calls')
        /\ Elems(calls) \subseteq Elems(calls') \cup {calls[i]}
        /\ \A c \in Elems(calls') : c \in Elems(Others(i)) \/ c \in Elems(new)
    BY <1>2, <1>5, AnswerTaken
  <1>9. CommentsTyped'
    <2>1. \A c \in Elems(new) : CommentTyped(c)
      BY <1>5 DEF CommentTyped, CommentOps
    <2> QED BY <1>2, <1>3, <1>8, <2>1 DEF Quiet, CommentsTyped, CommentTyped
  <1>10. CommentsOK'
    <2> SUFFICES ASSUME ~page'.doubt
                 PROVE  /\ \A c \in Elems(calls') : CommentOK(c)'
                        /\ Shown(page') => page'.comments = server.comments[page'.part]
      BY DEF CommentsOK
    <2>1. ~page.doubt
      BY <1>2, <1>3 DEF Untouched
    <2>2. \A c \in Elems(calls') : KindOf(c) # "load"
      <3>1. \A c \in Elems(Others(i)) : KindOf(c) # KindOf(calls[i])
        BY SoloOthers, PageFacts DEF Quiet, Waits
      <3> QED BY <1>5, <1>8, <3>1
    <2>3. \A c \in Elems(calls) : KindOf(c) # "comment"
      <3>1. page.loading
        BY CallFacts DEF Quiet, Waits, Due
      <3> QED BY <2>1, <3>1 DEF Quiet, CommentsOK, CommentOK, Shown
    <2>4. \A c \in Elems(calls') : KindOf(c) # "comment"
      BY <1>5, <1>8, <2>3
    <2>5. Shown(page') => page'.comments = server.comments[page'.part]
      BY <1>2, <1>3, <1>4, <2>1
    <2> QED BY <2>2, <2>4, <2>5 DEF CommentOK
  <1>11. FilesOK' /\ SharesOK'
    <2>1. /\ page'.uses = page.uses /\ (page.doubt => page'.doubt)
          /\ SameFiles(page, page') /\ page'.shareLinks = page.shareLinks
      BY <1>2, <1>3 DEF Untouched, SameFiles, SameShares
    <2>2. \A c \in Elems(calls) :
            c.op \in FileOps \cup ShareOps \cup {"extra", "overview", "shares"} => c \in Elems(calls')
      BY <1>8 DEF FileOps, ShareOps
    <2>3. \A c \in Elems(calls') :
            c.op \in {"extra", "overview", "shares", "share"} => c \in Elems(calls) \/ c.reply = Absent
      BY <1>5, <1>8
    <2>4. Reselects(page, q) <=> Sel(page') # Sel(page)
      BY <1>4 DEF Reselects
    <2>5. Reselects(page, q) =>
           /\ "files" \in page.uses => Out({"extra"})'
           /\ "shares" \in page.uses => Out({"shares"})'
           /\ page'.shareUrl = Absent
      BY <1>2, <1>3, <1>5, <1>8 DEF Out, Untouched
    <2>6. page'.url = page.url
      BY <1>2, <1>3
    <2>7. ~Reselects(page, q) => page'.shareUrl = page.shareUrl
      BY <1>2, <1>3 DEF Untouched, SameShares
    <2> QED BY <2>1, <2>2, <2>3, <2>4, <2>5, <2>6, <2>7, RenderedLists DEF Quiet
  <1> QED BY <1>2, <1>3, <1>7, <1>9, <1>10, <1>11 DEF Quiet, Untouched

LEMMA NavigateQuiet ==
  ASSUME IInv, Quiet, NEW u \in Parts, Navigate(u)
  PROVE  Quiet' /\ page'.at = page.at
  <1> DEFINE q == [page EXCEPT !.url = u]
  <1>1. Render(q, calls) /\ UNCHANGED server /\ u # page.url
    BY DEF Navigate, Look
  <1>2. Untouched(page, q) /\ q.url = u /\ q.comments = page.comments /\ q.refreshing = page.refreshing
    BY PageFacts DEF Untouched, SameFiles, SameShares, PartFields
  <1> HIDE DEF q
  <1>3. Reloads(page, q)
    BY <1>1, <1>2 DEF Reloads
  <1>4. IsSequence(calls) /\ Solo(calls)
    BY PageFacts DEF Quiet, Waits
  <1> QED BY <1>1, <1>2, <1>3, <1>4, ReloadQuiet

LEMMA RefreshAnswerQuiet ==
  ASSUME IInv, Quiet, RefreshAnswer
  PROVE  Quiet' /\ page'.at = page.at
  <1> DEFINE f == [page EXCEPT !.refreshing = FALSE]
  <1>1. PICK i \in DOMAIN calls :
          /\ calls[i].op = "refresh" /\ UNCHANGED server
          /\ Render(IF Failed(i) THEN f ELSE [f EXCEPT !.tick = ~@], Others(i))
    BY DEF RefreshAnswer, Answering, IsAnswered
  <1> DEFINE q == IF Failed(i) THEN f ELSE [f EXCEPT !.tick = ~@]
  <1>2. Render(q, Others(i))
    BY <1>1
  <1>3. /\ Untouched(page, q) /\ q.url = page.url /\ q.part = page.part /\ q.comments = page.comments
        /\ q.loading = page.loading /\ q.forbidden = page.forbidden /\ q.refreshing = FALSE
    BY PageFacts DEF Untouched, SameFiles, SameShares, PartFields
  <1> HIDE DEF q
  <1>4. /\ IsSequence(Others(i)) /\ Elems(Others(i)) \subseteq Elems(calls) /\ Solo(Others(i))
        /\ Elems(calls) \subseteq Elems(Others(i)) \cup {calls[i]}
    BY PageFacts, Remaining, SoloOthers DEF Quiet, Waits
  <1>5. CASE Reloads(page, q)
    BY <1>1, <1>2, <1>3, <1>4, <1>5, PageFacts, ReloadQuiet
  <1>6. CASE ~Reloads(page, q)
    <2>1. page' = q /\ Take(i)
      BY <1>2, <1>3, <1>4, <1>6, NothingAsked DEF Reloads, Take
    <2>2. KindOf(calls[i]) = "other"
      BY <1>1 DEF KindOf, CommentOps
    <2>3. SamePart(page, page') /\ SameLists(page, page')
      BY <1>3, <2>1 DEF Untouched, SamePart, SameLists, SameComments
    <2>4. Lowered(page, page', calls[i])
      BY <1>1, <1>3, <2>1, <2>2 DEF Untouched, Lowered
    <2> QED BY <1>1, <2>1, <2>2, <2>3, <2>4, TakenQuiet DEF SamePart
  <1> QED BY <1>5, <1>6

LEMMA TypeNotesQuiet ==
  ASSUME IInv, Quiet, TypeNotes
  PROVE  Quiet' /\ page'.at = page.at
  <1> DEFINE q == [page EXCEPT !.notes = [of |-> @.of \cup {page.part}, v |-> @.v + 1]]
  <1>1. Render(q, calls) /\ UNCHANGED server
    BY DEF TypeNotes, Look
  <1>2. /\ SamePart(page, q) /\ SameLists(page, q) /\ q.tick = page.tick
        /\ q.notesSaving = page.notesSaving /\ q.refreshing = page.refreshing
        /\ q.uploading = page.uploading /\ q.sharing = page.sharing
        /\ q.arenaBusy = page.arenaBusy /\ q.commentSaving = page.commentSaving
    BY PageFacts DEF SamePart, SameLists, SameComments, SameFiles, SameShares, PartFields
  <1> HIDE DEF q
  <1>3. page' = q /\ calls' = calls
    BY <1>1, <1>2, PageFacts, NothingAsked DEF SamePart
  <1>4. Waits'
    BY <1>2, <1>3 DEF Quiet, Waits, Due, Out, SamePart
  <1>5. Same({}) /\ (Due("comment") => Due("comment")')
    BY <1>3 DEF Same, Due
  <1>6. CommentsTyped' /\ CommentsOK'
    BY <1>1, <1>2, <1>3, <1>5, OtherComments DEF Quiet, CommentsTyped, SameLists
  <1>7. FilesOK' /\ SharesOK'
    BY <1>1, <1>2, <1>3, <1>5, OtherFiles, OtherShares DEF Quiet, SameLists
  <1> QED BY <1>2, <1>3, <1>4, <1>6, <1>7 DEF Quiet, SamePart

LEMMA DetailAnswerQuiet ==
  ASSUME IInv, Quiet, DetailAnswer
  PROVE  Quiet' /\ page'.at = page.at
  <1> DEFINE Gone == [page EXCEPT !.part = Absent, !.loading = FALSE, !.notes = NoText,
                                  !.saved = NoText, !.comments = <<>>]
             Denied == [page EXCEPT !.loading = FALSE, !.forbidden = TRUE]
  <1>1. PICK i \in DOMAIN calls :
          /\ IsAnswered(i, "detail") /\ UNCHANGED server
          /\ \/ ~Current(i) /\ Take(i) /\ UNCHANGED page
             \/ /\ Current(i)
                /\ Render(CASE Failed(i)   -> Gone
                            [] ~Failed(i) /\ calls[i].reply.forbidden  -> Denied
                            [] ~Failed(i) /\ ~calls[i].reply.forbidden -> Loaded(page, calls[i].reply), Others(i))
    BY DEF DetailAnswer, Answering
  <1> HIDE DEF Gone, Denied
  <1>2. /\ calls[i].op = "detail" /\ calls[i].reply # Absent /\ calls[i] \in Elems(calls)
        /\ RequestOK(calls[i], page)
    BY <1>1, CallFacts DEF IsAnswered
  <1>3. CASE ~Current(i)
    <2>1. KindOf(calls[i]) = "other"
      BY <1>2, <1>3 DEF KindOf, Current, CommentOps
    <2>2. SamePart(page, page') /\ SameLists(page, page') /\ Lowered(page, page', calls[i])
      BY <1>1, <1>2, <1>3, <2>1, PageFacts
         DEF SamePart, SameLists, SameComments, SameFiles, SameShares, Lowered
    <2> QED BY <1>1, <1>2, <1>3, <2>1, <2>2, TakenQuiet DEF SamePart
  <1>4. CASE Current(i)
    <2> DEFINE q == CASE Failed(i) -> Gone
                      [] ~Failed(i) /\ calls[i].reply.forbidden  -> Denied
                      [] ~Failed(i) /\ ~calls[i].reply.forbidden -> Loaded(page, calls[i].reply)
    <2>1. Render(q, Others(i))
      BY <1>1, <1>4
    <2>2. q = Gone \/ q = Denied \/ (~Failed(i) /\ q = Loaded(page, calls[i].reply))
      OBVIOUS
    <2> HIDE DEF q
    <2>3. KindOf(calls[i]) = "load"
      BY <1>2, <1>4 DEF KindOf, Current, CommentOps
    <2>4. /\ Untouched(page, q) /\ q.url = page.url /\ q.tick = page.tick
          /\ q.refreshing = page.refreshing /\ q.loading = FALSE
      <3>1. CASE q = Gone
        BY <3>1, PageFacts DEF Gone, Untouched, SameFiles, SameShares, PartFields
      <3>2. CASE q = Denied
        BY <3>2, PageFacts DEF Denied, Untouched, SameFiles, SameShares, PartFields
      <3>3. CASE q = Loaded(page, calls[i].reply)
        BY <3>3, PageFacts DEF Loaded, Untouched, SameFiles, SameShares, PartFields
      <3> QED BY <2>2, <3>1, <3>2, <3>3
    <2>5. q.comments \in Seq(Comments) /\ (~page.doubt /\ Shown(q) => q.comments = server.comments[q.part])
      <3>1. CASE q = Gone
        <4>1. q.part = Absent /\ q.comments = <<>>
          BY <3>1, PageFacts DEF Gone, PartFields
        <4> QED BY <4>1, EmptySeq DEF Shown
      <3>2. CASE q = Denied
        <4>1. q.forbidden = TRUE /\ q.comments = page.comments
          BY <3>2, PageFacts DEF Denied, PartFields
        <4> QED BY <4>1 DEF Shown, Quiet, CommentsTyped
      <3>3. CASE ~Failed(i) /\ q = Loaded(page, calls[i].reply)
        <4>1. q.part = calls[i].reply.part /\ q.comments = calls[i].reply.comments
          BY <3>3, PageFacts DEF Loaded, PartFields
        <4>2. Arrived(calls[i])
          BY <1>2, <3>3 DEF Arrived, Failed
        <4>3. calls[i].reply.part = page.url
          BY <1>2, <1>4, <4>2 DEF RequestOK, Current
        <4>4. calls[i].reply.comments \in Seq(Comments)
          BY <1>2, <4>2 DEF Quiet, CommentsTyped, CommentTyped
        <4>5. ~page.doubt => calls[i].reply.comments = server.comments[page.url]
          BY <1>2, <2>3, <4>2 DEF Quiet, CommentsOK, CommentOK
        <4> QED BY <4>1, <4>3, <4>4, <4>5
      <3> QED BY <2>2, <3>1, <3>2, <3>3
    <2> QED BY <1>1, <1>2, <2>1, <2>3, <2>4, <2>5, LoadedQuiet
  <1> QED BY <1>3, <1>4

\* The list of parts takes the page's place.
LEMMA DeletedQuiet ==
  ASSUME IInv, Quiet, On("part"), DeletedPart
  PROVE  QuietInv'
  <1>1. PICK i \in DOMAIN calls :
          /\ calls[i].op = "deletePart" /\ UNCHANGED server
          /\ IF Failed(i) THEN UNCHANGED page /\ Take(i)
             ELSE page' = [page EXCEPT !.at = "parts list"] /\ calls' = <<>>
    BY DEF DeletedPart, Answering, Show, IsAnswered
  <1>2. CASE Failed(i)
    <2>1. KindOf(calls[i]) = "other"
      BY <1>1 DEF KindOf, CommentOps
    <2>2. SamePart(page, page') /\ SameLists(page, page') /\ Lowered(page, page', calls[i])
      BY <1>1, <1>2, <2>1, PageFacts
         DEF SamePart, SameLists, SameComments, SameFiles, SameShares, Lowered
    <2> QED BY <1>1, <1>2, <2>1, <2>2, TakenQuiet DEF QuietInv, Quiet, SamePart, On
  <1>3. CASE ~Failed(i)
    <2>1. page'.at = "parts list"
      BY <1>1, <1>3, PageFacts DEF PartFields
    <2> QED BY <2>1 DEF QuietInv, On
  <1> QED BY <1>2, <1>3

-------------------------------------------------------------------------------
(* The invariant of a quiet page holds in every state.                     *)

\* A step of the server or of its answers leaves the page where it is, and so
\* does what the user asks for.
LEMMA StaysOpen ==
  ASSUME IInv,
         \/ ServeDetail \/ HandleRefreshFiles \/ RefreshFiles
         \/ SaveNotes \/ ClearNotes \/ StoreNotes \/ NotesAnswer
         \/ CommentsPart \/ FilesPart \/ SharesPart \/ ExportPart
         \/ HandleDeletePart \/ DeletePart \/ Lose
  PROVE  page'.at = page.at
  <1>1. DOMAIN page = PartFields
    BY PageFacts
  <1>2. CASE ServeDetail \/ RefreshFiles \/ StoreNotes \/ StoreComment \/ StoreFile \/ ListFiles \/ StoreShare
             \/ ListShares \/ ExportArena \/ DeletePart \/ Lose
    BY <1>2 DEF ServeDetail, RefreshFiles, StoreNotes, StoreComment, StoreFile, ListFiles, StoreShare,
                ListShares, ExportArena, DeletePart, Lose, Handling
  <1>3. CASE HandleRefreshFiles \/ SaveNotes \/ ClearNotes \/ AddComment \/ ChangeComment \/ DeleteComment
             \/ HandleExtraUpload \/ HandleExtraDelete \/ CreateShareLink \/ RevokeShareLink \/ HandleDeletePart
             \/ \E kind \in {"bom", "links"} : DownloadArenaCsv(kind)
    <2> DEFINE Here(q) == q.at = page.at
    <2>1. ASSUME NEW STATE q, NEW STATE c, AskFor(q, c), Here(q) PROVE Here(page')
      BY <2>1 DEF AskFor, Show
    <2>2. /\ Here(page) /\ Here([page EXCEPT !.refreshing = TRUE]) /\ Here([page EXCEPT !.notesSaving = TRUE])
          /\ Here([page EXCEPT !.notesSaving = TRUE, !.notes = NoText])
          /\ Here([page EXCEPT !.commentSaving = TRUE]) /\ Here([page EXCEPT !.uploading = TRUE])
          /\ Here([page EXCEPT !.sharing = TRUE]) /\ \A kind : Here([page EXCEPT !.arenaBusy = kind])
      BY <1>1 DEF PartFields
    <2> HIDE DEF Here
    <2>3. ASSUME NEW op, NEW STATE args, CommentRequest(op, args) PROVE Here(page')
      BY <2>1, <2>2, <2>3 DEF CommentRequest
    <2>4. Here(page')
      BY <1>3, <2>1, <2>2, <2>3
         DEF HandleRefreshFiles, SaveNotes, ClearNotes, AddComment, ChangeComment, DeleteComment,
             HandleExtraUpload, HandleExtraDelete, CreateShareLink, RevokeShareLink, HandleDeletePart,
             DownloadArenaCsv
    <2> QED BY <2>4 DEF Here
  <1>4. CASE NotesAnswer
    BY <1>1, <1>4 DEF NotesAnswer, Show, InDoubt, PartFields
  <1>5. CASE CommentAnswer
    BY <1>1, <1>5 DEF CommentAnswer, Show, InDoubt, PartFields
  <1>6. CASE FileAnswer
    BY <1>1, <1>6 DEF FileAnswer, Show, InDoubt, PartFields
  <1>7. CASE FilesAnswer
    BY <1>1, <1>7 DEF FilesAnswer, Show, InDoubt, PartFields
  <1>8. CASE ShareAnswer
    BY <1>1, <1>8 DEF ShareAnswer, Show, InDoubt, PartFields
  <1>9. CASE SharesAnswer
    BY <1>1, <1>9 DEF SharesAnswer, Show, InDoubt, PartFields
  <1>10. CASE ArenaAnswer
    BY <1>1, <1>10 DEF ArenaAnswer, Show, PartFields
  <1> QED BY <1>2, <1>3, <1>4, <1>5, <1>6, <1>7, <1>8, <1>9, <1>10
          DEF CommentsPart, FilesPart, SharesPart, ExportPart

LEMMA InitQuiet == PartInit => QuietInv
  <1> SUFFICES ASSUME NEW u \in Parts, NEW hidden, NEW uses, page = PartStart(u, uses), calls = <<>>,
                      server = PartServer(hidden)
               PROVE  QuietInv
    BY DEF PartInit
  <1>1. /\ page.at = "part" /\ page.url = u /\ page.part = u /\ page.loading = FALSE /\ page.notesSaving = FALSE
        /\ page.comments = <<>> /\ page.commentSaving = FALSE /\ page.refreshing = FALSE /\ page.uploading = FALSE
        /\ page.extra = [of |-> u, files |-> {}] /\ page.overview = [of |-> u, files |-> {}]
        /\ page.shareLinks = {} /\ page.shareUrl = Absent /\ page.sharing = FALSE /\ page.arenaBusy = Absent
    BY DEF PartStart
  <1>2. /\ server.comments = [p \in Parts |-> <<>>] /\ server.files = [p \in Parts |-> {}]
        /\ server.shares = [p \in Parts |-> {}] /\ server.made = 0
    BY DEF PartServer
  <1>3. Elems(calls) = {} /\ Solo(calls)
    BY Few, SoloFew
  <1>4. Sel(page) = u
    BY <1>1, PartAssumption DEF Sel, EffectiveRevisionFor
  <1>5. Waits
    BY <1>1, <1>3 DEF Waits, Due
  <1>6. CommentsTyped /\ CommentsOK
    BY <1>1, <1>2, <1>3, EmptySeq DEF CommentsTyped, CommentsOK
  <1>7. FilesOK
    BY <1>1, <1>2, <1>3, <1>4 DEF FilesOK, Rows
  <1>8. SharesOK
    BY <1>1, <1>2, <1>3, <1>4 DEF SharesOK
  <1> QED BY <1>1, <1>5, <1>6, <1>7, <1>8 DEF QuietInv, Quiet

LEMMA NextQuiet == IInv /\ QuietInv /\ [PartNext \/ Lose]_vars => QuietInv'
  <1>1. ASSUME IInv, QuietInv, On("part"), Quiet' /\ page'.at = page.at PROVE QuietInv'
    BY <1>1 DEF QuietInv, Quiet, On
  <1>2. ASSUME IInv, QuietInv, PartNext PROVE QuietInv'
    <2>1. On("part") /\ Quiet
      BY <1>2 DEF PartNext, QuietInv, Quiet
    <2>2. CASE DeletedPart
      BY <1>2, <2>1, <2>2, DeletedQuiet
    <2>3. CASE \/ \E u \in Parts : Navigate(u)
               \/ DetailAnswer \/ RefreshAnswer \/ TypeNotes
      BY <1>1, <1>2, <2>1, <2>3, NavigateQuiet, DetailAnswerQuiet, RefreshAnswerQuiet, TypeNotesQuiet
    <2>4. CASE ServeDetail \/ RefreshFiles \/ DeletePart \/ StoreNotes \/ ListFiles \/ ListShares \/ ExportArena
               \/ StoreComment \/ StoreFile \/ StoreShare
      <3>1. Quiet'
        BY <1>2, <2>1, <2>4, ServeDetailQuiet, OthersServedQuiet, StoreCommentQuiet, StoreFileQuiet, StoreShareQuiet
      <3>2. page'.at = page.at
        BY <1>2, <2>4, StaysOpen DEF CommentsPart, FilesPart, SharesPart, ExportPart
      <3> QED BY <1>1, <1>2, <2>1, <3>1, <3>2
    <2>5. CASE HandleRefreshFiles \/ HandleDeletePart \/ SaveNotes \/ ClearNotes \/ HandleExtraUpload
               \/ HandleExtraDelete \/ CreateShareLink \/ RevokeShareLink
               \/ (\E kind \in {"bom", "links"} : DownloadArenaCsv(kind))
               \/ AddComment \/ ChangeComment \/ DeleteComment
      <3>1. Quiet'
        BY <1>2, <2>1, <2>5, AskQuiet, CommentAskQuiet
      <3>2. page'.at = page.at
        BY <1>2, <2>5, StaysOpen DEF CommentsPart, FilesPart, SharesPart, ExportPart
      <3> QED BY <1>1, <1>2, <2>1, <3>1, <3>2
    <2>6. CASE NotesAnswer \/ ArenaAnswer \/ CommentAnswer \/ FileAnswer \/ FilesAnswer \/ ShareAnswer \/ SharesAnswer
      <3>1. Quiet'
        BY <1>2, <2>1, <2>6, PlainAnswerQuiet, CommentAnswerQuiet, FileAnswerQuiet, FilesAnswerQuiet,
           ShareAnswerQuiet, SharesAnswerQuiet
      <3>2. page'.at = page.at
        BY <1>2, <2>6, StaysOpen DEF CommentsPart, FilesPart, SharesPart, ExportPart
      <3> QED BY <1>1, <1>2, <2>1, <3>1, <3>2
    <2> QED BY <1>2, <2>2, <2>3, <2>4, <2>5, <2>6
            DEF PartNext, NotesPart, CommentsPart, FilesPart, SharesPart, ExportPart
  <1>3. ASSUME IInv, QuietInv, Lose PROVE QuietInv'
    <2>1. page' = page
      BY <1>3 DEF Lose
    <2>2. CASE On("part")
      BY <1>1, <1>3, <2>1, <2>2, LoseQuiet DEF QuietInv, Quiet
    <2>3. CASE ~On("part")
      BY <1>3, <2>1, <2>3 DEF QuietInv, On
    <2> QED BY <2>2, <2>3
  <1>4. ASSUME QuietInv, UNCHANGED vars PROVE QuietInv'
    <2>1. page' = page /\ calls' = calls /\ server' = server
      BY <1>4 DEF vars
    <2>2. Waits => Waits'
      BY <2>1 DEF Waits, Due, Out
    <2>3. CommentsTyped => CommentsTyped'
      BY <2>1 DEF CommentsTyped, CommentTyped
    <2>4. CommentsOK => CommentsOK'
      BY <2>1 DEF CommentsOK, CommentOK, Due
    <2>5. FilesOK => FilesOK'
      BY <2>1 DEF FilesOK, Out
    <2>6. SharesOK => SharesOK'
      BY <2>1 DEF SharesOK, Out
    <2> QED BY <1>4, <2>1, <2>2, <2>3, <2>4, <2>5, <2>6 DEF QuietInv, Quiet, On
  <1> QED BY <1>2, <1>3, <1>4

\* A page of a part on which no request is out is not busy, and it shows the
\* comments, files and share links of its part, and a new link only beside
\* its part.  Whatever was lost, however the answers were ordered and however
\* fast links were followed, the flags and lists follow the requests that are
\* out (PartDetailPage.tsx:1049-1176, 1178, 1202, 1980, 2224-2243, 2297).
THEOREM QuietPart == PartSpec => [](QuietPageIsIdle /\ QuietPageShowsTheStored)
  <1>1. IInv /\ QuietInv => QuietPageIsIdle
    <2> SUFFICES ASSUME IInv, QuietInv, calls = <<>> PROVE ~Busy(page)
      BY DEF QuietPageIsIdle
    <2>1. Elems(calls) = {}
      BY Few
    <2> QED BY <2>1 DEF QuietInv, Quiet, Waits, Due, Out, Busy, On
  <1>2. IInv /\ QuietInv => CommentsAreTheParts /\ FilesAndLinksAreTheParts
    <2> SUFFICES ASSUME IInv, QuietInv, On("part"), Shown(page), calls = <<>>, ~page.doubt
                 PROVE  /\ page.comments = server.comments[page.part]
                        /\ "files" \in page.uses => \A shown \in {page.extra, page.overview} :
                             shown = [of |-> page.part, files |-> server.files[page.part]]
                        /\ "shares" \in page.uses =>
                             /\ page.shareLinks = server.shares[page.part]
                             /\ page.shareUrl # Absent => page.shareUrl.of = page.part
      BY DEF CommentsAreTheParts, FilesAndLinksAreTheParts
    <2>1. Elems(calls) = {}
      BY Few
    <2>2. page.part = page.url /\ page.url \in Parts /\ Sel(page) = page.part
      BY PageFacts, PartAssumption DEF Sel, EffectiveRevisionFor, Shown
    <2>3. page.comments = server.comments[page.part]
      BY <2>1 DEF QuietInv, Quiet, CommentsOK, Due
    <2>4. "files" \in page.uses =>
            page.extra = Rows(page.part, server) /\ page.overview = Rows(page.part, server)
      BY <2>1, <2>2 DEF QuietInv, Quiet, FilesOK, Out
    <2>5. "shares" \in page.uses =>
            page.shareLinks = server.shares[page.part] /\ (page.shareUrl # Absent => page.shareUrl.of = page.part)
      BY <2>1, <2>2 DEF QuietInv, Quiet, SharesOK, Out
    <2> QED BY <2>3, <2>4, <2>5 DEF Rows
  <1>3. IInv /\ QuietInv => QuietPageShowsTheStored
    BY <1>2 DEF QuietInv, On, QuietPageShowsTheStored, ListIsCurrent, ShowsWhatIsStored,
                ShownSwitchesAreStored, RowsAnswerTheQuestion, PreferencesAreStored, SavedMarkupsAreStored,
                SuggestionsAnswerTheQuery
  <1> QED BY <1>1, <1>3, InitQuiet, NextQuiet, PartInvariant, InitIInv, NextIInv, PTL DEF PartSpec
===============================================================================
