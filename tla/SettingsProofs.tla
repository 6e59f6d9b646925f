----------------------------- MODULE SettingsProofs ----------------------------
(***************************************************************************)
(* Proofs about the pages of the settings, each alone with its server.     *)
(*                                                                         *)
(* TokensPage: for any number of tokens, requests, clicks and              *)
(* deactivations, and any order in which they meet, a rotation hands over  *)
(* from one token to one other, and a token outlives its account in one    *)
(* way only.                                                               *)
(*                                                                         *)
(* AddinPage: whatever is clicked, edited, answered late or lost, the      *)
(* tokens on screen are those of the user named above them, the builder's  *)
(* pattern has one automatic counter, an update hits the piece that was    *)
(* opened, and an example is of the pattern.                               *)
(*                                                                         *)
(* Of both: what a quiet page shows is what is stored.                     *)
(***************************************************************************)
EXTENDS FrontEnd, BrowserProofs, FiniteSetTheorems, WellFoundedInduction

-------------------------------------------------------------------------------
(* The tokens alone, opened by a user with some of them.                   *)

Token == [revoked : BOOLEAN, from : Nat, won : BOOLEAN, checked : Nat, late : BOOLEAN]
Fresh == {t \in Token : t.from = 0 /\ ~t.won /\ t.checked = 0 /\ ~t.late}

TokensInit == \E stored \in Seq(Fresh) :
  /\ page = [TokensStart EXCEPT !.tokens = Seen(stored)]
  /\ calls = <<>>
  /\ server = TokensServer(stored)
  /\ left \in Nat

TokensSpec == TokensInit /\ [][TokensNext \/ Lose]_vars

-------------------------------------------------------------------------------
(* Types.                                                                  *)

Held    == [step : {"insert", "replace", "undo"}, token : Nat, sweeps : Nat]
Answers == Nat \cup Seq(BOOLEAN) \cup {Absent, Failure}
Request ==
  [op : {"list", "create", "rotate", "revoke"}, args : Nat \cup {Absent},
   work : Held \cup {Absent}, reply : Answers]
Shows   == [at : {"tokens"}, tokens : Seq(BOOLEAN), secret : Answers, doubt : BOOLEAN]
Stores  == [tokens : Seq(Token), active : BOOLEAN, leaving : BOOLEAN, sweeps : Nat]

Types == page \in Shows /\ server \in Stores /\ calls \in Seq(Request)

-------------------------------------------------------------------------------
(* The inductive invariant: what a request on its way knows about the      *)
(* tokens.                                                                 *)

InUse(s) == s.active \/ s.leaving

\* It names stored tokens; one it has inserted replaces the one it names; it
\* found the owner active before the last sweep, or the account is in use.
TokensRequestOK(c, s) ==
  /\ c.op = "list" /\ c.reply \notin {Absent, Failure} =>
       c.reply \in Seq(BOOLEAN) /\ Len(c.reply) <= Len(s.tokens)
  /\ c.op = "create" => c.args = 0
  /\ c.op \in {"rotate", "revoke"} => c.args \in 1 .. Len(s.tokens)
  /\ c.work # Absent =>
       /\ c.op \in {"create", "rotate"}
       /\ c.work.sweeps < s.sweeps \/ (c.work.sweeps = s.sweeps /\ InUse(s))
       /\ c.work.step # "insert" =>
            c.op = "rotate" /\ c.work.token \in 1 .. Len(s.tokens) /\ s.tokens[c.work.token].from = c.args

RequestsOK == \A j \in DOMAIN calls : TokensRequestOK(calls[j], server)
TokensPageOK     == Len(page.tokens) <= Len(server.tokens)

\* RotationHandsOver, and that what was replaced is a token.
Rotated(s) ==
  /\ \A t \in 1 .. Len(s.tokens) :
       s.tokens[t].won => s.tokens[t].from \in 1 .. Len(s.tokens) /\ s.tokens[s.tokens[t].from].revoked
  /\ \A t, u \in 1 .. Len(s.tokens) :
       s.tokens[t].won /\ s.tokens[u].won /\ s.tokens[t].from = s.tokens[u].from => t = u

Survivors(s) ==
  \A t \in 1 .. Len(s.tokens) :
    ~s.tokens[t].revoked /\ (s.tokens[t].checked < s.sweeps \/ ~InUse(s)) => s.tokens[t].late

TokensInv == Types /\ RequestsOK /\ TokensPageOK /\ Rotated(server) /\ Survivors(server)

\* What a request knows stays true while the server only goes on.
Grown(s, r) ==
  /\ Len(s.tokens) <= Len(r.tokens)
  /\ \A t \in 1 .. Len(s.tokens) : r.tokens[t].from = s.tokens[t].from
  /\ \/ s.sweeps = r.sweeps /\ (InUse(s) => InUse(r))
     \/ s.sweeps < r.sweeps

-------------------------------------------------------------------------------
(* The requests on their way.                                              *)

\* A request that is taken leaves the others.
LEMMA OthersRemain ==
  ASSUME calls \in Seq(Request), NEW i \in DOMAIN calls
  PROVE  /\ Others(i) \in Seq(Request)
         /\ \A j \in DOMAIN Others(i) : \E k \in DOMAIN calls : Others(i)[j] = calls[k]
  <1> DEFINE k(j) == IF j < i THEN j ELSE j + 1
  <1>1. i \in 1 .. Len(calls) /\ Len(calls) \in Nat /\ DOMAIN calls = 1 .. Len(calls)
    BY LenProperties
  <1>2. \A j \in 1 .. Len(calls) - 1 : k(j) \in DOMAIN calls /\ calls[k(j)] \in Request
    BY <1>1, ElementOfSeq
  <1>3. Others(i) = [j \in 1 .. Len(calls) - 1 |-> calls[k(j)]]
    BY DEF Others
  <1> HIDE DEF k
  <1>4. Len(calls) - 1 \in Nat
    BY <1>1
  <1>5. Others(i) \in Seq(Request)
    BY <1>2, <1>3, <1>4, IsASeq
  <1> QED BY <1>2, <1>3, <1>5

\* A request that is sent joins them.
LEMMA SentJoins ==
  ASSUME NEW cs \in Seq(Request), NEW c \in Request
  PROVE  /\ cs \o <<c>> \in Seq(Request)
         /\ \A j \in DOMAIN (cs \o <<c>>) :
              (\E k \in DOMAIN cs : (cs \o <<c>>)[j] = cs[k]) \/ (cs \o <<c>>)[j] = c
  <1>1. <<c>> \in Seq(Request) /\ Len(<<c>>) = 1 /\ <<c>>[1] = c
    OBVIOUS
  <1>2. /\ cs \o <<c>> \in Seq(Request)
        /\ Len(cs \o <<c>>) = Len(cs) + 1
        /\ \A j \in 1 .. Len(cs) + 1 :
             (cs \o <<c>>)[j] = IF j <= Len(cs) THEN cs[j] ELSE <<c>>[j - Len(cs)]
    BY <1>1, ConcatProperties
  <1>3. Len(cs) \in Nat /\ DOMAIN cs = 1 .. Len(cs) /\ DOMAIN (cs \o <<c>>) = 1 .. Len(cs) + 1
    BY <1>2, LenProperties
  <1> QED BY <1>1, <1>2, <1>3

\* A request that is worked on or answered is replaced.
LEMMA ServedReplaced ==
  ASSUME calls \in Seq(Request), NEW i \in DOMAIN calls, NEW c \in Request,
         calls' = [calls EXCEPT ![i] = c]
  PROVE  /\ calls' \in Seq(Request)
         /\ \A j \in DOMAIN calls' : (\E k \in DOMAIN calls : calls'[j] = calls[k]) \/ calls'[j] = c
  <1>1. Len(calls) \in Nat /\ DOMAIN calls = 1 .. Len(calls) /\ i \in 1 .. Len(calls)
    BY LenProperties
  <1>2. calls' \in Seq(Request)
    BY <1>1, ExceptSeq
  <1> QED BY <1>1, <1>2

LEMMA TokensAnswered ==
  ASSUME calls \in Seq(Request), NEW i \in DOMAIN calls, NEW r \in Answers, Reply(i, r)
  PROVE  LET c == [calls[i] EXCEPT !.reply = r, !.work = Absent] IN
         c \in Request /\ calls' = [calls EXCEPT ![i] = c]
  <1>1. calls[i] \in Request
    BY LenProperties, ElementOfSeq
  <1> QED BY <1>1 DEF Reply, Request

LEMMA Worked ==
  ASSUME calls \in Seq(Request), NEW i \in DOMAIN calls, NEW w \in Held, Work(i, w)
  PROVE  LET c == [calls[i] EXCEPT !.work = w] IN
         c \in Request /\ calls' = [calls EXCEPT ![i] = c]
  <1>1. calls[i] \in Request
    BY LenProperties, ElementOfSeq
  <1> QED BY <1>1 DEF Work, Request

LEMMA RequestOKStays ==
  ASSUME NEW s \in Stores, NEW r \in Stores, Grown(s, r), NEW c \in Request, TokensRequestOK(c, s)
  PROVE  TokensRequestOK(c, r)
  <1>1. Len(s.tokens) \in Nat /\ Len(r.tokens) \in Nat /\ s.sweeps \in Nat /\ r.sweeps \in Nat
    BY LenProperties DEF Stores
  <1>2. c.work # Absent => c.work.sweeps \in Nat
    BY DEF Request, Held
  <1> QED BY <1>1, <1>2 DEF Grown, TokensRequestOK

\* What has to be shown of a step: one request at most is new.
LEMMA RequestsStep ==
  ASSUME TokensInv, server' \in Stores, Grown(server, server'), calls' \in Seq(Request), NEW c,
         \A j \in DOMAIN calls' : (\E k \in DOMAIN calls : calls'[j] = calls[k]) \/ calls'[j] = c,
         TokensRequestOK(c, server')
  PROVE  RequestsOK'
  <1>1. \A k \in DOMAIN calls : calls[k] \in Request
    BY LenProperties, ElementOfSeq DEF TokensInv, Types
  <1>2. \A k \in DOMAIN calls : TokensRequestOK(calls[k], server')
    BY <1>1, RequestOKStays DEF TokensInv, Types, RequestsOK
  <1> QED BY <1>2 DEF RequestsOK

LEMMA GrownReflexive == \A s : s \in Stores => Grown(s, s)
  <1> SUFFICES ASSUME NEW s \in Stores PROVE Grown(s, s)
    OBVIOUS
  <1>1. Len(s.tokens) \in Nat
    BY LenProperties DEF Stores
  <1> QED BY <1>1 DEF Grown
-------------------------------------------------------------------------------
(* The page.                                                               *)

LEMMA TokensInitInv == TokensInit => TokensInv
  <1> SUFFICES ASSUME NEW stored \in Seq(Fresh),
                      page = [TokensStart EXCEPT !.tokens = Seen(stored)],
                      calls = <<>>, server = TokensServer(stored)
               PROVE  TokensInv
    BY DEF TokensInit
  <1>1. Len(stored) \in Nat /\ DOMAIN stored = 1 .. Len(stored)
        /\ \A t \in 1 .. Len(stored) : stored[t] \in Fresh
    BY LenProperties, ElementOfSeq
  <1>2. \A t \in 1 .. Len(stored) : stored[t] \in Token
    BY <1>1 DEF Fresh, Token
  <1>3. stored \in Seq(Token)
    BY <1>1, <1>2, IsASeq
  <1>4. Seen(stored) = [t \in 1 .. Len(stored) |-> stored[t].revoked]
    BY <1>1 DEF Seen
  <1>5. \A t \in 1 .. Len(stored) : stored[t].revoked \in BOOLEAN
    BY <1>2 DEF Token
  <1>6. Seen(stored) \in Seq(BOOLEAN) /\ Len(Seen(stored)) = Len(stored)
    BY <1>1, <1>4, <1>5, IsASeq, LenProperties
  <1>7. page \in Shows /\ page.tokens = Seen(stored)
    BY <1>6 DEF TokensStart, Shows, Answers
  <1>8. server \in Stores /\ server.tokens = stored /\ server.sweeps = 0 /\ InUse(server)
    BY <1>3 DEF TokensServer, Stores, InUse
  <1>9. calls \in Seq(Request) /\ DOMAIN calls = {}
    OBVIOUS
  <1>10. Rotated(server) /\ Survivors(server)
    BY <1>1, <1>8 DEF Rotated, Survivors, Fresh
  <1> QED BY <1>1, <1>6, <1>7, <1>8, <1>9, <1>10 DEF TokensInv, Types, RequestsOK, TokensPageOK

\* Facts of a state that every step starts from.
LEMMA TokensKnown ==
  ASSUME TokensInv
  PROVE  /\ Len(server.tokens) \in Nat /\ DOMAIN server.tokens = 1 .. Len(server.tokens)
         /\ Len(page.tokens) \in Nat /\ DOMAIN page.tokens = 1 .. Len(page.tokens)
         /\ \A t \in 1 .. Len(server.tokens) : server.tokens[t] \in Token
         /\ \A i \in DOMAIN calls : calls[i] \in Request /\ TokensRequestOK(calls[i], server)
         /\ server.sweeps \in Nat /\ server.active \in BOOLEAN /\ server.leaving \in BOOLEAN
         /\ server \in Stores /\ Grown(server, server)
  <1>1. server.tokens \in Seq(Token) /\ page.tokens \in Seq(BOOLEAN) /\ server \in Stores
    BY DEF TokensInv, Types, Stores, Shows
  <1>2. server.sweeps \in Nat /\ server.active \in BOOLEAN /\ server.leaving \in BOOLEAN
    BY <1>1 DEF Stores
  <1>3. \A i \in DOMAIN calls : calls[i] \in Request /\ TokensRequestOK(calls[i], server)
    BY LenProperties, ElementOfSeq DEF TokensInv, Types, RequestsOK
  <1> QED BY <1>1, <1>2, <1>3, LenProperties, ElementOfSeq, GrownReflexive

\* A click sends one request, for a token on screen if for any.
LEMMA ClickStep ==
  ASSUME TokensInv, CreateToken \/ RotateToken \/ RevokeToken
  PROVE  TokensInv'
  <1>1. PICK op \in {"create", "rotate", "revoke"}, t \in Nat :
          Ask(op, t) /\ (IF op = "create" THEN t = 0 ELSE t \in 1 .. Len(page.tokens))
    BY TokensKnown DEF CreateToken, RotateToken, RevokeToken
  <1> DEFINE c == Call(op, t)
  <1>2. c \in Request /\ TokensRequestOK(c, server)
    BY <1>1, TokensKnown DEF Call, Request, TokensRequestOK, Answers, TokensInv, TokensPageOK
  <1>3. calls' = calls \o <<c>> /\ UNCHANGED <<page, server>>
    BY <1>1 DEF Ask, Send
  <1> HIDE DEF c
  <1>4. /\ calls' \in Seq(Request)
        /\ \A j \in DOMAIN calls' : (\E k \in DOMAIN calls : calls'[j] = calls[k]) \/ calls'[j] = c
    BY <1>2, <1>3, SentJoins DEF TokensInv, Types
  <1>5. RequestsOK'
    BY <1>2, <1>3, <1>4, TokensKnown, RequestsStep
  <1> QED BY <1>3, <1>4, <1>5 DEF TokensInv, Types, TokensPageOK, Rotated, Survivors, InUse

LEMMA TokenAnswerStep ==
  ASSUME TokensInv, TokenAnswer
  PROVE  TokensInv'
  <1>1. PICK i \in DOMAIN calls :
          /\ IF Failed(i)
             THEN page' = [page EXCEPT !.doubt = TRUE] /\ calls' = Others(i)
             ELSE /\ page' = [page EXCEPT !.doubt = TwoLists,
                                !.secret = IF calls[i].op = "revoke" THEN @ ELSE calls[i].reply]
                  /\ calls' = Others(i) \o (IF ReloadAfter(calls[i].op) THEN <<LoadTokens>> ELSE <<>>)
          /\ UNCHANGED server
    BY DEF TokenAnswer, Show, Take, TakeAndSend
  <1>2. page' \in Shows /\ page'.tokens = page.tokens
    <2>1. TwoLists \in BOOLEAN /\ calls[i].reply \in Answers
      BY TokensKnown DEF TwoLists, Waiting, TokensInv, Types, Shows, Request
    <2> QED BY <1>1, <2>1 DEF TokensInv, Types, Shows
  <1>3. LoadTokens \in Request /\ TokensRequestOK(LoadTokens, server)
    BY DEF LoadTokens, Call, Request, TokensRequestOK, Answers
  <1>4. /\ Others(i) \in Seq(Request)
        /\ \A j \in DOMAIN Others(i) : \E k \in DOMAIN calls : Others(i)[j] = calls[k]
    BY OthersRemain DEF TokensInv, Types
  <1>5. Others(i) \o <<>> = Others(i)
    BY <1>4, ConcatEmptySeq
  <1>6. /\ calls' \in Seq(Request)
        /\ \A j \in DOMAIN calls' : (\E k \in DOMAIN calls : calls'[j] = calls[k]) \/ calls'[j] = LoadTokens
    <2>1. CASE calls' = Others(i)
      BY <1>4, <2>1
    <2>2. CASE calls' = Others(i) \o <<LoadTokens>>
      BY <1>3, <1>4, <2>2, SentJoins
    <2> QED BY <1>1, <1>5, <2>1, <2>2
  <1>7. RequestsOK'
    BY <1>1, <1>3, <1>6, TokensKnown, RequestsStep
  <1> QED BY <1>1, <1>2, <1>6, <1>7 DEF TokensInv, Types, TokensPageOK, Rotated, Survivors, InUse

\* A list is no longer than what is stored.
LEMMA ListAnswerStep ==
  ASSUME TokensInv, ListAnswer
  PROVE  TokensInv'
  <1>1. PICK i \in DOMAIN calls :
          /\ calls[i].op = "list" /\ calls[i].reply # Absent
          /\ page' = IF Failed(i) THEN [page EXCEPT !.doubt = TRUE]
                     ELSE [page EXCEPT !.tokens = calls[i].reply]
          /\ calls' = Others(i) /\ UNCHANGED server
    BY DEF ListAnswer, Show, Take, IsAnswered
  <1>2. ~Failed(i) => calls[i].reply \in Seq(BOOLEAN) /\ Len(calls[i].reply) <= Len(server.tokens)
    BY <1>1, TokensKnown DEF Failed, TokensRequestOK
  <1>3. page' \in Shows /\ Len(page'.tokens) <= Len(server.tokens)
    BY <1>1, <1>2 DEF TokensInv, Types, TokensPageOK, Shows
  <1>4. calls' \in Seq(Request) /\ \A j \in DOMAIN calls' : \E k \in DOMAIN calls : calls'[j] = calls[k]
    BY <1>1, OthersRemain DEF TokensInv, Types
  <1>5. RequestsOK'
    BY <1>1, <1>4 DEF TokensInv, RequestsOK
  <1> QED BY <1>1, <1>3, <1>4, <1>5 DEF TokensInv, Types, TokensPageOK, Rotated, Survivors, InUse
-------------------------------------------------------------------------------
(* The server.                                                             *)

\* What has to be shown of a step that serves one request: what it writes.
LEMMA Served ==
  ASSUME TokensInv, NEW i \in DOMAIN calls, UNCHANGED page,
         server' \in Stores, Grown(server, server'), Rotated(server'), Survivors(server'),
         \/ \E r \in Answers : Reply(i, r) /\ (calls[i].op = "list" /\ r \notin {Absent, Failure} =>
                                                 r \in Seq(BOOLEAN) /\ Len(r) <= Len(server'.tokens))
         \/ \E w \in Held : Work(i, w) /\ TokensRequestOK([calls[i] EXCEPT !.work = w], server')
  PROVE  TokensInv'
  <1>1. calls \in Seq(Request) /\ calls[i] \in Request /\ TokensRequestOK(calls[i], server')
    BY TokensKnown, RequestOKStays DEF TokensInv, Types
  <1>2. PICK c \in Request : calls' = [calls EXCEPT ![i] = c] /\ TokensRequestOK(c, server')
    <2>1. CASE \E r \in Answers : Reply(i, r) /\ (calls[i].op = "list" /\ r \notin {Absent, Failure} =>
                                                 r \in Seq(BOOLEAN) /\ Len(r) <= Len(server'.tokens))
      <3>1. PICK r \in Answers : Reply(i, r) /\ (calls[i].op = "list" /\ r \notin {Absent, Failure} =>
                                                 r \in Seq(BOOLEAN) /\ Len(r) <= Len(server'.tokens))
        BY <2>1
      <3> DEFINE c == [calls[i] EXCEPT !.reply = r, !.work = Absent]
      <3>2. c \in Request /\ calls' = [calls EXCEPT ![i] = c]
        BY <1>1, <3>1, TokensAnswered
      <3>3. c.op = calls[i].op /\ c.args = calls[i].args /\ c.reply = r /\ c.work = Absent
        BY <1>1 DEF Request
      <3> HIDE DEF c
      <3>4. TokensRequestOK(c, server')
        BY <1>1, <3>1, <3>3 DEF TokensRequestOK
      <3> QED BY <3>2, <3>4
    <2>2. CASE \E w \in Held : Work(i, w) /\ TokensRequestOK([calls[i] EXCEPT !.work = w], server')
      BY <1>1, <2>2, Worked
    <2> QED BY <2>1, <2>2
  <1>3. /\ calls' \in Seq(Request)
        /\ \A j \in DOMAIN calls' : (\E k \in DOMAIN calls : calls'[j] = calls[k]) \/ calls'[j] = c
    BY <1>1, <1>2, ServedReplaced
  <1>4. RequestsOK'
    BY <1>2, <1>3, RequestsStep
  <1>5. TokensPageOK'
    BY TokensKnown DEF TokensInv, TokensPageOK, Grown, Stores
  <1> QED BY <1>3, <1>4, <1>5 DEF TokensInv, Types, Rotated, Survivors, InUse

\* The same where nothing is written.
LEMMA OnlyServed ==
  ASSUME TokensInv, NEW i \in DOMAIN calls, UNCHANGED <<page, server>>,
         \/ \E r \in Answers : Reply(i, r) /\ (calls[i].op = "list" /\ r \notin {Absent, Failure} =>
                                                 r \in Seq(BOOLEAN) /\ Len(r) <= Len(server.tokens))
         \/ \E w \in Held : Work(i, w) /\ TokensRequestOK([calls[i] EXCEPT !.work = w], server)
  PROVE  TokensInv'
  <1>1. server' = server /\ page' = page
    OBVIOUS
  <1>2. server \in Stores /\ Grown(server, server) /\ Rotated(server) /\ Survivors(server)
    BY TokensKnown DEF TokensInv
  <1> QED BY <1>1, <1>2, Served

LEMMA ListTokensStep ==
  ASSUME TokensInv, ListTokens
  PROVE  TokensInv'
  <1>1. PICK i \in DOMAIN calls : Reply(i, Seen(server.tokens)) /\ UNCHANGED <<page, server>>
    BY DEF ListTokens, Serving
  <1>2. Seen(server.tokens) \in Seq(BOOLEAN) /\ Len(Seen(server.tokens)) = Len(server.tokens)
    <2>1. Seen(server.tokens) = [t \in 1 .. Len(server.tokens) |-> server.tokens[t].revoked]
      BY TokensKnown DEF Seen
    <2>2. \A t \in 1 .. Len(server.tokens) : server.tokens[t].revoked \in BOOLEAN
      BY TokensKnown DEF Token
    <2> QED BY <2>1, <2>2, TokensKnown, IsASeq, LenProperties
  <1>3. Seen(server.tokens) \in Answers /\ Len(Seen(server.tokens)) <= Len(server.tokens)
    BY <1>2, TokensKnown DEF Answers
  <1> QED BY <1>1, <1>2, <1>3, OnlyServed

LEMMA CheckOwnerStep ==
  ASSUME TokensInv, CheckOwner
  PROVE  TokensInv'
  <1> DEFINE w == [step |-> "insert", token |-> 0, sweeps |-> server.sweeps]
  <1>1. PICK i \in DOMAIN calls :
          /\ calls[i].op \in {"create", "rotate"}
          /\ Reply(i, Failure) \/ (server.active /\ Work(i, w))
          /\ UNCHANGED <<page, server>>
    BY DEF CheckOwner, Serving, IsAsked
  <1>2. w \in Held /\ w.step = "insert" /\ w.sweeps = server.sweeps
    BY TokensKnown DEF Held
  <1> HIDE DEF w
  <1>3. CASE Reply(i, Failure)
    BY <1>1, <1>3, OnlyServed DEF Answers
  <1>4. CASE server.active /\ Work(i, w)
    <2> DEFINE c == [calls[i] EXCEPT !.work = w]
    <2>1. c.op = calls[i].op /\ c.args = calls[i].args /\ c.reply = calls[i].reply /\ c.work = w
      BY TokensKnown DEF Request
    <2> HIDE DEF c
    <2>2. TokensRequestOK(c, server)
      BY <1>1, <1>2, <1>4, <2>1, TokensKnown DEF TokensRequestOK, InUse
    <2> QED BY <1>1, <1>2, <1>4, <2>2, OnlyServed DEF c
  <1> QED BY <1>1, <1>3, <1>4

LEMMA NewTokenIsOne ==
  ASSUME NEW from \in Nat, NEW w \in Held, NEW late \in BOOLEAN
  PROVE  LET new == NewToken(from, w, late) IN
         /\ new \in Token /\ new.from = from /\ new.won = FALSE /\ new.checked = w.sweeps
         /\ new.late = late
  BY DEF NewToken, Token, Held

LEMMA InsertTokenStep ==
  ASSUME TokensInv, InsertToken
  PROVE  TokensInv'
  <1> DEFINE n == Len(server.tokens) + 1
             made(i) == NewToken(calls[i].args, calls[i].work, server.sweeps > calls[i].work.sweeps)
  <1>1. PICK i \in DOMAIN calls :
          /\ calls[i].work # Absent
          /\ server' = [server EXCEPT !.tokens = Append(server.tokens, made(i))]
          /\ IF calls[i].op = "create" THEN Reply(i, n)
             ELSE Work(i, [calls[i].work EXCEPT !.step = "replace", !.token = n])
          /\ UNCHANGED page
    BY DEF InsertToken, IsWorking, Store, Serving
  <1> DEFINE w == calls[i].work
             new == made(i)
  <1>2. /\ w \in Held /\ w.sweeps \in Nat /\ calls[i].args \in Nat
        /\ w.sweeps < server.sweeps \/ InUse(server)
        /\ calls[i].op \in {"create", "rotate"}
    BY <1>1, TokensKnown DEF TokensRequestOK, Request, Held
  <1>3. new \in Token /\ new.from = calls[i].args /\ ~new.won /\ new.checked = w.sweeps
        /\ (new.late <=> w.sweeps < server.sweeps)
    <2> DEFINE late == server.sweeps > w.sweeps
    <2>1. late \in BOOLEAN /\ (late <=> w.sweeps < server.sweeps)
      BY <1>2, TokensKnown
    <2> HIDE DEF late
    <2>2. NewToken(calls[i].args, w, late) \in Token
          /\ NewToken(calls[i].args, w, late).from = calls[i].args
          /\ NewToken(calls[i].args, w, late).won = FALSE
          /\ NewToken(calls[i].args, w, late).checked = w.sweeps
          /\ NewToken(calls[i].args, w, late).late = late
      BY <1>2, <2>1, NewTokenIsOne
    <2>3. new = NewToken(calls[i].args, w, late)
      BY DEF late
    <2> QED BY <2>1, <2>2, <2>3
  <1> HIDE DEF made
  <1>4. /\ Append(server.tokens, new) \in Seq(Token) /\ Len(Append(server.tokens, new)) = n
        /\ \A t \in 1 .. Len(server.tokens) : Append(server.tokens, new)[t] = server.tokens[t]
        /\ Append(server.tokens, new)[n] = new
    BY <1>3, TokensKnown, AppendProperties DEF Stores
  <1>5. /\ server' \in Stores /\ server'.sweeps = server.sweeps /\ InUse(server') = InUse(server)
        /\ server'.tokens \in Seq(Token) /\ Len(server'.tokens) = n
        /\ \A t \in 1 .. Len(server.tokens) : server'.tokens[t] = server.tokens[t]
        /\ server'.tokens[n] = new
    BY <1>1, <1>4, TokensKnown DEF Stores, InUse
  <1>6. n \in Nat /\ Len(server.tokens) \in Nat /\ 1 .. n = 1 .. Len(server.tokens) \cup {n}
    BY TokensKnown
  <1> HIDE DEF new, n
  <1>7. Grown(server, server')
    BY <1>5, TokensKnown DEF Grown, n
  <1>8. Rotated(server')
    <2>1. Rotated(server)
      BY DEF TokensInv
    <2>2. ASSUME NEW t \in 1 .. n, server'.tokens[t].won
          PROVE  t \in 1 .. Len(server.tokens) /\ server.tokens[t].won
                 /\ server'.tokens[t].from = server.tokens[t].from
      BY <1>3, <1>5, <1>6, <2>2
    <2>3. \A t \in 1 .. n : server'.tokens[t].won =>
            server'.tokens[t].from \in 1 .. n /\ server'.tokens[server'.tokens[t].from].revoked
      BY <1>5, <1>6, <2>1, <2>2 DEF Rotated
    <2>4. \A t, u \in 1 .. n :
            server'.tokens[t].won /\ server'.tokens[u].won
            /\ server'.tokens[t].from = server'.tokens[u].from => t = u
      BY <2>1, <2>2 DEF Rotated
    <2> QED BY <1>5, <2>3, <2>4 DEF Rotated
  <1>9. Survivors(server')
    BY <1>2, <1>3, <1>5, <1>6 DEF TokensInv, Survivors
  <1>10. CASE calls[i].op = "create"
    BY <1>1, <1>5, <1>6, <1>7, <1>8, <1>9, <1>10, Served DEF Answers
  <1>11. CASE calls[i].op = "rotate"
    <2> DEFINE v == [w EXCEPT !.step = "replace", !.token = n]
               c == [calls[i] EXCEPT !.work = v]
    <2>1. v \in Held /\ v.token = n /\ v.sweeps = w.sweeps
      BY <1>2, <1>6 DEF Held
    <2>2. c.op = "rotate" /\ c.args = calls[i].args /\ c.reply = calls[i].reply /\ c.work = v
      BY <1>11, TokensKnown DEF Request
    <2>3. TokensRequestOK(calls[i], server')
      BY <1>5, <1>7, TokensKnown, RequestOKStays
    <2>4. server'.tokens[n].from = calls[i].args /\ n \in 1 .. Len(server'.tokens)
      BY <1>3, <1>5, <1>6
    <2> HIDE DEF c, v
    <2>5. TokensRequestOK(c, server')
      BY <1>1, <1>11, <2>1, <2>2, <2>3, <2>4 DEF TokensRequestOK
    <2>6. Work(i, v)
      BY <1>1, <1>11 DEF v
    <2> QED BY <1>1, <1>5, <1>7, <1>8, <1>9, <2>1, <2>5, <2>6, Served DEF c
  <1> QED BY <1>2, <1>10, <1>11

\* Some tokens are revoked, and nothing else happens to them.
Revoked(s, r) ==
  /\ Len(r.tokens) = Len(s.tokens)
  /\ \A t \in 1 .. Len(s.tokens) :
       /\ s.tokens[t].revoked => r.tokens[t].revoked
       /\ r.tokens[t].from = s.tokens[t].from /\ r.tokens[t].checked = s.tokens[t].checked
       /\ r.tokens[t].late = s.tokens[t].late

LEMMA RevokedSurvivors ==
  ASSUME NEW s \in Stores, NEW r \in Stores, Revoked(s, r), Survivors(s),
         r.sweeps = s.sweeps, InUse(s) => InUse(r)
  PROVE  Grown(s, r) /\ Survivors(r)
  <1>1. Len(s.tokens) \in Nat
    BY LenProperties DEF Stores
  <1> QED BY <1>1 DEF Revoked, Survivors, Grown

LEMMA RevokedRotated ==
  ASSUME NEW s \in Stores, NEW r \in Stores, Revoked(s, r), Rotated(s),
         \A t \in 1 .. Len(s.tokens) : r.tokens[t].won = s.tokens[t].won
  PROVE  Rotated(r)
  <1>1. \A t \in 1 .. Len(r.tokens) : r.tokens[t].won =>
          r.tokens[t].from \in 1 .. Len(r.tokens) /\ r.tokens[r.tokens[t].from].revoked
    BY DEF Revoked, Rotated
  <1>2. \A t, u \in 1 .. Len(r.tokens) :
          r.tokens[t].won /\ r.tokens[u].won /\ r.tokens[t].from = r.tokens[u].from => t = u
    BY DEF Revoked, Rotated
  <1> QED BY <1>1, <1>2 DEF Rotated

\* One token is revoked by hand, or because its rotation was lost.
LEMMA OneRevoked ==
  ASSUME TokensInv, NEW t \in 1 .. Len(server.tokens),
         server' = [server EXCEPT !.tokens = [server.tokens EXCEPT ![t].revoked = TRUE]]
  PROVE  server' \in Stores /\ Grown(server, server') /\ Rotated(server') /\ Survivors(server')
  <1> DEFINE one == [server.tokens[t] EXCEPT !.revoked = TRUE]
             after == [server.tokens EXCEPT ![t] = one]
  <1>1. one \in Token /\ one.revoked = TRUE /\ one.from = server.tokens[t].from
        /\ one.checked = server.tokens[t].checked /\ one.late = server.tokens[t].late
        /\ one.won = server.tokens[t].won
    BY TokensKnown DEF Token
  <1>2. server' = [server EXCEPT !.tokens = after]
    OBVIOUS
  <1> HIDE DEF one
  <1>3. server.tokens \in Seq(Token) /\ DOMAIN server.tokens = 1 .. Len(server.tokens)
    BY TokensKnown DEF Stores
  <1>4. /\ after \in Seq(Token) /\ Len(after) = Len(server.tokens)
        /\ \A u \in 1 .. Len(server.tokens) : after[u] = IF u = t THEN one ELSE server.tokens[u]
    BY <1>1, <1>3, TokensKnown, ExceptSeq, LenProperties
  <1> HIDE DEF after
  <1>5. /\ server' \in Stores /\ server'.tokens = after
        /\ server'.sweeps = server.sweeps /\ (InUse(server) => InUse(server'))
    BY <1>2, <1>4, TokensKnown DEF Stores, InUse
  <1>6. Revoked(server, server')
    BY <1>1, <1>4, <1>5 DEF Revoked
  <1>7. \A u \in 1 .. Len(server.tokens) : server'.tokens[u].won = server.tokens[u].won
    BY <1>1, <1>4, <1>5
  <1> QED BY <1>5, <1>6, <1>7, TokensKnown, RevokedSurvivors, RevokedRotated DEF TokensInv

LEMMA RevokeStoredStep ==
  ASSUME TokensInv, RevokeStored
  PROVE  TokensInv'
  <1>1. PICK i \in DOMAIN calls :
          /\ calls[i].op = "revoke" /\ Reply(i, 0) /\ UNCHANGED page
          /\ server' = [server EXCEPT !.tokens = [server.tokens EXCEPT ![calls[i].args].revoked = TRUE]]
    BY DEF RevokeStored, Store, Serving, IsAsked
  <1>2. calls[i].args \in 1 .. Len(server.tokens)
    BY <1>1, TokensKnown DEF TokensRequestOK
  <1> QED BY <1>1, <1>2, OneRevoked, Served DEF Answers

LEMMA UndoReplacementStep ==
  ASSUME TokensInv, UndoReplacement
  PROVE  TokensInv'
  <1>1. PICK i \in DOMAIN calls :
          /\ calls[i].work # Absent /\ calls[i].work.step = "undo" /\ Reply(i, Failure) /\ UNCHANGED page
          /\ server' = [server EXCEPT !.tokens = [server.tokens EXCEPT ![calls[i].work.token].revoked = TRUE]]
    BY DEF UndoReplacement, Store, Serving, IsWorking
  <1>2. calls[i].work.token \in 1 .. Len(server.tokens)
    BY <1>1, TokensKnown DEF TokensRequestOK
  <1> QED BY <1>1, <1>2, OneRevoked, Served DEF Answers

\* The token that is replaced was not, so nobody has been its successor.
LEMMA ReplaceTokenStep ==
  ASSUME TokensInv, ReplaceToken
  PROVE  TokensInv'
  <1>1. PICK i \in DOMAIN calls :
          /\ calls[i].work # Absent /\ calls[i].work.step = "replace" /\ UNCHANGED page
          /\ IF Revocable(calls[i].args)
             THEN /\ server' = [server EXCEPT !.tokens =
                       [server.tokens EXCEPT ![calls[i].args].revoked = TRUE, ![calls[i].work.token].won = TRUE]]
                  /\ Reply(i, calls[i].work.token)
             ELSE Work(i, [calls[i].work EXCEPT !.step = "undo"]) /\ UNCHANGED server
    BY DEF ReplaceToken, Store, Serving, IsWorking
  <1> DEFINE w == calls[i].work
             old == calls[i].args
  <1>2. /\ w \in Held /\ calls[i].op = "rotate" /\ w.token \in 1 .. Len(server.tokens)
        /\ server.tokens[w.token].from = old /\ old \in 1 .. Len(server.tokens)
    BY <1>1, TokensKnown DEF TokensRequestOK, Request
  <1>3. CASE ~Revocable(old)
    <2> DEFINE v == [w EXCEPT !.step = "undo"]
               c == [calls[i] EXCEPT !.work = v]
    <2>1. v \in Held /\ v.token = w.token /\ v.sweeps = w.sweeps /\ v.step = "undo"
      BY <1>2 DEF Held
    <2>2. c.op = calls[i].op /\ c.args = old /\ c.reply = calls[i].reply /\ c.work = v
      BY TokensKnown DEF Request
    <2> HIDE DEF c, v
    <2>3. TokensRequestOK(c, server)
      BY <1>1, <1>2, <2>1, <2>2, TokensKnown DEF TokensRequestOK
    <2>4. Work(i, v) /\ UNCHANGED server
      BY <1>1, <1>3 DEF v
    <2> QED BY <1>1, <2>1, <2>3, <2>4, OnlyServed DEF c
  <1>4. CASE Revocable(old)
    <2> DEFINE gone == [server.tokens[old] EXCEPT !.revoked = TRUE]
               mid == [server.tokens EXCEPT ![old] = gone]
               next == [mid[w.token] EXCEPT !.won = TRUE]
               after == [mid EXCEPT ![w.token] = next]
    <2>1. server.tokens \in Seq(Token) /\ server.tokens[old] \in Token
      BY <1>2, TokensKnown DEF Stores
    <2>2. gone \in Token /\ gone.revoked = TRUE /\ gone.from = server.tokens[old].from
          /\ gone.checked = server.tokens[old].checked /\ gone.late = server.tokens[old].late
          /\ gone.won = server.tokens[old].won
      BY <2>1 DEF Token
    <2>3. server' = [server EXCEPT !.tokens = after] /\ Reply(i, w.token)
      BY <1>1, <1>4, <1>2
    <2> HIDE DEF gone
    <2>4. mid \in Seq(Token) /\ Len(mid) = Len(server.tokens)
          /\ \A u \in 1 .. Len(server.tokens) : mid[u] = IF u = old THEN gone ELSE server.tokens[u]
      BY <1>2, <2>1, <2>2, TokensKnown, ExceptSeq, LenProperties
    <2> HIDE DEF mid
    <2>5. mid[w.token] \in Token
      BY <1>2, <2>4, ElementOfSeq
    <2>6. next \in Token /\ next.won = TRUE /\ next.from = mid[w.token].from
          /\ next.checked = mid[w.token].checked /\ next.late = mid[w.token].late
          /\ next.revoked = mid[w.token].revoked
      BY <2>5 DEF Token
    <2> HIDE DEF next
    <2>7. after \in Seq(Token) /\ Len(after) = Len(server.tokens)
          /\ \A u \in 1 .. Len(server.tokens) : after[u] = IF u = w.token THEN next ELSE mid[u]
      BY <1>2, <2>4, <2>6, TokensKnown, ExceptSeq, LenProperties
    <2> HIDE DEF after
    <2>8. /\ server' \in Stores /\ server'.tokens = after
          /\ server'.sweeps = server.sweeps /\ (InUse(server) => InUse(server'))
      BY <2>3, <2>7, TokensKnown DEF Stores, InUse
    <2>9. Revoked(server, server')
      <3>1. ASSUME NEW u \in 1 .. Len(server.tokens)
            PROVE  /\ server.tokens[u].revoked => mid[u].revoked
                   /\ mid[u].from = server.tokens[u].from /\ mid[u].checked = server.tokens[u].checked
                   /\ mid[u].late = server.tokens[u].late
        BY <2>2, <2>4
      <3>2. ASSUME NEW u \in 1 .. Len(server.tokens)
            PROVE  /\ mid[u].revoked => after[u].revoked
                   /\ after[u].from = mid[u].from /\ after[u].checked = mid[u].checked
                   /\ after[u].late = mid[u].late
        BY <2>6, <2>7
      <3> QED BY <2>7, <2>8, <3>1, <3>2 DEF Revoked
    <2>10. /\ \A u \in 1 .. Len(server.tokens) \ {w.token} : after[u].won = server.tokens[u].won
           /\ after[old].revoked
      BY <1>2, <2>2, <2>4, <2>6, <2>7
    <2>11. Rotated(server')
      <3>1. Rotated(server) /\ ~server.tokens[old].revoked
        BY <1>4 DEF TokensInv, Revocable
      <3>2. \A u \in 1 .. Len(server.tokens) : after[u].from = server.tokens[u].from
                                               /\ (server.tokens[u].revoked => after[u].revoked)
        BY <2>8, <2>9 DEF Revoked
      <3>3. \A u \in 1 .. Len(server.tokens) : server.tokens[u].won => server.tokens[u].from # old
        BY <3>1 DEF Rotated
      <3>4. \A u \in 1 .. Len(server.tokens) : after[u].won =>
              after[u].from \in 1 .. Len(server.tokens) /\ after[after[u].from].revoked
        BY <1>2, <2>10, <3>1, <3>2 DEF Rotated
      <3>5. \A u, v \in 1 .. Len(server.tokens) :
              after[u].won /\ after[v].won /\ after[u].from = after[v].from => u = v
        BY <1>2, <2>10, <3>1, <3>2, <3>3 DEF Rotated
      <3> QED BY <2>7, <2>8, <3>4, <3>5 DEF Rotated
    <2>12. Grown(server, server') /\ Survivors(server')
      BY <2>8, <2>9, TokensKnown, RevokedSurvivors DEF TokensInv
    <2>13. w.token \in Answers
      BY <1>2 DEF Held, Answers
    <2> QED BY <1>1, <1>2, <2>3, <2>8, <2>11, <2>12, <2>13, Served
  <1> QED BY <1>3, <1>4

LEMMA SweepStep ==
  ASSUME TokensInv, RevokeUserTokens
  PROVE  TokensInv'
  <1>1. /\ server' = [server EXCEPT !.leaving = FALSE, !.sweeps = @ + 1, !.tokens = Swept(@)]
        /\ UNCHANGED <<page, calls>>
    BY DEF RevokeUserTokens
  <1> DEFINE after == Swept(server.tokens)
  <1>2. after = [t \in 1 .. Len(server.tokens) |-> [server.tokens[t] EXCEPT !.revoked = TRUE]]
    BY TokensKnown DEF Swept
  <1>3. \A t \in 1 .. Len(server.tokens) :
          /\ [server.tokens[t] EXCEPT !.revoked = TRUE] \in Token
          /\ [server.tokens[t] EXCEPT !.revoked = TRUE].revoked = TRUE
          /\ [server.tokens[t] EXCEPT !.revoked = TRUE].from = server.tokens[t].from
          /\ [server.tokens[t] EXCEPT !.revoked = TRUE].won = server.tokens[t].won
    BY TokensKnown DEF Token
  <1>4. after \in Seq(Token) /\ Len(after) = Len(server.tokens)
    BY <1>2, <1>3, TokensKnown, IsASeq, LenProperties
  <1>5. \A t \in 1 .. Len(server.tokens) :
          /\ after[t].revoked = TRUE /\ after[t].from = server.tokens[t].from
          /\ after[t].won = server.tokens[t].won
    BY <1>2, <1>3
  <1>0. server' = [server EXCEPT !.leaving = FALSE, !.sweeps = server.sweeps + 1, !.tokens = after]
    BY <1>1
  <1> HIDE DEF after
  <1>6. /\ server' \in Stores /\ server'.tokens = after /\ server'.sweeps = server.sweeps + 1
    <2>1. server \in Stores /\ server.sweeps + 1 \in Nat
      BY TokensKnown
    <2>2. after \in Seq(Token)
      BY <1>4
    <2> QED BY <1>0, <2>1, <2>2 DEF Stores
  <1>7. Grown(server, server')
    BY <1>4, <1>5, <1>6, TokensKnown DEF Grown
  <1>8. Survivors(server')
    BY <1>4, <1>5, <1>6 DEF Survivors
  <1>9. Rotated(server')
    <2>1. Rotated(server)
      BY DEF TokensInv
    <2>2. \A t \in 1 .. Len(server.tokens) : after[t].won =>
            after[t].from \in 1 .. Len(server.tokens) /\ after[after[t].from].revoked
      BY <1>5, <2>1 DEF Rotated
    <2>3. \A t, u \in 1 .. Len(server.tokens) :
            after[t].won /\ after[u].won /\ after[t].from = after[u].from => t = u
      BY <1>5, <2>1 DEF Rotated
    <2> QED BY <1>4, <1>6, <2>2, <2>3 DEF Rotated
  <1>10. RequestsOK'
    BY <1>1, <1>6, <1>7, TokensKnown, RequestOKStays DEF RequestsOK
  <1> QED BY <1>1, <1>4, <1>6, <1>8, <1>9, <1>10 DEF TokensInv, Types, TokensPageOK, Rotated, Survivors, InUse

\* The account leaves its use only with the sweep.
LEMMA AccountStep ==
  ASSUME TokensInv, Deactivate \/ Reactivate
  PROVE  TokensInv'
  <1>1. /\ server' \in Stores /\ server'.tokens = server.tokens /\ server'.sweeps = server.sweeps
        /\ InUse(server') /\ UNCHANGED <<page, calls>>
    <2>1. CASE Deactivate
      BY <2>1, TokensKnown DEF Deactivate, Stores, InUse
    <2>2. CASE Reactivate
      BY <2>2, TokensKnown DEF Reactivate, Stores, InUse
    <2> QED BY <2>1, <2>2
  <1>2. Grown(server, server')
    BY <1>1, TokensKnown DEF Grown
  <1>3. RequestsOK'
    BY <1>1, <1>2, TokensKnown, RequestOKStays DEF RequestsOK
  <1>4. Rotated(server') /\ Survivors(server')
    BY <1>1 DEF TokensInv, Rotated, Survivors
  <1> QED BY <1>1, <1>3, <1>4 DEF TokensInv, Types, TokensPageOK, Rotated, Survivors, InUse

LEMMA TokensLoseStep ==
  ASSUME TokensInv, Lose
  PROVE  TokensInv'
  <1>1. PICK i \in DOMAIN calls : Reply(i, Failure) /\ UNCHANGED <<page, server>>
    BY DEF Lose
  <1> QED BY <1>1, OnlyServed DEF Answers

LEMMA TokensNextInv == TokensInv /\ [TokensNext \/ Lose]_vars => TokensInv'
  <1> SUFFICES ASSUME TokensInv, [TokensNext \/ Lose]_vars PROVE TokensInv'
    OBVIOUS
  <1>1. CASE UNCHANGED vars
    BY <1>1 DEF vars, TokensInv, Types, RequestsOK, TokensPageOK, Rotated, Survivors, InUse, TokensRequestOK
  <1> QED BY <1>1, ClickStep, TokenAnswerStep, ListAnswerStep, ListTokensStep, CheckOwnerStep,
             InsertTokenStep, ReplaceTokenStep, UndoReplacementStep, RevokeStoredStep,
             AccountStep, SweepStep, TokensLoseStep DEF TokensNext

-------------------------------------------------------------------------------

\* What the requests on their way know of the tokens (api_tokens.py:114-259) is
\* true whatever the other requests and the account do meanwhile.
THEOREM TokensInvariant == TokensSpec => []TokensInv
  BY TokensInitInv, TokensNextInv, PTL DEF TokensSpec

\* Two rotations of one token, each with its own look at it, never both hand a
\* new token over, and the one that does has ended the old one
\* (api_tokens.py:223-252), however many requests, revocations, losses and
\* deactivations come between their steps.
THEOREM RotationCorrect == TokensSpec => []RotationHandsOver
  <1>1. TokensInv => RotationHandsOver
    BY TokensKnown DEF TokensInv, Rotated, RotationHandsOver
  <1> QED BY <1>1, TokensInvariant, PTL

\* Only a token whose request was between its look at the owner and its insert
\* when the account was swept outlives the account (api_tokens.py:121, 138).
THEOREM DeactivationCorrect == TokensSpec => []OnlyLateTokensSurvive
  <1>1. TokensInv => OnlyLateTokensSurvive
    BY TokensKnown DEF TokensInv, Survivors, InUse, OnlyLateTokensSurvive
  <1> QED BY <1>1, TokensInvariant, PTL

-------------------------------------------------------------------------------
(* The part numbers alone, opened on some schemes, with all parts of the   *)
(* page or some.                                                           *)

AddinInit == \E on \in [Schemes -> BOOLEAN], parts \in SUBSET {"tokens", "switches", "builder"} :
  /\ page = AddinStart(on, parts)
  /\ calls = <<>>
  /\ server = AddinServer(on)
  /\ left \in Nat

AddinSpec == AddinInit /\ [][AddinNext \/ Lose]_vars

-------------------------------------------------------------------------------
(* The inductive invariant.                                                *)

AddinFields ==
  {"at", "parts", "user", "tokens", "loaded", "drafts", "saving", "segments", "editor", "draft",
   "next", "strayed", "example", "doubt"}

Piece == [uid : Nat, kind : {"literal", "seq"}, auto : BOOLEAN]

OneAuto(s) == Counters(s) # {} => Cardinality(Autos(s)) = 1

AddinPageOK(p) ==
  /\ DOMAIN p = AddinFields /\ p.at = "addin"
  /\ p.segments \in Seq(Piece) /\ p.draft \in Piece /\ p.next \in Nat /\ p.editor \in Nat
  /\ p.doubt \in BOOLEAN /\ p.strayed \in BOOLEAN
  /\ OneAuto(p.segments)
  /\ p.user # Absent => p.tokens \subseteq OwnTokens(p.user)
  /\ p.editor # 0 /\ ~p.strayed =>
       p.editor \in DOMAIN p.segments /\ p.segments[p.editor].uid = p.draft.uid

\* What is asked and answered: tokens are the asked user's, a new pattern is
\* normal, and a list of schemes is read for one of three reasons.
AddinRequestOK(c) ==
  /\ DOMAIN c = CallFields
  /\ c.op = "userTokens" /\ c.reply \notin {Absent, Failure} => c.reply \subseteq OwnTokens(c.args)
  /\ c.op = "create" => OneAuto(c.args)
  /\ c.op = "schemes" => c.args \in {"saved", "deleted", "created"}

StoreOK(s) ==
  /\ DOMAIN s = {"good", "schemes", "created"}
  /\ IsSequence(s.created) /\ \A t \in Elems(s.created) : OneAuto(t)

\* The example, here or on its way, is of the pattern on screen.
ExampleOK(p, cs) ==
  ~p.doubt =>
    /\ p.example # Absent => p.example = p.segments
    /\ \A c \in Elems(cs) : c.op = "check" =>
         c.args = p.segments /\ (c.reply \notin {Absent, Failure} => c.reply = c.args)

AddinInv ==
  /\ AddinPageOK(page) /\ StoreOK(server) /\ ExampleOK(page, calls)
  /\ IsSequence(calls) /\ \A c \in Elems(calls) : AddinRequestOK(c)

-------------------------------------------------------------------------------
(* Patterns.                                                               *)

LEMMA LeastNumber ==
  ASSUME NEW S \in SUBSET Nat, S # {}
  PROVE  Min(S) \in S
  <1> DEFINE LessThan == {ss \in Nat \X Nat : ss[1] < ss[2]}
  <1>1. IsWellFoundedOn(LessThan, Nat)
    <2>1. OpToRel(<, Nat) = LessThan
      BY DEF OpToRel
    <2> QED BY <2>1, NatLessThanWellFounded
  <1>2. PICK x \in S : \A y \in S : <<y, x>> \notin LessThan
    <2> HIDE DEF LessThan
    <2> QED BY <1>1, WFMin
  <1>3. ASSUME NEW y \in S PROVE x <= y
    <2>1. <<y, x>> \in Nat \X Nat /\ <<y, x>>[1] = y /\ <<y, x>>[2] = x
      OBVIOUS
    <2>2. y < x => <<y, x>> \in LessThan
      BY <2>1
    <2> HIDE DEF LessThan
    <2>3. ~(y < x)
      BY <1>2, <2>2
    <2> QED BY <2>3
  <1> QED BY <1>3 DEF Min

\* Normalizing keeps the pieces and leaves one automatic counter.
LEMMA Normal ==
  ASSUME NEW s \in Seq(Piece)
  PROVE  /\ NormalizeSequenceSegments(s) \in Seq(Piece)
         /\ DOMAIN NormalizeSequenceSegments(s) = DOMAIN s
         /\ \A k \in DOMAIN s : NormalizeSequenceSegments(s)[k].uid = s[k].uid
         /\ OneAuto(NormalizeSequenceSegments(s))
  <1> DEFINE first == IF Autos(s) # {} THEN Min(Autos(s)) ELSE Min(Counters(s))
             n == [k \in DOMAIN s |-> [s[k] EXCEPT !.auto = (k = first)]]
  <1>1. DOMAIN s = 1 .. Len(s) /\ Len(s) \in Nat /\ \A k \in DOMAIN s : s[k] \in Piece
    BY LenProperties, ElementOfSeq
  <1>2. CASE Counters(s) = {}
    BY <1>2 DEF NormalizeSequenceSegments, OneAuto
  <1>3. CASE Counters(s) # {}
    <2>1. Autos(s) \in SUBSET Nat /\ Counters(s) \in SUBSET Nat /\ Autos(s) \subseteq Counters(s)
      BY <1>1 DEF Autos, Counters
    <2>2. first \in Counters(s)
      BY <1>3, <2>1, LeastNumber
    <2>3. NormalizeSequenceSegments(s) = n
      BY <1>3 DEF NormalizeSequenceSegments
    <2> HIDE DEF first
    <2>4. \A k \in DOMAIN s : /\ n[k] \in Piece /\ n[k].uid = s[k].uid /\ n[k].kind = s[k].kind
                              /\ n[k].auto = (k = first)
      BY <1>1 DEF Piece
    <2>5. DOMAIN n = DOMAIN s
      OBVIOUS
    <2> HIDE DEF n
    <2>6. n \in Seq(Piece)
      <3>1. n = [k \in 1 .. Len(s) |-> n[k]]
        BY <1>1, <2>5 DEF n
      <3> QED BY <1>1, <2>4, <3>1, IsASeq
    <2>7. Counters(n) = Counters(s)
      BY <2>4, <2>5 DEF Counters
    <2>8. Autos(n) = {first}
      BY <2>2, <2>4, <2>5, <2>7 DEF Autos, Counters
    <2>9. Cardinality(Autos(n)) = 1
      BY <2>8, FS_Singleton
    <2> QED BY <2>3, <2>4, <2>5, <2>6, <2>9 DEF OneAuto
  <1> QED BY <1>2, <1>3

-------------------------------------------------------------------------------
(* What has to be shown of a step.                                         *)

\* The pattern and its example are as before, and no doubt was given up.
SamePattern(p, q) ==
  /\ q.segments = p.segments /\ q.example = p.example
  /\ p.doubt => q.doubt

LEMMA Keeps ==
  ASSUME AddinInv, AddinPageOK(page'), SamePattern(page, page'), StoreOK(server'), IsSequence(calls'),
         \A c \in Elems(calls') : c \in Elems(calls) \/ (AddinRequestOK(c) /\ c.op # "check")
  PROVE  AddinInv'
  <1>1. ExampleOK(page, calls)'
    BY DEF AddinInv, ExampleOK, SamePattern
  <1>2. \A c \in Elems(calls') : AddinRequestOK(c)
    BY DEF AddinInv
  <1> QED BY <1>1, <1>2 DEF AddinInv

\* A request is sent, after another one was taken or not.
LEMMA Sends ==
  ASSUME AddinInv, NEW STATE s, IsSequence(s), Elems(s) \subseteq Elems(calls),
         NEW STATE c, AddinRequestOK(c), c.op # "check", calls' = s \o <<c>>,
         AddinPageOK(page'), SamePattern(page, page'), UNCHANGED server
  PROVE  AddinInv'
  <1>1. IsSequence(calls') /\ Elems(calls') = Elems(s) \cup {c}
    BY Few, Joined
  <1>2. StoreOK(server')
    BY DEF AddinInv
  <1> QED BY <1>1, <1>2, Keeps

\* An answer is taken and nothing is sent.
LEMMA Takes ==
  ASSUME AddinInv, NEW i \in DOMAIN calls, Take(i), AddinPageOK(page'), SamePattern(page, page'), UNCHANGED server
  PROVE  AddinInv'
  <1>1. IsSequence(calls') /\ Elems(calls') \subseteq Elems(calls)
    BY Remaining DEF AddinInv, Take
  <1>2. StoreOK(server')
    BY DEF AddinInv
  <1> QED BY <1>1, <1>2, Keeps

\* A request is answered by the server.
LEMMA Replies ==
  ASSUME AddinInv, NEW i \in DOMAIN calls, NEW STATE r, Reply(i, r), UNCHANGED page, StoreOK(server'),
         calls[i].op = "userTokens" => r = Failure \/ r \subseteq OwnTokens(calls[i].args),
         calls[i].op = "check" => r \in {Failure, calls[i].args}
  PROVE  AddinInv'
  <1>1. calls[i] \in Elems(calls) /\ AddinRequestOK(calls[i]) /\ DOMAIN calls[i] = CallFields
    BY DEF AddinInv, Elems, AddinRequestOK
  <1>2. PICK c : /\ DOMAIN c = CallFields /\ c.op = calls[i].op /\ c.args = calls[i].args /\ c.reply = r
                 /\ IsSequence(calls') /\ Elems(calls') \subseteq Elems(calls) \cup {c}
    <2>1. IsSequence(calls)
      BY DEF AddinInv
    <2> QED BY <1>1, <2>1, Answered
  <1>3. AddinRequestOK(c)
    BY <1>1, <1>2 DEF AddinRequestOK
  <1>4. ExampleOK(page, calls)'
    BY <1>1, <1>2 DEF AddinInv, ExampleOK
  <1> QED BY <1>2, <1>3, <1>4 DEF AddinInv

\* The fields of a request that was just made.
LEMMA NewCall ==
  ASSUME NEW op, NEW args
  PROVE  /\ DOMAIN Call(op, args) = CallFields /\ Call(op, args).op = op
         /\ Call(op, args).args = args /\ Call(op, args).reply = Absent
  BY DEF Call, CallFields

-------------------------------------------------------------------------------
(* Tokens of a user.                                                       *)

\* The page asks and stays as it is.
LEMMA AsksOnly ==
  ASSUME AddinInv, NEW op, NEW args, AskServer(page, op, args), op \notin {"check", "schemes"},
         op = "create" => OneAuto(args)
  PROVE  AddinInv'
  <1>1. calls' = calls \o <<Call(op, args)>> /\ UNCHANGED <<page, server>>
    BY DEF AskServer, Show, Send
  <1>2. AddinRequestOK(Call(op, args)) /\ Call(op, args).op # "check"
    BY NewCall DEF AddinRequestOK
  <1>3. AddinPageOK(page') /\ SamePattern(page, page')
    BY <1>1 DEF AddinInv, SamePattern
  <1> QED BY <1>1, <1>2, <1>3, Sends DEF AddinInv

LEMMA TokensStep ==
  ASSUME AddinInv, TokensPart
  PROVE  AddinInv'
  <1>1. ASSUME NEW u \in Owners, LoadUserTokens(u) PROVE AddinInv'
    BY <1>1, AsksOnly DEF LoadUserTokens, ClickUser
  <1>2. ASSUME RevokeUserToken PROVE AddinInv'
    BY <1>2, AsksOnly DEF RevokeUserToken
  <1>3. ASSUME RevokeAllTokens PROVE AddinInv'
    BY <1>3, AsksOnly DEF RevokeAllTokens
  <1>4. ASSUME UserTokensAnswer PROVE AddinInv'
    <2>1. PICK i \in DOMAIN calls :
            /\ IsAnswered(i, "userTokens")
            /\ page' = IF Failed(i) THEN page
                       ELSE [page EXCEPT !.user = calls[i].args, !.tokens = calls[i].reply]
            /\ Take(i) /\ UNCHANGED server
      BY <1>4 DEF UserTokensAnswer, Show, HandledHere
    <2>2. AddinRequestOK(calls[i])
      BY DEF AddinInv, Elems
    <2>3. CASE Failed(i)
      BY <2>1, <2>3, Takes DEF AddinInv, SamePattern
    <2>4. CASE ~Failed(i)
      <3>1. calls[i].reply \subseteq OwnTokens(calls[i].args)
        BY <2>1, <2>2, <2>4 DEF AddinRequestOK, IsAnswered, Failed
      <3>2. AddinPageOK(page') /\ SamePattern(page, page')
        BY <2>1, <2>4, <3>1 DEF AddinInv, AddinPageOK, AddinFields, SamePattern
      <3> QED BY <2>1, <3>2, Takes
    <2> QED BY <2>3, <2>4
  <1>5. ASSUME RevokedAnswer PROVE AddinInv'
    <2>1. PICK i \in DOMAIN calls :
            \/ Take(i) /\ UNCHANGED <<page, server>>
            \/ /\ calls' = Others(i) \o <<Call("userTokens", calls[i].args.user)>>
               /\ UNCHANGED <<page, server>>
      <3>1. PICK i \in DOMAIN calls :
              /\ TakeAndSend(i, IF Failed(i) \/ calls[i].args.user = Absent THEN <<>>
                                ELSE <<Call("userTokens", calls[i].args.user)>>)
              /\ UNCHANGED <<page, server>>
        BY <1>5 DEF RevokedAnswer, HandledHere
      <3>2. Others(i) \o <<>> = Others(i)
        <4>1. \E S : Others(i) \in Seq(S)
          BY Remaining DEF AddinInv, IsSequence
        <4> QED BY <4>1, ConcatEmptySeq
      <3> QED BY <3>1, <3>2 DEF TakeAndSend, Take
    <2>2. AddinPageOK(page) /\ SamePattern(page, page)
      BY DEF AddinInv, SamePattern
    <2>3. CASE Take(i) /\ UNCHANGED <<page, server>>
      BY <2>2, <2>3, Takes
    <2>4. CASE /\ calls' = Others(i) \o <<Call("userTokens", calls[i].args.user)>>
               /\ UNCHANGED <<page, server>>
      <3>1. /\ AddinRequestOK(Call("userTokens", calls[i].args.user))
            /\ Call("userTokens", calls[i].args.user).op # "check"
        BY NewCall DEF AddinRequestOK
      <3>2. IsSequence(Others(i)) /\ Elems(Others(i)) \subseteq Elems(calls)
        BY Remaining DEF AddinInv
      <3> QED BY <2>2, <2>4, <3>1, <3>2, Sends
    <2> QED BY <2>1, <2>3, <2>4
  <1>6. ASSUME ListUserTokens PROVE AddinInv'
    <2>1. PICK i \in DOMAIN calls :
            /\ calls[i].op = "userTokens" /\ Reply(i, server.good \cap OwnTokens(calls[i].args))
            /\ UNCHANGED <<page, server>>
      BY <1>6 DEF ListUserTokens, IsAsked, Handled
    <2>2. StoreOK(server')
      BY <2>1 DEF AddinInv
    <2> QED BY <2>1, <2>2, Replies
  <1>7. ASSUME RevokeOfUser PROVE AddinInv'
    <2>1. PICK i \in DOMAIN calls : \E r \in {TRUE, Failure} :
            /\ calls[i].op = "revokeToken" /\ Reply(i, r) /\ UNCHANGED page
            /\ UNCHANGED server \/ server' = [server EXCEPT !.good = @ \ {calls[i].args.token}]
      BY <1>7 DEF RevokeOfUser, IsAsked, Handled
    <2>2. StoreOK(server')
      BY <2>1 DEF AddinInv, StoreOK
    <2> QED BY <2>1, <2>2, Replies
  <1>8. ASSUME RevokeOfAll PROVE AddinInv'
    <2>1. PICK i \in DOMAIN calls :
            /\ calls[i].op = "revokeAll" /\ Reply(i, TRUE) /\ UNCHANGED page
            /\ server' = [server EXCEPT !.good = {}]
      BY <1>8 DEF RevokeOfAll, IsAsked, Handled
    <2>2. StoreOK(server')
      BY <2>1 DEF AddinInv, StoreOK
    <2> QED BY <2>1, <2>2, Replies
  <1> QED BY <1>1, <1>2, <1>3, <1>4, <1>5, <1>6, <1>7, <1>8 DEF TokensPart

-------------------------------------------------------------------------------
(* The switches of the schemes.                                            *)

LEMMA NextChangeOK ==
  ASSUME NEW todo, NEW active
  PROVE  AddinRequestOK(NextChange(todo, active)) /\ NextChange(todo, active).op # "check"
  <1>1. CASE todo = {}
    BY <1>1, NewCall DEF NextChange, ListSchemes, AddinRequestOK
  <1>2. CASE todo # {}
    <2> DEFINE t == CHOOSE t \in todo : TRUE
    <2>1. NextChange(todo, active) = Call("enable", [scheme |-> t, active |-> active, todo |-> todo \ {t}])
      BY <1>2 DEF NextChange
    <2> HIDE DEF t
    <2> QED BY <2>1, NewCall DEF AddinRequestOK
  <1> QED BY <1>1, <1>2

\* An answer is taken, and what follows from it is sent.
LEMMA TakesAndSends ==
  ASSUME AddinInv, NEW i \in DOMAIN calls, NEW c, AddinRequestOK(c), c.op # "check",
         TakeAndSend(i, <<c>>), AddinPageOK(page'), SamePattern(page, page'), UNCHANGED server
  PROVE  AddinInv'
  <1>1. IsSequence(Others(i)) /\ Elems(Others(i)) \subseteq Elems(calls)
    BY Remaining DEF AddinInv
  <1> QED BY <1>1, Sends DEF TakeAndSend

LEMMA SwitchesStep ==
  ASSUME AddinInv, SwitchesPart
  PROVE  AddinInv'
  <1>0. AddinPageOK(page) /\ DOMAIN page = AddinFields /\ page.doubt \in BOOLEAN /\ StoreOK(server)
    BY DEF AddinInv, AddinPageOK
  <1>1. ASSUME NEW s \in Schemes, FlipSwitch(s) PROVE AddinInv'
    <2>1. page' = [page EXCEPT !.drafts[s] = ~@] /\ UNCHANGED <<calls, server>>
      BY <1>1 DEF FlipSwitch, EditPage, Show
    <2>2. AddinPageOK(page') /\ SamePattern(page, page')
      BY <1>0, <2>1 DEF AddinPageOK, AddinFields, SamePattern
    <2> QED BY <1>0, <2>1, <2>2, Keeps DEF AddinInv
  <1>2. ASSUME NEW s \in Schemes, DeleteScheme(s) PROVE AddinInv'
    BY <1>2, AsksOnly DEF DeleteScheme
  <1>3. ASSUME SaveEnabledChanges PROVE AddinInv'
    <2>1. /\ page' = [page EXCEPT !.saving = TRUE] /\ UNCHANGED server
          /\ calls' = calls \o <<NextChange(Changed(page), page.drafts)>>
      BY <1>3 DEF SaveEnabledChanges, Show, Send
    <2>2. AddinPageOK(page') /\ SamePattern(page, page')
      BY <1>0, <2>1 DEF AddinPageOK, AddinFields, SamePattern
    <2>3. /\ AddinRequestOK(NextChange(Changed(page), page.drafts))
          /\ NextChange(Changed(page), page.drafts).op # "check"
      BY NextChangeOK
    <2> QED BY <2>1, <2>2, <2>3, Sends DEF AddinInv
  <1>4. ASSUME EnableScheme PROVE AddinInv'
    <2>1. PICK i \in DOMAIN calls : \E r \in {TRUE, Failure} :
            /\ calls[i].op = "enable" /\ Reply(i, r) /\ UNCHANGED page
            /\ \/ UNCHANGED server
               \/ server' = [server EXCEPT !.schemes[calls[i].args.scheme] =
                                             calls[i].args.active[calls[i].args.scheme]]
      BY <1>4 DEF EnableScheme, IsAsked, Handled
    <2>2. StoreOK(server')
      BY <1>0, <2>1 DEF StoreOK
    <2> QED BY <2>1, <2>2, Replies
  <1>5. ASSUME EnabledAnswer PROVE AddinInv'
    <2>1. PICK i \in DOMAIN calls :
            /\ IF Failed(i)
               THEN page' = [page EXCEPT !.saving = FALSE, !.doubt = TRUE] /\ Take(i)
               ELSE page' = [page EXCEPT !.doubt = Overlapping] /\ TakeAndSend(i, Following(i))
            /\ UNCHANGED server
      BY <1>5 DEF EnabledAnswer, Show, HandledHere
    <2>2. AddinPageOK(page') /\ SamePattern(page, page')
      BY <1>0, <2>1 DEF AddinPageOK, AddinFields, SamePattern, Overlapping, Waiting
    <2>3. CASE Failed(i)
      BY <2>1, <2>2, <2>3, Takes
    <2>4. CASE ~Failed(i)
      <3> DEFINE c == NextChange(calls[i].args.todo, calls[i].args.active)
      <3>1. TakeAndSend(i, <<c>>)
        BY <2>1, <2>4 DEF Following
      <3>2. AddinRequestOK(c) /\ c.op # "check"
        BY NextChangeOK
      <3> HIDE DEF c
      <3> QED BY <2>1, <2>2, <3>1, <3>2, TakesAndSends
    <2> QED BY <2>3, <2>4
  <1>6. ASSUME DeleteStored PROVE AddinInv'
    <2>1. PICK i \in DOMAIN calls : \E r \in {TRUE, Failure} :
            /\ calls[i].op = "deleteScheme" /\ Reply(i, r) /\ UNCHANGED page
            /\ \/ UNCHANGED server
               \/ \E f : server' = [server EXCEPT !.schemes = f]
      BY <1>6 DEF DeleteStored, IsAsked, Handled
    <2>2. StoreOK(server')
      BY <1>0, <2>1 DEF StoreOK
    <2> QED BY <2>1, <2>2, Replies
  <1>7. ASSUME DeletedAnswer PROVE AddinInv'
    <2>1. PICK i \in DOMAIN calls :
            /\ IF Failed(i)
               THEN page' = [page EXCEPT !.doubt = TRUE] /\ Take(i)
               ELSE page' = [page EXCEPT !.doubt = Overlapping] /\ TakeAndSend(i, <<ListSchemes("deleted")>>)
            /\ UNCHANGED server
      BY <1>7 DEF DeletedAnswer, Show, HandledHere
    <2>2. AddinPageOK(page') /\ SamePattern(page, page')
      BY <1>0, <2>1 DEF AddinPageOK, AddinFields, SamePattern, Overlapping, Waiting
    <2>3. AddinRequestOK(ListSchemes("deleted")) /\ ListSchemes("deleted").op # "check"
      BY NewCall DEF ListSchemes, AddinRequestOK
    <2>4. CASE Failed(i)
      BY <2>1, <2>2, <2>4, Takes
    <2>5. CASE ~Failed(i)
      BY <2>1, <2>2, <2>3, <2>5, TakesAndSends
    <2> QED BY <2>4, <2>5
  <1> QED BY <1>1, <1>2, <1>3, <1>4, <1>5, <1>6, <1>7 DEF SwitchesPart

-------------------------------------------------------------------------------
(* The builder.                                                            *)

\* A new pattern has no example, and doubts the one on its way.
LEMMA Repatterned ==
  ASSUME AddinInv, AddinPageOK(page'), StoreOK(server'), page'.example = Absent,
         page.doubt \/ Waiting("check") => page'.doubt, IsSequence(calls'),
         \A c \in Elems(calls') : c \in Elems(calls) \/ (AddinRequestOK(c) /\ c.op # "check")
  PROVE  AddinInv'
  <1>1. ~page'.doubt => \A c \in Elems(calls) : c.op # "check"
    BY DEF Waiting, Elems
  <1>2. ExampleOK(page, calls)'
    BY <1>1 DEF ExampleOK
  <1>3. \A c \in Elems(calls') : AddinRequestOK(c)
    BY DEF AddinInv
  <1> QED BY <1>2, <1>3 DEF AddinInv

\* What Pattern changes, and what it keeps.
LEMMA PatternFields ==
  ASSUME AddinPageOK(page), NEW s \in Seq(Piece), NEW q, q = Pattern(page, s)
  PROVE  /\ DOMAIN q = AddinFields /\ q.at = "addin"
         /\ q.segments \in Seq(Piece) /\ OneAuto(q.segments) /\ DOMAIN q.segments = DOMAIN s
         /\ \A k \in DOMAIN s : q.segments[k].uid = s[k].uid
         /\ q.user = page.user /\ q.tokens = page.tokens /\ q.draft = page.draft /\ q.next = page.next
         /\ q.editor = page.editor /\ q.strayed = page.strayed
         /\ q.example = Absent /\ q.doubt = (page.doubt \/ Waiting("check"))
  <1> DEFINE n == NormalizeSequenceSegments(s)
  <1>1. /\ n \in Seq(Piece) /\ DOMAIN n = DOMAIN s
        /\ \A k \in DOMAIN s : n[k].uid = s[k].uid
        /\ OneAuto(n)
    BY Normal
  <1>2. q = [page EXCEPT !.segments = n, !.example = Absent, !.doubt = @ \/ Waiting("check")]
    BY DEF Pattern
  <1> HIDE DEF n
  <1> QED BY <1>1, <1>2 DEF AddinPageOK, AddinFields

\* The draft is given up and a new one is begun.
LEMMA DraftDropped ==
  ASSUME NEW q, DOMAIN q = AddinFields, q.at = "addin", q.segments \in Seq(Piece), OneAuto(q.segments),
         q.next \in Nat, q.doubt \in BOOLEAN, q.user # Absent => q.tokens \subseteq OwnTokens(q.user)
  PROVE  /\ AddinPageOK(NoDraft(q)) /\ NoDraft(q).segments = q.segments
         /\ NoDraft(q).example = q.example /\ NoDraft(q).doubt = q.doubt
  <1>1. Literal(q.next) \in Piece /\ q.next + 1 \in Nat
    BY DEF Literal, Piece
  <1> QED BY <1>1 DEF NoDraft, AddinPageOK, AddinFields

LEMMA FirstPattern ==
  /\ NewPattern \in Seq(Piece) /\ OneAuto(NewPattern)
  /\ \A n \in Nat : Literal(n) \in Piece
  <1>1. /\ Literal(1) \in Piece /\ Counter(2, TRUE) \in Piece /\ \A n \in Nat : Literal(n) \in Piece
        /\ Literal(1).kind = "literal" /\ Counter(2, TRUE).kind = "seq" /\ Counter(2, TRUE).auto
    BY DEF Literal, Counter, Piece
  <1>2. /\ NewPattern \in Seq(Piece) /\ DOMAIN NewPattern = {1, 2}
        /\ NewPattern[1] = Literal(1) /\ NewPattern[2] = Counter(2, TRUE)
    <2>1. ASSUME NEW a \in Piece, NEW b \in Piece
          PROVE  <<a, b>> \in Seq(Piece) /\ DOMAIN <<a, b>> = {1, 2} /\ <<a, b>>[1] = a /\ <<a, b>>[2] = b
      <3>1. Len(<<a, b>>) = 2 /\ 1 .. 2 = {1, 2} /\ <<a, b>>[1] = a /\ <<a, b>>[2] = b
        OBVIOUS
      <3>2. <<a, b>> \in Seq(Piece)
        OBVIOUS
      <3>3. DOMAIN <<a, b>> = 1 .. 2
        BY <3>1, <3>2, LenProperties
      <3> QED BY <3>1, <3>2, <3>3
    <2> QED BY <1>1, <2>1 DEF NewPattern
  <1>3. Autos(NewPattern) = {2}
    BY <1>1, <1>2 DEF Autos, Counters
  <1>4. Cardinality(Autos(NewPattern)) = 1
    BY <1>3, FS_Singleton
  <1> QED BY <1>1, <1>2, <1>4 DEF OneAuto

\* The builder starts afresh, with the button or after a scheme was created.
LEMMA Afresh ==
  ASSUME NEW p, AddinPageOK(p)
  PROVE  /\ AddinPageOK(StartBuilder(p)) /\ StartBuilder(p).example = Absent
         /\ p.doubt \/ Waiting("check") => StartBuilder(p).doubt
  BY FirstPattern DEF StartBuilder, AddinPageOK, AddinFields

LEMMA Shortened ==
  ASSUME NEW s \in Seq(Piece), NEW k \in DOMAIN s
  PROVE  /\ Without(s, k) \in Seq(Piece) /\ DOMAIN Without(s, k) = 1 .. Len(s) - 1
         /\ \A j \in 1 .. Len(s) - 1 : j < k => Without(s, k)[j] = s[j]
  <1>1. DOMAIN s = 1 .. Len(s) /\ Len(s) \in Nat /\ \A j \in DOMAIN s : s[j] \in Piece
    BY LenProperties, ElementOfSeq
  <1> DEFINE e(j) == s[IF j < k THEN j ELSE j + 1]
  <1>2. \A j \in 1 .. Len(s) - 1 : e(j) \in Piece
    BY <1>1
  <1>3. Without(s, k) = [j \in 1 .. Len(s) - 1 |-> e(j)]
    BY DEF Without
  <1>4. \A j \in 1 .. Len(s) - 1 : j < k => e(j) = s[j]
    OBVIOUS
  <1> HIDE DEF e
  <1>5. Len(s) - 1 \in Nat
    BY <1>1
  <1> QED BY <1>2, <1>3, <1>4, <1>5, IsASeq

\* Clicks and keys that edit the draft or the pattern.
LEMMA EditsStep ==
  ASSUME AddinInv,
         \/ \E auto \in BOOLEAN : DraftCounter(auto)
         \/ EditPage(StartBuilder(page))
         \/ EditSegment \/ CancelEdit \/ ApplyDraft \/ RemoveSegment \/ MoveSegment
  PROVE  AddinInv'
  <1>0. /\ AddinPageOK(page) /\ DOMAIN page = AddinFields /\ page.segments \in Seq(Piece) /\ page.doubt \in BOOLEAN
        /\ page.draft \in Piece /\ page.next \in Nat /\ page.editor \in Nat /\ page.strayed \in BOOLEAN
        /\ StoreOK(server) /\ IsSequence(calls) /\ Waiting("check") \in BOOLEAN
        /\ DOMAIN page.segments = 1 .. Len(page.segments) /\ Len(page.segments) \in Nat
        /\ \A k \in DOMAIN page.segments : page.segments[k] \in Piece
    <2>1. AddinPageOK(page) /\ page.segments \in Seq(Piece) /\ Waiting("check") \in BOOLEAN
      BY DEF AddinInv, AddinPageOK, Waiting
    <2> QED BY <2>1, LenProperties, ElementOfSeq DEF AddinInv, AddinPageOK
  <1> DEFINE Kept(p) == EditPage(p) /\ AddinPageOK(p) /\ SamePattern(page, p)
             Again(p) == /\ EditPage(p) /\ AddinPageOK(p) /\ p.example = Absent
                         /\ page.doubt \/ Waiting("check") => p.doubt
  <1>k. ASSUME NEW p, Kept(p) PROVE AddinInv'
    BY <1>0, <1>k, Keeps DEF EditPage, Show
  <1>a. ASSUME NEW p, Again(p) PROVE AddinInv'
    BY <1>0, <1>a, Repatterned DEF EditPage, Show
  <1>1. ASSUME NEW auto \in BOOLEAN, DraftCounter(auto) PROVE AddinInv'
    <2> DEFINE d == [page.draft EXCEPT !.kind = "seq", !.auto = auto]
               p == [page EXCEPT !.draft = d]
    <2>1. d \in Piece /\ d.uid = page.draft.uid
      BY <1>0 DEF Piece
    <2>2. EditPage(p)
      BY <1>0, <1>1 DEF DraftCounter, AddinFields
    <2> HIDE DEF d
    <2>3. AddinPageOK(p) /\ SamePattern(page, p)
      BY <1>0, <2>1 DEF AddinPageOK, AddinFields, SamePattern
    <2> HIDE DEF p
    <2> QED BY <1>k, <2>2, <2>3
  <1>2. ASSUME EditPage(StartBuilder(page)) PROVE AddinInv'
    BY <1>0, <1>a, <1>2, Afresh
  <1>3. ASSUME EditSegment PROVE AddinInv'
    <2>1. PICK k \in DOMAIN page.segments :
            EditPage([page EXCEPT !.editor = k, !.draft = page.segments[k], !.strayed = FALSE])
      BY <1>3 DEF EditSegment
    <2> DEFINE p == [page EXCEPT !.editor = k, !.draft = page.segments[k], !.strayed = FALSE]
    <2>2. k \in Nat /\ page.segments[k] \in Piece
      BY <1>0
    <2>3. AddinPageOK(p) /\ SamePattern(page, p)
      BY <1>0, <2>2 DEF AddinPageOK, AddinFields, SamePattern
    <2>4. EditPage(p)
      BY <2>1
    <2> HIDE DEF p
    <2> QED BY <1>k, <2>3, <2>4
  <1>4. ASSUME CancelEdit PROVE AddinInv'
    <2>1. AddinPageOK(NoDraft(page)) /\ SamePattern(page, NoDraft(page))
      BY <1>0, DraftDropped DEF AddinPageOK, SamePattern
    <2> QED BY <1>k, <1>4, <2>1 DEF CancelEdit
  <1>5. ASSUME ApplyDraft PROVE AddinInv'
    <2>1. PICK s \in Seq(Piece) : EditPage(NoDraft(Pattern(page, s)))
      <3> DEFINE s == IF page.editor = 0 THEN Append(page.segments, page.draft)
                      ELSE [k \in DOMAIN page.segments |-> IF k = page.editor THEN page.draft
                                                            ELSE page.segments[k]]
      <3>1. EditPage(NoDraft(Pattern(page, s)))
        BY <1>5 DEF ApplyDraft
      <3>2. CASE page.editor = 0
        BY <1>0, <3>1, <3>2, AppendProperties
      <3>3. CASE page.editor # 0
        <4> DEFINE e(k) == IF k = page.editor THEN page.draft ELSE page.segments[k]
        <4>1. s = [k \in 1 .. Len(page.segments) |-> e(k)]
          BY <1>0, <3>3
        <4>2. \A k \in 1 .. Len(page.segments) : e(k) \in Piece
          BY <1>0
        <4> HIDE DEF e
        <4>3. s \in Seq(Piece)
          BY <1>0, <4>1, <4>2, IsASeq
        <4> QED BY <3>1, <4>3
      <3> QED BY <3>2, <3>3
    <2> DEFINE q == Pattern(page, s)
    <2>2. /\ DOMAIN q = AddinFields /\ q.at = "addin" /\ q.segments \in Seq(Piece) /\ OneAuto(q.segments)
          /\ q.user = page.user /\ q.tokens = page.tokens /\ q.next = page.next
          /\ q.example = Absent /\ q.doubt = (page.doubt \/ Waiting("check"))
      BY <1>0, PatternFields
    <2>3. EditPage(NoDraft(q))
      BY <2>1
    <2> HIDE DEF q
    <2>4. q.next \in Nat /\ q.doubt \in BOOLEAN /\ (q.user # Absent => q.tokens \subseteq OwnTokens(q.user))
      BY <1>0, <2>2 DEF AddinPageOK
    <2>5. AddinPageOK(NoDraft(q)) /\ NoDraft(q).example = Absent /\ NoDraft(q).doubt = q.doubt
      BY <2>2, <2>4, DraftDropped
    <2> QED BY <1>a, <2>2, <2>3, <2>5
  <1>6. ASSUME RemoveSegment PROVE AddinInv'
    <2>1. PICK k \in DOMAIN page.segments :
            EditPage(IF page.editor = k THEN NoDraft(Pattern(page, Without(page.segments, k)))
                     ELSE [Pattern(page, Without(page.segments, k)) EXCEPT !.strayed = @ \/ k < page.editor])
      BY <1>6 DEF RemoveSegment
    <2> DEFINE s == Without(page.segments, k)
               q == Pattern(page, s)
    <2>2. /\ s \in Seq(Piece) /\ DOMAIN s = 1 .. Len(page.segments) - 1
          /\ \A j \in 1 .. Len(page.segments) - 1 : j < k => s[j] = page.segments[j]
      BY <1>0, Shortened
    <2>3. /\ DOMAIN q = AddinFields /\ q.at = "addin" /\ q.segments \in Seq(Piece) /\ OneAuto(q.segments)
          /\ DOMAIN q.segments = DOMAIN s /\ \A j \in DOMAIN s : q.segments[j].uid = s[j].uid
          /\ q.user = page.user /\ q.tokens = page.tokens /\ q.draft = page.draft /\ q.next = page.next
          /\ q.editor = page.editor /\ q.strayed = page.strayed
          /\ q.example = Absent /\ q.doubt = (page.doubt \/ Waiting("check"))
      BY <1>0, <2>2, PatternFields
    <2>4. EditPage(IF page.editor = k THEN NoDraft(q) ELSE [q EXCEPT !.strayed = @ \/ k < page.editor])
      BY <2>1
    <2> HIDE DEF q, s
    <2>5. q.next \in Nat /\ q.doubt \in BOOLEAN /\ (q.user # Absent => q.tokens \subseteq OwnTokens(q.user))
      BY <1>0, <2>3 DEF AddinPageOK
    <2>6. CASE page.editor = k
      <3>1. AddinPageOK(NoDraft(q)) /\ NoDraft(q).example = Absent /\ NoDraft(q).doubt = q.doubt
        BY <2>3, <2>5, DraftDropped
      <3> QED BY <1>a, <2>3, <2>4, <2>6, <3>1
    <2>7. CASE page.editor # k
      <3> DEFINE p == [q EXCEPT !.strayed = @ \/ k < page.editor]
      <3>1. /\ p.editor = page.editor /\ p.segments = q.segments /\ p.draft = page.draft
            /\ p.strayed = (page.strayed \/ k < page.editor)
        BY <2>3 DEF AddinFields
      <3>3. /\ DOMAIN p = AddinFields /\ p.at = "addin" /\ p.next = page.next /\ p.doubt = q.doubt
            /\ p.user = q.user /\ p.tokens = q.tokens /\ p.example = Absent
        BY <2>3 DEF AddinFields
      <3>4. p.strayed \in BOOLEAN
        BY <3>1
      <3>5. EditPage(p)
        BY <2>4, <2>7
      <3> HIDE DEF p
      <3>2. ASSUME p.editor # 0, ~p.strayed
            PROVE  p.editor \in DOMAIN p.segments /\ p.segments[p.editor].uid = p.draft.uid
        <4>1. page.editor \in DOMAIN page.segments /\ page.segments[page.editor].uid = page.draft.uid
          BY <1>0, <3>1, <3>2 DEF AddinPageOK
        <4>2. ~(k < page.editor)
          BY <3>1, <3>2, Zenon
        <4>3. k \in 1 .. Len(page.segments)
          BY <1>0, Zenon
        <4>4. page.editor < k /\ page.editor \in 1 .. Len(page.segments) - 1
          BY <1>0, <2>7, <4>1, <4>2, <4>3
        <4> QED BY <2>2, <2>3, <3>1, <4>1, <4>4
      <3>6. AddinPageOK(p)
        BY <1>0, <2>3, <2>5, <3>1, <3>2, <3>3, <3>4 DEF AddinPageOK
      <3> QED BY <1>a, <2>3, <3>3, <3>5, <3>6
    <2> QED BY <2>6, <2>7
  <1>7. ASSUME MoveSegment PROVE AddinInv'
    <2>1. PICK k \in DOMAIN page.segments, target \in DOMAIN page.segments :
            /\ target \in {k - 1, k + 1}
            /\ EditPage([Pattern(page, [page.segments EXCEPT ![k] = page.segments[target],
                                                             ![target] = page.segments[k]])
                         EXCEPT !.editor = Moved(@, k, target), !.strayed = @ \/ page.editor = target])
      BY <1>7 DEF MoveSegment
    <2> DEFINE s == [page.segments EXCEPT ![k] = page.segments[target], ![target] = page.segments[k]]
               q == Pattern(page, s)
               p == [q EXCEPT !.editor = Moved(@, k, target), !.strayed = @ \/ page.editor = target]
    <2>2. k # target /\ k \in Nat /\ target \in Nat /\ k # 0 /\ target # 0
      BY <1>0, <2>1
    <2>3. s \in Seq(Piece) /\ DOMAIN s = DOMAIN page.segments
      <3> DEFINE one == [page.segments EXCEPT ![k] = page.segments[target]]
      <3>1. one \in Seq(Piece) /\ DOMAIN one = DOMAIN page.segments
        BY <1>0, ExceptSeq
      <3>2. s = [one EXCEPT ![target] = page.segments[k]]
        OBVIOUS
      <3> HIDE DEF one, s
      <3> QED BY <1>0, <3>1, <3>2, ExceptSeq
    <2>4. /\ s[target] = page.segments[k]
          /\ \A j \in DOMAIN page.segments : j \notin {k, target} => s[j] = page.segments[j]
      BY <2>2
    <2>5. EditPage(p)
      BY <2>1
    <2> HIDE DEF s
    <2>6. /\ DOMAIN q = AddinFields /\ q.at = "addin" /\ q.segments \in Seq(Piece) /\ OneAuto(q.segments)
          /\ DOMAIN q.segments = DOMAIN s /\ \A j \in DOMAIN s : q.segments[j].uid = s[j].uid
          /\ q.user = page.user /\ q.tokens = page.tokens /\ q.draft = page.draft /\ q.next = page.next
          /\ q.editor = page.editor /\ q.strayed = page.strayed
          /\ q.example = Absent /\ q.doubt = (page.doubt \/ Waiting("check"))
      BY <1>0, <2>3, PatternFields
    <2> HIDE DEF q
    <2>7. /\ DOMAIN p = AddinFields /\ p.at = "addin" /\ p.next = page.next /\ p.doubt = q.doubt
          /\ p.user = q.user /\ p.tokens = q.tokens /\ p.example = Absent /\ p.draft = page.draft
          /\ p.segments = q.segments /\ p.editor = Moved(page.editor, k, target)
          /\ p.strayed = (page.strayed \/ page.editor = target)
      BY <2>6 DEF AddinFields
    <2> HIDE DEF p
    <2>8. p.editor \in Nat /\ p.strayed \in BOOLEAN
      BY <1>0, <2>2, <2>7 DEF Moved
    <2>9. ASSUME p.editor # 0, ~p.strayed
          PROVE  p.editor \in DOMAIN p.segments /\ p.segments[p.editor].uid = p.draft.uid
      <3>1. page.editor # 0 /\ ~page.strayed /\ page.editor # target
        BY <2>2, <2>7, <2>9 DEF Moved
      <3>2. page.editor \in DOMAIN page.segments /\ page.segments[page.editor].uid = page.draft.uid
        BY <1>0, <3>1 DEF AddinPageOK
      <3>3. p.editor \in DOMAIN s /\ s[p.editor].uid = page.draft.uid
        BY <2>1, <2>3, <2>4, <2>7, <3>1, <3>2 DEF Moved
      <3> QED BY <2>6, <2>7, <3>3
    <2>10. q.doubt \in BOOLEAN /\ (q.user # Absent => q.tokens \subseteq OwnTokens(q.user))
      BY <1>0, <2>6 DEF AddinPageOK
    <2>11. AddinPageOK(p)
      BY <1>0, <2>6, <2>7, <2>8, <2>9, <2>10 DEF AddinPageOK
    <2> QED BY <1>a, <2>5, <2>6, <2>7, <2>11
  <1> QED BY <1>1, <1>2, <1>3, <1>4, <1>5, <1>6, <1>7

\* The requests of the builder.
LEMMA CheckedStep ==
  ASSUME AddinInv, CheckScheme \/ CheckPattern \/ CheckAnswer
  PROVE  AddinInv'
  <1>0. AddinPageOK(page) /\ DOMAIN page = AddinFields /\ page.doubt \in BOOLEAN /\ StoreOK(server)
    BY DEF AddinInv, AddinPageOK
  <1>1. ASSUME CheckScheme PROVE AddinInv'
    <2> DEFINE c == Call("check", page.segments)
    <2>1. page' = [page EXCEPT !.example = Absent] /\ calls' = calls \o <<c>> /\ UNCHANGED server
      BY <1>1 DEF CheckScheme, AskServer, Show, Send
    <2>2. AddinRequestOK(c) /\ c.args = page.segments /\ c.reply = Absent
      BY NewCall DEF AddinRequestOK
    <2> HIDE DEF c
    <2>3. /\ AddinPageOK(page') /\ page'.segments = page.segments /\ page'.example = Absent
          /\ page'.doubt = page.doubt
      BY <1>0, <2>1 DEF AddinPageOK, AddinFields
    <2>4. IsSequence(calls') /\ Elems(calls') = Elems(calls) \cup {c}
      BY <2>1, Few, Joined DEF AddinInv
    <2>5. ExampleOK(page, calls)'
      BY <2>2, <2>3, <2>4 DEF AddinInv, ExampleOK
    <2> QED BY <1>0, <2>1, <2>2, <2>3, <2>4, <2>5 DEF AddinInv
  <1>2. ASSUME CheckPattern PROVE AddinInv'
    <2>1. PICK i \in DOMAIN calls :
            calls[i].op = "check" /\ Reply(i, calls[i].args) /\ UNCHANGED <<page, server>>
      BY <1>2 DEF CheckPattern, IsAsked, Handled
    <2> QED BY <1>0, <2>1, Replies
  <1>3. ASSUME CheckAnswer PROVE AddinInv'
    <2>1. PICK i \in DOMAIN calls :
            /\ IsAnswered(i, "check")
            /\ page' = IF Failed(i) THEN page ELSE [page EXCEPT !.example = calls[i].reply]
            /\ Take(i) /\ UNCHANGED server
      BY <1>3 DEF CheckAnswer, Show, HandledHere
    <2>2. CASE Failed(i)
      BY <1>0, <2>1, <2>2, Takes DEF SamePattern
    <2>3. CASE ~Failed(i)
      <3>1. /\ AddinPageOK(page') /\ page'.segments = page.segments /\ page'.example = calls[i].reply
            /\ page'.doubt = page.doubt
        BY <1>0, <2>1, <2>3 DEF AddinPageOK, AddinFields
      <3>2. /\ IsSequence(calls') /\ Elems(calls') \subseteq Elems(calls) /\ calls[i] \in Elems(calls)
        BY <2>1, Remaining DEF AddinInv, Take
      <3>3. calls[i].op = "check" /\ calls[i].reply \notin {Absent, Failure}
        BY <2>1, <2>3 DEF IsAnswered, Failed
      <3>4. ExampleOK(page, calls)'
        BY <3>1, <3>2, <3>3 DEF AddinInv, ExampleOK
      <3> QED BY <1>0, <2>1, <3>1, <3>2, <3>4 DEF AddinInv
    <2> QED BY <2>2, <2>3
  <1> QED BY <1>1, <1>2, <1>3

LEMMA CreatedStep ==
  ASSUME AddinInv, CreateScheme \/ StoreScheme \/ CreatedAnswer
  PROVE  AddinInv'
  <1>0. /\ AddinPageOK(page) /\ DOMAIN page = AddinFields /\ page.doubt \in BOOLEAN /\ StoreOK(server)
        /\ page.segments \in Seq(Piece)
    BY DEF AddinInv, AddinPageOK
  <1>1. ASSUME CreateScheme PROVE AddinInv'
    <2>1. OneAuto(NormalizeSequenceSegments(page.segments))
      BY <1>0, Normal
    <2> QED BY <1>1, <2>1, AsksOnly DEF CreateScheme
  <1>2. ASSUME StoreScheme PROVE AddinInv'
    <2>1. PICK i \in DOMAIN calls :
            /\ calls[i].op = "create" /\ Reply(i, TRUE) /\ UNCHANGED page
            /\ server' = [server EXCEPT !.created = Append(@, calls[i].args)]
      BY <1>2 DEF StoreScheme, IsAsked, Handled
    <2>2. OneAuto(calls[i].args)
      BY <2>1 DEF AddinInv, AddinRequestOK, Elems
    <2> DEFINE a == calls[i].args
    <2>3. DOMAIN server = {"good", "schemes", "created"} /\ IsSequence(server.created)
      BY <1>0 DEF StoreOK
    <2>4. /\ DOMAIN server' = DOMAIN server /\ server'.created = Append(server.created, a)
      BY <2>1, <2>3
    <2>5. Append(server.created, a) = server.created \o <<a>>
      <3>1. PICK S : server.created \in Seq(S)
        BY <2>3 DEF IsSequence
      <3>2. server.created \in Seq(S \cup {a}) /\ a \in S \cup {a}
        BY <3>1, SeqMonotonic
      <3> HIDE DEF a
      <3> QED BY <3>2, AppendIsConcat
    <2>6. StoreOK(server')
      <3> HIDE DEF a
      <3>1. IsSequence(server'.created) /\ Elems(server'.created) = Elems(server.created) \cup {a}
        BY <2>3, <2>4, <2>5, Few, Joined
      <3> QED BY <1>0, <2>2, <2>4, <3>1 DEF StoreOK, a
    <2> QED BY <2>1, <2>6, Replies
  <1>3. ASSUME CreatedAnswer PROVE AddinInv'
    <2>1. PICK i \in DOMAIN calls :
            /\ IF Failed(i) THEN Take(i) /\ UNCHANGED page
               ELSE /\ page' = [page EXCEPT !.doubt = Overlapping]
                    /\ TakeAndSend(i, <<ListSchemes("created")>>)
            /\ UNCHANGED server
      BY <1>3 DEF CreatedAnswer, Show, HandledHere
    <2>2. AddinPageOK(page') /\ SamePattern(page, page')
      BY <1>0, <2>1 DEF AddinPageOK, AddinFields, SamePattern, Overlapping, Waiting
    <2>3. AddinRequestOK(ListSchemes("created")) /\ ListSchemes("created").op # "check"
      BY NewCall DEF ListSchemes, AddinRequestOK
    <2>4. CASE Failed(i)
      BY <2>1, <2>2, <2>4, Takes
    <2>5. CASE ~Failed(i)
      BY <2>1, <2>2, <2>3, <2>5, TakesAndSends
    <2> QED BY <2>4, <2>5
  <1> QED BY <1>1, <1>2, <1>3

-------------------------------------------------------------------------------
(* The list of schemes, and answers that are lost.                         *)

LEMMA ListedStep ==
  ASSUME AddinInv, ServeSchemes \/ SchemesAnswer
  PROVE  AddinInv'
  <1>0. AddinPageOK(page) /\ DOMAIN page = AddinFields /\ page.doubt \in BOOLEAN /\ StoreOK(server)
    BY DEF AddinInv, AddinPageOK
  <1>1. ASSUME ServeSchemes PROVE AddinInv'
    <2>1. PICK i \in DOMAIN calls :
            calls[i].op = "schemes" /\ Reply(i, server.schemes) /\ UNCHANGED <<page, server>>
      BY <1>1 DEF ServeSchemes, IsAsked, Handled
    <2> QED BY <1>0, <2>1, Replies
  <1>2. ASSUME SchemesAnswer PROVE AddinInv'
    <2>1. PICK i \in DOMAIN calls : \E p :
            /\ calls[i].op = "schemes"
            /\ p = IF Failed(i) THEN [page EXCEPT !.doubt = TRUE]
                   ELSE [page EXCEPT !.loaded = calls[i].reply, !.drafts = calls[i].reply]
            /\ page' = CASE calls[i].args = "saved"   -> [p EXCEPT !.saving = FALSE]
                         [] calls[i].args = "deleted" -> p
                         [] calls[i].args = "created" -> StartBuilder(p)
            /\ Take(i) /\ UNCHANGED server
      BY <1>2 DEF SchemesAnswer, IsAnswered, Show, HandledHere
    <2>2. PICK p :
            /\ p = IF Failed(i) THEN [page EXCEPT !.doubt = TRUE]
                   ELSE [page EXCEPT !.loaded = calls[i].reply, !.drafts = calls[i].reply]
            /\ page' = CASE calls[i].args = "saved"   -> [p EXCEPT !.saving = FALSE]
                         [] calls[i].args = "deleted" -> p
                         [] calls[i].args = "created" -> StartBuilder(p)
      BY <2>1
    <2>3. AddinPageOK(p) /\ SamePattern(page, p)
      BY <1>0, <2>2 DEF AddinPageOK, AddinFields, SamePattern
    <2>4. calls[i].args \in {"saved", "deleted", "created"}
      BY <2>1 DEF AddinInv, AddinRequestOK, Elems
    <2>5. CASE page' = [p EXCEPT !.saving = FALSE] \/ page' = p
      <3>1. AddinPageOK(page') /\ SamePattern(page, page')
        BY <2>3, <2>5 DEF AddinPageOK, AddinFields, SamePattern
      <3> QED BY <2>1, <3>1, Takes
    <2>6. CASE page' = StartBuilder(p)
      <3>1. /\ AddinPageOK(page') /\ page'.example = Absent
            /\ page.doubt \/ Waiting("check") => page'.doubt
        BY <2>3, <2>6, Afresh DEF SamePattern
      <3>2. IsSequence(calls') /\ Elems(calls') \subseteq Elems(calls)
        BY <2>1, Remaining DEF AddinInv, Take
      <3> QED BY <1>0, <2>1, <3>1, <3>2, Repatterned
    <2>7. page' = [p EXCEPT !.saving = FALSE] \/ page' = p \/ page' = StartBuilder(p)
      BY <2>2, <2>4
    <2> QED BY <2>5, <2>6, <2>7
  <1> QED BY <1>1, <1>2

LEMMA AddinLoseStep ==
  ASSUME AddinInv, Lose
  PROVE  AddinInv'
  <1>1. PICK i \in DOMAIN calls : Reply(i, Failure) /\ UNCHANGED <<page, server>>
    BY DEF Lose
  <1>2. StoreOK(server')
    BY <1>1 DEF AddinInv
  <1> QED BY <1>1, <1>2, Replies

-------------------------------------------------------------------------------
(* The invariant holds in every state.                                     *)

LEMMA AddinInitInv == AddinInit => AddinInv
  <1> SUFFICES ASSUME NEW on, NEW parts, page = AddinStart(on, parts), calls = <<>>, server = AddinServer(on)
               PROVE  AddinInv
    BY DEF AddinInit
  <1>1. AddinPageOK(page) /\ page.example = Absent
    <2>1. NewPattern \in Seq(Piece) /\ OneAuto(NewPattern) /\ Literal(3) \in Piece
      BY FirstPattern
    <2> QED BY <2>1 DEF AddinStart, AddinPageOK, AddinFields
  <1>2. StoreOK(server)
    BY Few DEF AddinServer, StoreOK
  <1>3. IsSequence(calls) /\ Elems(calls) = {}
    BY Few
  <1> QED BY <1>1, <1>2, <1>3 DEF AddinInv, ExampleOK

LEMMA AddinNextInv == AddinInv /\ [AddinNext \/ Lose]_vars => AddinInv'
  <1>1. ASSUME AddinInv, AddinNext PROVE AddinInv'
    <2>1. CASE TokensPart
      BY <1>1, <2>1, TokensStep
    <2>2. CASE SwitchesPart
      BY <1>1, <2>2, SwitchesStep
    <2>3. CASE BuilderPart
      BY <1>1, <2>3, EditsStep, CheckedStep, CreatedStep DEF BuilderPart
    <2>4. CASE ServeSchemes \/ SchemesAnswer
      BY <1>1, <2>4, ListedStep
    <2> QED BY <1>1, <2>1, <2>2, <2>3, <2>4 DEF AddinNext
  <1>2. ASSUME AddinInv, UNCHANGED vars PROVE AddinInv'
    BY <1>2 DEF vars, AddinInv, ExampleOK
  <1> QED BY <1>1, <1>2, AddinLoseStep

\* The page's state is well formed, its pattern normal, its tokens and its
\* example those they are shown for, after any clicks and whatever becomes
\* of the requests.
THEOREM AddinInvariant == AddinSpec => []AddinInv
  BY AddinInitInv, AddinNextInv, PTL DEF AddinSpec

\* For any users and any clicks, the tokens shown are those of the user
\* named above them: showUser sets both from one answer.
THEOREM AddinTokensBelong == AddinSpec => []TokensBelongToUser
  <1>1. AddinInv => TokensBelongToUser
    BY DEF AddinInv, AddinPageOK, TokensBelongToUser
  <1> QED BY <1>1, AddinInvariant, PTL

\* However long the pattern and however often it is edited, it and every
\* created scheme have at most one automatic counter, and one if any.
THEOREM AddinOneAuto == AddinSpec => []OneAutoCounter
  <1>1. AddinInv => OneAutoCounter
    <2> SUFFICES ASSUME AddinInv,
                        NEW s \in {page.segments} \cup {server.created[k] : k \in DOMAIN server.created}
                 PROVE  OneAuto(s)
      BY DEF OneAutoCounter, OneAuto
    <2> QED BY DEF AddinInv, AddinPageOK, StoreOK, Elems
  <1> QED BY <1>1, AddinInvariant, PTL

\* However the pieces are moved and removed, an update overwrites the piece
\* that was opened, unless another one crossed it.
THEOREM AddinUpdate == AddinSpec => []UpdateHitsOpenedPiece
  <1>1. AddinInv => UpdateHitsOpenedPiece
    BY DEF AddinInv, AddinPageOK, UpdateHitsOpenedPiece
  <1> QED BY <1>1, AddinInvariant, PTL

\* However many checks are on their way, the example is of the pattern on
\* screen, unless the pattern was edited while it was being checked.
THEOREM AddinExample == AddinSpec => []ExampleIsOfPattern
  <1>1. AddinInv => ExampleIsOfPattern
    BY DEF AddinInv, AddinPageOK, ExampleOK, ExampleIsOfPattern
  <1> QED BY <1>1, AddinInvariant, PTL

-------------------------------------------------------------------------------
(* Quiet pages.                                                            *)

\* Every request that was on its way still is, worked on or answered perhaps.
StillAsked(cs, ds) == \A c \in Elems(cs) : \E d \in Elems(ds) : d.op = c.op /\ d.args = c.args

LEMMA AskedAfterSend ==
  ASSUME NEW cs, IsSequence(cs), NEW c
  PROVE  StillAsked(cs, cs \o <<c>>) /\ Elems(cs \o <<c>>) = Elems(cs) \cup {c}
  BY Few, Joined DEF StillAsked

LEMMA AskedAfterReply ==
  ASSUME IsSequence(calls), NEW i \in DOMAIN calls, DOMAIN calls[i] = CallFields, NEW STATE r, Reply(i, r)
  PROVE  /\ StillAsked(calls, calls')
         /\ \A d \in Elems(calls') : d \in Elems(calls) \/ (d.op = calls[i].op /\ d.args = calls[i].args /\ d.reply = r)
         /\ \E d \in Elems(calls') : d.op = calls[i].op /\ d.args = calls[i].args
  BY Answered DEF StillAsked

LEMMA AskedAfterWork ==
  ASSUME IsSequence(calls), NEW i \in DOMAIN calls, DOMAIN calls[i] = CallFields, NEW STATE w, Work(i, w)
  PROVE  /\ StillAsked(calls, calls')
         /\ \A d \in Elems(calls') : d \in Elems(calls) \/ (d.op = calls[i].op /\ d.args = calls[i].args)
         /\ \E d \in Elems(calls') : d.op = calls[i].op /\ d.args = calls[i].args
  <1> DEFINE c == [calls[i] EXCEPT !.work = w]
  <1>1. c.op = calls[i].op /\ c.args = calls[i].args
    BY DEF CallFields
  <1>2. PICK S : calls \in Seq(S)
    BY DEF IsSequence
  <1>3. calls' = [calls EXCEPT ![i] = c]
    BY DEF Work
  <1> HIDE DEF c
  <1>4. /\ \E T : calls' \in Seq(T)
        /\ Len(calls) \in Nat /\ i \in 1 .. Len(calls) /\ Len(calls') = Len(calls)
        /\ \A j \in 1 .. Len(calls) : calls'[j] = IF j = i THEN c ELSE calls[j]
    BY <1>2, <1>3, CallReplaced
  <1>5. DOMAIN calls' = 1 .. Len(calls) /\ DOMAIN calls = 1 .. Len(calls)
    BY <1>2, <1>4, LenProperties
  <1>6. Elems(calls') \subseteq Elems(calls) \cup {c} /\ c \in Elems(calls')
    BY <1>4, <1>5 DEF Elems
  <1>7. \A d \in Elems(calls) : d \in Elems(calls') \/ d = calls[i]
    BY <1>4, <1>5 DEF Elems
  <1> QED BY <1>1, <1>6, <1>7 DEF StillAsked

-------------------------------------------------------------------------------
(* What the page of the tokens shows.                                      *)

\* Without a doubt and before a sweep, the tokens shown, or in an answer, are
\* the stored ones, unless a request is out after which they are read again.
Writing == \E c \in Elems(calls) : c.op \in {"create", "rotate", "revoke"}
Reading == \E c \in Elems(calls) : c.op = "list"

ListOK ==
  ~page.doubt /\ server.sweeps = 0 =>
    /\ page.tokens = Seen(server.tokens) \/ Writing \/ Reading
    /\ \A c \in Elems(calls) :
         c.op = "list" /\ c.reply \notin {Absent, Failure} => c.reply = Seen(server.tokens) \/ Writing

LEMMA TokensListed ==
  ASSUME TokensInv
  PROVE  /\ IsSequence(calls) /\ \A i \in DOMAIN calls : calls[i] \in Elems(calls) /\ DOMAIN calls[i] = CallFields
         /\ page.doubt \in BOOLEAN /\ server.sweeps \in Nat
  <1>1. \A i \in DOMAIN calls : calls[i] \in Request
    BY TokensKnown
  <1> QED BY <1>1 DEF TokensInv, Types, IsSequence, Elems, Request, CallFields, Shows, Stores

\* What has to be shown of a step by which no request goes.
LEMMA ListGoesOn ==
  ASSUME ListOK, page'.tokens = page.tokens, page.doubt => page'.doubt, server'.sweeps = 0 => server.sweeps = 0,
         Seen(server'.tokens) = Seen(server.tokens) \/ Writing',
         StillAsked(calls, calls'),
         \A d \in Elems(calls') : d.op = "list" => \/ d \in Elems(calls)
                                                   \/ d.reply \in {Absent, Failure, Seen(server'.tokens)}
  PROVE  ListOK'
  <1>1. (Writing => Writing') /\ (Reading => Reading')
    BY DEF StillAsked, Writing, Reading
  <1> QED BY <1>1 DEF ListOK

LEMMA ListServed ==
  ASSUME TokensInv, ListOK, NEW i \in DOMAIN calls, UNCHANGED page, server'.sweeps = server.sweeps,
         \/ \E r : Reply(i, r) /\ (calls[i].op = "list" => r \in {Failure, Seen(server'.tokens)})
         \/ calls[i].op # "list" /\ \E w : Work(i, w),
         UNCHANGED server \/ calls[i].op \in {"create", "rotate", "revoke"}
  PROVE  ListOK'
  <1>1. IsSequence(calls) /\ DOMAIN calls[i] = CallFields
    BY TokensListed
  <1>2. /\ StillAsked(calls, calls')
        /\ \A d \in Elems(calls') : d.op = "list" => \/ d \in Elems(calls)
                                                     \/ d.reply \in {Absent, Failure, Seen(server'.tokens)}
        /\ \E d \in Elems(calls') : d.op = calls[i].op
    <2>1. CASE \E r : Reply(i, r) /\ (calls[i].op = "list" => r \in {Failure, Seen(server'.tokens)})
      <3>1. PICK r : Reply(i, r) /\ (calls[i].op = "list" => r \in {Failure, Seen(server'.tokens)})
        BY <2>1
      <3> QED BY <1>1, <3>1, AskedAfterReply
    <2>2. CASE calls[i].op # "list" /\ \E w : Work(i, w)
      BY <1>1, <2>2, AskedAfterWork
    <2> QED BY <2>1, <2>2
  <1>3. Seen(server'.tokens) = Seen(server.tokens) \/ Writing'
    BY <1>2 DEF Writing
  <1> QED BY <1>2, <1>3, ListGoesOn

\* An answer is taken.
LEMMA ListTaken ==
  ASSUME TokensInv, ListOK, TokenAnswer \/ ListAnswer
  PROVE  ListOK'
  <1>1. CASE TokenAnswer
    <2>1. PICK i \in DOMAIN calls :
            /\ calls[i].op \in {"create", "rotate", "revoke"} /\ UNCHANGED server
            /\ IF Failed(i)
               THEN Show([page EXCEPT !.doubt = TRUE]) /\ Take(i)
               ELSE /\ Show([page EXCEPT !.doubt = TwoLists,
                               !.secret = IF calls[i].op = "revoke" THEN @ ELSE calls[i].reply])
                    /\ TakeAndSend(i, IF ReloadAfter(calls[i].op) THEN <<LoadTokens>> ELSE <<>>)
      BY <1>1 DEF TokenAnswer, IsAnswered
    <2>2. DOMAIN page = {"at", "tokens", "secret", "doubt"}
      BY DEF TokensInv, Types, Shows
    <2>3. CASE Failed(i)
      BY <2>1, <2>2, <2>3 DEF Show, ListOK
    <2>4. CASE ~Failed(i)
      <3>1. page'.doubt = TwoLists /\ calls' = Others(i) \o <<LoadTokens>>
        BY <2>1, <2>2, <2>4 DEF Show, TakeAndSend, ReloadAfter
      <3>2. IsSequence(Others(i)) /\ Elems(Others(i)) \subseteq Elems(calls)
        BY TokensListed, Remaining
      <3>3. Elems(calls') = Elems(Others(i)) \cup {LoadTokens}
        BY <3>1, <3>2, AskedAfterSend
      <3>4. LoadTokens.op = "list" /\ LoadTokens.reply = Absent
        BY DEF LoadTokens, Call
      <3>5. ~page'.doubt => \A c \in Elems(calls) : c.op # "list"
        BY <3>1 DEF TwoLists, Waiting, Elems
      <3> QED BY <3>2, <3>3, <3>4, <3>5 DEF ListOK, Reading
    <2> QED BY <2>3, <2>4
  <1>2. CASE ListAnswer
    <2>1. PICK i \in DOMAIN calls :
            /\ calls[i].op = "list" /\ calls[i].reply # Absent /\ Take(i) /\ UNCHANGED server
            /\ page' = IF Failed(i) THEN [page EXCEPT !.doubt = TRUE] ELSE [page EXCEPT !.tokens = calls[i].reply]
      BY <1>2 DEF ListAnswer, IsAnswered, Show
    <2>2. DOMAIN page = {"at", "tokens", "secret", "doubt"}
      BY DEF TokensInv, Types, Shows
    <2>3. CASE Failed(i)
      BY <2>1, <2>2, <2>3 DEF ListOK
    <2>4. CASE ~Failed(i)
      <3>1. page'.tokens = calls[i].reply /\ page'.doubt = page.doubt /\ calls[i].reply # Failure
        BY <2>1, <2>2, <2>4 DEF Failed
      <3>2. /\ calls[i] \in Elems(calls) /\ Elems(calls') \subseteq Elems(calls)
            /\ Elems(calls) \subseteq Elems(calls') \cup {calls[i]}
        BY <2>1, TokensListed, Remaining DEF Take
      <3>3. Writing => Writing'
        BY <2>1, <3>2 DEF Writing
      <3> QED BY <2>1, <3>1, <3>2, <3>3 DEF ListOK
    <2> QED BY <2>3, <2>4
  <1> QED BY <1>1, <1>2

LEMMA ListNext == TokensInv /\ ListOK /\ [TokensNext \/ Lose]_vars => ListOK'
  <1> SUFFICES ASSUME TokensInv, ListOK, [TokensNext \/ Lose]_vars PROVE ListOK'
    OBVIOUS
  <1>1. ASSUME NEW op \in {"create", "rotate", "revoke"}, NEW t, Ask(op, t) PROVE ListOK'
    <2>1. calls' = calls \o <<Call(op, t)>> /\ UNCHANGED <<page, server>>
      BY <1>1 DEF Ask, Send
    <2>2. StillAsked(calls, calls') /\ Elems(calls') = Elems(calls) \cup {Call(op, t)} /\ Call(op, t).op # "list"
      BY <2>1, TokensListed, AskedAfterSend, NewCall
    <2> QED BY <2>1, <2>2, ListGoesOn
  <1>2. CASE CreateToken \/ RotateToken \/ RevokeToken
    BY <1>1, <1>2 DEF CreateToken, RotateToken, RevokeToken
  <1>3. CASE TokenAnswer \/ ListAnswer
    BY <1>3, ListTaken
  <1>4. CASE ListTokens
    <2>1. PICK i \in DOMAIN calls : Reply(i, Seen(server.tokens)) /\ UNCHANGED <<page, server>>
      BY <1>4 DEF ListTokens, Serving
    <2> QED BY <2>1, ListServed
  <1>5. CASE CheckOwner
    <2>1. PICK i \in DOMAIN calls : /\ calls[i].op # "list" /\ UNCHANGED <<page, server>>
                                    /\ (\E w : Work(i, w)) \/ Reply(i, Failure)
      BY <1>5 DEF CheckOwner, Serving, IsAsked
    <2> QED BY <2>1, ListServed
  <1>6. CASE InsertToken \/ ReplaceToken \/ UndoReplacement
    <2>1. PICK i \in DOMAIN calls : /\ calls[i].work # Absent /\ UNCHANGED page
                                    /\ (\E w : Work(i, w)) \/ (\E r : Reply(i, r))
                                    /\ UNCHANGED server \/ \E tokens : Store(tokens)
      BY <1>6 DEF InsertToken, ReplaceToken, UndoReplacement, Serving, IsWorking
    <2>2. calls[i].op \in {"create", "rotate"}
      BY <2>1, TokensKnown DEF TokensRequestOK
    <2>3. server'.sweeps = server.sweeps
      BY <2>1 DEF Store, TokensInv, Types, Stores
    <2> QED BY <2>1, <2>2, <2>3, ListServed
  <1>7. CASE RevokeStored
    <2>1. PICK i \in DOMAIN calls : /\ calls[i].op = "revoke" /\ UNCHANGED page /\ Reply(i, 0)
                                    /\ \E tokens : Store(tokens)
      BY <1>7 DEF RevokeStored, Serving, IsAsked
    <2>2. server'.sweeps = server.sweeps
      BY <2>1 DEF Store, TokensInv, Types, Stores
    <2> QED BY <2>1, <2>2, ListServed
  <1>8. CASE Deactivate \/ Reactivate
    <2>1. server'.tokens = server.tokens /\ server'.sweeps = server.sweeps /\ UNCHANGED <<page, calls>>
      BY <1>8 DEF Deactivate, Reactivate, TokensInv, Types, Stores
    <2> QED BY <2>1, ListGoesOn DEF StillAsked
  <1>9. CASE RevokeUserTokens
    <2>1. server'.sweeps = server.sweeps + 1
      BY <1>9 DEF RevokeUserTokens, TokensInv, Types, Stores
    <2> QED BY <2>1, TokensListed DEF ListOK
  <1>10. CASE Lose
    <2>1. PICK i \in DOMAIN calls : Reply(i, Failure) /\ UNCHANGED <<page, server>>
      BY <1>10 DEF Lose
    <2> QED BY <2>1, ListServed
  <1>11. CASE UNCHANGED vars
    BY <1>11, ListGoesOn DEF vars, StillAsked
  <1> QED BY <1>2, <1>3, <1>4, <1>5, <1>6, <1>7, <1>8, <1>9, <1>10, <1>11 DEF TokensNext

\* For any number of tokens, requests and orders of their answers, once no
\* request is out the page shows the tokens as they are, with the exceptions
\* the statement names: each change is followed by a list (ApiTokensPage.tsx:40-100).
THEOREM TokensAreShown == TokensSpec => []ListIsCurrent
  <1>1. TokensInit => ListOK
    BY DEF TokensInit, TokensStart, TokensServer, ListOK, Elems
  <1>2. ListOK => ListIsCurrent
    BY Few DEF ListOK, ListIsCurrent, Writing, Reading
  <1> QED BY <1>1, <1>2, TokensInvariant, ListNext, PTL DEF TokensSpec

-------------------------------------------------------------------------------
(* What the page of the part numbers shows.                                *)

\* Saving waits for a change or for the list after the last one.  Without a
\* doubt the switches loaded, or in an answer, are the stored ones, unless a
\* change is out, after which they are read again.
Changing == \E c \in Elems(calls) : c.op \in {"enable", "deleteScheme"}
Listing  == \E c \in Elems(calls) : c.op = "schemes"

SwitchesOK ==
  /\ page.saving => \E c \in Elems(calls) : c.op = "enable" \/ (c.op = "schemes" /\ c.args = "saved")
  /\ ~page.doubt =>
       /\ page.loaded = server.schemes \/ Changing \/ Listing
       /\ \A c \in Elems(calls) :
            c.op = "schemes" /\ c.reply \notin {Absent, Failure} => c.reply = server.schemes \/ Changing

SchemeOps == {"enable", "deleteScheme", "schemes"}

SameSwitches(p, q) == q.loaded = p.loaded /\ q.saving = p.saving /\ (p.doubt => q.doubt)

\* What has to be shown of a step by which no request about the schemes goes.
LEMMA SwitchesGoOn ==
  ASSUME SwitchesOK, SameSwitches(page, page'), server'.schemes = server.schemes \/ Changing',
         \A c \in Elems(calls) : c.op \in SchemeOps =>
           \E d \in Elems(calls') : d.op = c.op /\ d.args = c.args,
         \A d \in Elems(calls') : d.op = "schemes" => \/ d \in Elems(calls)
                                                      \/ d.reply \in {Absent, Failure, server'.schemes}
  PROVE  SwitchesOK'
  <1>1. (Changing => Changing') /\ (Listing => Listing')
    BY DEF Changing, Listing, SchemeOps
  <1>2. page'.saving => \E c \in Elems(calls') : c.op = "enable" \/ (c.op = "schemes" /\ c.args = "saved")
    <2>1. SUFFICES ASSUME page'.saving
                   PROVE  \E c \in Elems(calls') : c.op = "enable" \/ (c.op = "schemes" /\ c.args = "saved")
      OBVIOUS
    <2>2. PICK c \in Elems(calls) : c.op = "enable" \/ (c.op = "schemes" /\ c.args = "saved")
      BY <2>1 DEF SwitchesOK, SameSwitches
    <2>3. PICK d \in Elems(calls') : d.op = c.op /\ d.args = c.args
      BY <2>2 DEF SchemeOps
    <2> QED BY <2>2, <2>3
  <1>3. ~page'.doubt =>
          /\ page'.loaded = server'.schemes \/ Changing' \/ Listing'
          /\ \A c \in Elems(calls') :
               c.op = "schemes" /\ c.reply \notin {Absent, Failure} => c.reply = server'.schemes \/ Changing'
    BY <1>1 DEF SwitchesOK, SameSwitches
  <1> QED BY <1>2, <1>3 DEF SwitchesOK

\* A request about the schemes is answered, or any other one.
LEMMA SwitchesServed ==
  ASSUME AddinInv, SwitchesOK, NEW i \in DOMAIN calls, NEW STATE r, Reply(i, r), UNCHANGED page,
         calls[i].op = "schemes" => r \in {Failure, server'.schemes},
         server'.schemes = server.schemes \/ calls[i].op \in {"enable", "deleteScheme"}
  PROVE  SwitchesOK'
  <1>1. IsSequence(calls) /\ DOMAIN calls[i] = CallFields
    BY DEF AddinInv, AddinRequestOK, Elems
  <1>2. /\ StillAsked(calls, calls')
        /\ \A d \in Elems(calls') : d \in Elems(calls) \/ (d.op = calls[i].op /\ d.args = calls[i].args /\ d.reply = r)
        /\ \E d \in Elems(calls') : d.op = calls[i].op /\ d.args = calls[i].args
    BY <1>1, AskedAfterReply
  <1>3. server'.schemes = server.schemes \/ Changing'
    BY <1>2 DEF Changing
  <1>4. SameSwitches(page, page')
    BY DEF SameSwitches
  <1> QED BY <1>2, <1>3, <1>4, SwitchesGoOn DEF StillAsked

\* One more request, of any kind.
LEMMA SwitchesSend ==
  ASSUME AddinInv, SwitchesOK, NEW c, c.reply = Absent, calls' = calls \o <<c>>, UNCHANGED server,
         SameSwitches(page, page')
  PROVE  SwitchesOK'
  <1>1. StillAsked(calls, calls') /\ Elems(calls') = Elems(calls) \cup {c}
    BY AskedAfterSend DEF AddinInv
  <1> QED BY <1>1, SwitchesGoOn DEF StillAsked

LEMMA SwitchesAsk ==
  ASSUME AddinInv, SwitchesOK, NEW op, NEW args, AskServer(page, op, args)
  PROVE  SwitchesOK'
  <1>1. page' = page /\ calls' = calls \o <<Call(op, args)>> /\ UNCHANGED server /\ Call(op, args).reply = Absent
    BY NewCall DEF AskServer, Show, Send
  <1> QED BY <1>1, SwitchesSend DEF SameSwitches

LEMMA SwitchesEdit ==
  ASSUME SwitchesOK, SameSwitches(page, page'), UNCHANGED <<calls, server>>
  PROVE  SwitchesOK'
  BY SwitchesGoOn

\* An answer about something else is taken.
LEMMA SwitchesTake ==
  ASSUME AddinInv, SwitchesOK, NEW i \in DOMAIN calls, calls[i].op \notin SchemeOps,
         SameSwitches(page, page'), UNCHANGED server,
         Take(i) \/ \E c : TakeAndSend(i, <<c>>) /\ c.reply = Absent
  PROVE  SwitchesOK'
  <1>1. /\ IsSequence(Others(i)) /\ Elems(Others(i)) \subseteq Elems(calls)
        /\ Elems(calls) \subseteq Elems(Others(i)) \cup {calls[i]}
    BY Remaining DEF AddinInv
  <1>2. CASE Take(i)
    BY <1>1, <1>2, SwitchesGoOn DEF Take
  <1>3. CASE \E c : TakeAndSend(i, <<c>>) /\ c.reply = Absent
    <2>1. PICK c : calls' = Others(i) \o <<c>> /\ c.reply = Absent
      BY <1>3 DEF TakeAndSend
    <2>2. Elems(calls') = Elems(Others(i)) \cup {c}
      BY <1>1, <2>1, AskedAfterSend
    <2> QED BY <1>1, <2>1, <2>2, SwitchesGoOn
  <1> QED BY <1>2, <1>3

LEMMA SwitchesOfTokens ==
  ASSUME AddinInv, SwitchesOK, TokensPart
  PROVE  SwitchesOK'
  <1>0. SameSwitches(page, page) /\ DOMAIN page = AddinFields /\ StoreOK(server)
    BY DEF SameSwitches, AddinInv, AddinPageOK
  <1>1. ASSUME NEW u \in Owners, LoadUserTokens(u) PROVE SwitchesOK'
    BY <1>1, SwitchesAsk DEF LoadUserTokens, ClickUser
  <1>2. CASE RevokeUserToken \/ RevokeAllTokens
    BY <1>2, SwitchesAsk DEF RevokeUserToken, RevokeAllTokens
  <1>3. CASE UserTokensAnswer
    <2>1. PICK i \in DOMAIN calls :
            /\ calls[i].op = "userTokens" /\ Take(i) /\ UNCHANGED server
            /\ page' = page \/ page' = [page EXCEPT !.user = calls[i].args, !.tokens = calls[i].reply]
      BY <1>3 DEF UserTokensAnswer, IsAnswered, Show, HandledHere
    <2>2. SameSwitches(page, page')
      BY <1>0, <2>1 DEF SameSwitches, AddinFields
    <2> QED BY <2>1, <2>2, SwitchesTake DEF SchemeOps
  <1>4. CASE RevokedAnswer
    <2>1. PICK i \in DOMAIN calls : \E u :
            /\ calls[i].op \in {"revokeToken", "revokeAll"} /\ UNCHANGED <<page, server>>
            /\ TakeAndSend(i, IF Failed(i) \/ u = Absent THEN <<>> ELSE <<Call("userTokens", u)>>)
      BY <1>4 DEF RevokedAnswer, IsAnswered, HandledHere
    <2>2. PICK u : TakeAndSend(i, IF Failed(i) \/ u = Absent THEN <<>> ELSE <<Call("userTokens", u)>>)
      BY <2>1
    <2>3. CASE TakeAndSend(i, <<>>)
      <3>1. IsSequence(Others(i)) /\ calls' = Others(i) \o <<>>
        BY <2>3, Remaining DEF AddinInv, TakeAndSend
      <3>2. Take(i)
        BY <3>1, ConcatEmptySeq DEF Take, IsSequence
      <3> QED BY <1>0, <2>1, <3>2, SwitchesTake DEF SchemeOps
    <2>4. CASE TakeAndSend(i, <<Call("userTokens", u)>>)
      <3>1. Call("userTokens", u).reply = Absent
        BY NewCall
      <3> QED BY <1>0, <2>1, <2>4, <3>1, SwitchesTake DEF SchemeOps
    <2> QED BY <2>2, <2>3, <2>4
  <1>5. CASE ListUserTokens \/ RevokeOfUser \/ RevokeOfAll
    <2>1. PICK i \in DOMAIN calls : \E r :
            /\ calls[i].op \notin SchemeOps /\ Reply(i, r) /\ UNCHANGED page
            /\ UNCHANGED server \/ \E good : server' = [server EXCEPT !.good = good]
      BY <1>5 DEF ListUserTokens, RevokeOfUser, RevokeOfAll, IsAsked, Handled, SchemeOps
    <2>2. server'.schemes = server.schemes
      BY <1>0, <2>1 DEF StoreOK
    <2> QED BY <2>1, <2>2, SwitchesServed DEF SchemeOps
  <1> QED BY <1>1, <1>2, <1>3, <1>4, <1>5 DEF TokensPart

\* The next change, or the list after the last one.
LEMMA ChangeIsSent ==
  ASSUME NEW todo, NEW active
  PROVE  /\ NextChange(todo, active).reply = Absent
         /\ \/ NextChange(todo, active).op = "enable"
            \/ NextChange(todo, active).op = "schemes" /\ NextChange(todo, active).args = "saved"
  <1>1. \A op, args : Call(op, args).reply = Absent /\ Call(op, args).op = op /\ Call(op, args).args = args
    BY NewCall
  <1>2. CASE todo = {}
    BY <1>1, <1>2 DEF NextChange, ListSchemes
  <1>3. CASE todo # {}
    BY <1>1, <1>3 DEF NextChange
  <1> QED BY <1>2, <1>3

\* The list is asked for, or the next change, after an answer was taken.
LEMMA SwitchesReread ==
  ASSUME AddinInv, SwitchesOK, NEW i \in DOMAIN calls, NEW c, TakeAndSend(i, <<c>>), c.reply = Absent,
         c.op \in {"enable", "schemes"}, page' = [page EXCEPT !.doubt = Overlapping], UNCHANGED server,
         \/ c.op = "enable" \/ (c.op = "schemes" /\ c.args = "saved")
         \/ calls[i].op \notin {"enable", "schemes"}
  PROVE  SwitchesOK'
  <1>1. /\ IsSequence(Others(i)) /\ Elems(Others(i)) \subseteq Elems(calls)
        /\ Elems(calls) \subseteq Elems(Others(i)) \cup {calls[i]}
    BY Remaining DEF AddinInv
  <1>2. Elems(calls') = Elems(Others(i)) \cup {c}
    BY <1>1, AskedAfterSend DEF TakeAndSend
  <1>3. page'.doubt = Overlapping /\ page'.loaded = page.loaded /\ page'.saving = page.saving
    BY DEF AddinInv, AddinPageOK, AddinFields
  <1>4. ~page'.doubt => \A d \in Elems(calls) : d.op # "schemes"
    BY <1>3 DEF Overlapping, Waiting, Elems
  <1>5. page'.saving => \E d \in Elems(calls') : d.op = "enable" \/ (d.op = "schemes" /\ d.args = "saved")
    BY <1>1, <1>2, <1>3 DEF SwitchesOK
  <1>6. Changing' \/ Listing'
    BY <1>2 DEF Changing, Listing
  <1>7. ~page'.doubt =>
          \A d \in Elems(calls') : d.op = "schemes" /\ d.reply \notin {Absent, Failure} => FALSE
    BY <1>1, <1>2, <1>4
  <1> QED BY <1>5, <1>6, <1>7 DEF SwitchesOK

\* Something failed: only what is being saved matters.
LEMMA SwitchesFail ==
  ASSUME AddinInv, SwitchesOK, NEW i \in DOMAIN calls, Take(i), page'.doubt,
         \/ ~page'.saving
         \/ page'.saving = page.saving /\ calls[i].op \notin {"enable", "schemes"}
         \/ page'.saving = page.saving /\ calls[i].op = "schemes" /\ calls[i].args # "saved"
  PROVE  SwitchesOK'
  <1>1. Elems(calls) \subseteq Elems(calls') \cup {calls[i]}
    BY Remaining DEF AddinInv, Take
  <1> QED BY <1>1 DEF SwitchesOK

LEMMA SwitchesOfSwitches ==
  ASSUME AddinInv, SwitchesOK, SwitchesPart
  PROVE  SwitchesOK'
  <1>0. DOMAIN page = AddinFields /\ StoreOK(server) /\ IsSequence(calls)
    BY DEF AddinInv, AddinPageOK
  <1>1. ASSUME NEW s \in Schemes, FlipSwitch(s) PROVE SwitchesOK'
    <2>1. SameSwitches(page, page') /\ UNCHANGED <<calls, server>>
      BY <1>0, <1>1 DEF FlipSwitch, EditPage, Show, SameSwitches, AddinFields
    <2> QED BY <2>1, SwitchesEdit
  <1>2. ASSUME NEW s \in Schemes, DeleteScheme(s) PROVE SwitchesOK'
    BY <1>2, SwitchesAsk DEF DeleteScheme
  <1>3. CASE SaveEnabledChanges
    <2> DEFINE c == NextChange(Changed(page), page.drafts)
    <2>1. page' = [page EXCEPT !.saving = TRUE] /\ calls' = calls \o <<c>> /\ UNCHANGED server
      BY <1>3 DEF SaveEnabledChanges, Show, Send
    <2>2. c.reply = Absent /\ (c.op = "enable" \/ (c.op = "schemes" /\ c.args = "saved"))
      BY ChangeIsSent
    <2> HIDE DEF c
    <2>3. Elems(calls') = Elems(calls) \cup {c}
      BY <1>0, <2>1, AskedAfterSend
    <2>4. page'.loaded = page.loaded /\ page'.doubt = page.doubt
      BY <1>0, <2>1 DEF AddinFields
    <2>5. (Changing => Changing') /\ (Listing => Listing')
      BY <2>3 DEF Changing, Listing
    <2> QED BY <2>1, <2>2, <2>3, <2>4, <2>5 DEF SwitchesOK
  <1>4. CASE EnableScheme \/ DeleteStored
    <2>1. PICK i \in DOMAIN calls : \E r :
            calls[i].op \in {"enable", "deleteScheme"} /\ Reply(i, r) /\ UNCHANGED page
      BY <1>4 DEF EnableScheme, DeleteStored, IsAsked, Handled
    <2> QED BY <2>1, SwitchesServed
  <1>5. CASE EnabledAnswer
    <2>1. PICK i \in DOMAIN calls :
            /\ calls[i].op = "enable" /\ UNCHANGED server
            /\ IF Failed(i)
               THEN page' = [page EXCEPT !.saving = FALSE, !.doubt = TRUE] /\ Take(i)
               ELSE page' = [page EXCEPT !.doubt = Overlapping] /\ TakeAndSend(i, Following(i))
      BY <1>5 DEF EnabledAnswer, IsAnswered, Show, HandledHere
    <2>2. CASE Failed(i)
      <3>1. ~page'.saving /\ page'.doubt
        BY <1>0, <2>1, <2>2 DEF AddinFields
      <3> QED BY <2>1, <2>2, <3>1, SwitchesFail
    <2>3. CASE ~Failed(i)
      <3> DEFINE c == NextChange(calls[i].args.todo, calls[i].args.active)
      <3>1. TakeAndSend(i, <<c>>)
        BY <2>1, <2>3 DEF Following
      <3>2. c.reply = Absent /\ (c.op = "enable" \/ (c.op = "schemes" /\ c.args = "saved"))
        BY ChangeIsSent
      <3> HIDE DEF c
      <3> QED BY <2>1, <2>3, <3>1, <3>2, SwitchesReread
    <2> QED BY <2>2, <2>3
  <1>6. CASE DeletedAnswer
    <2>1. PICK i \in DOMAIN calls :
            /\ calls[i].op = "deleteScheme" /\ UNCHANGED server
            /\ IF Failed(i)
               THEN page' = [page EXCEPT !.doubt = TRUE] /\ Take(i)
               ELSE page' = [page EXCEPT !.doubt = Overlapping] /\ TakeAndSend(i, <<ListSchemes("deleted")>>)
      BY <1>6 DEF DeletedAnswer, IsAnswered, Show, HandledHere
    <2>2. CASE Failed(i)
      <3>1. page'.saving = page.saving /\ page'.doubt
        BY <1>0, <2>1, <2>2 DEF AddinFields
      <3> QED BY <2>1, <2>2, <3>1, SwitchesFail
    <2>3. CASE ~Failed(i)
      <3>1. ListSchemes("deleted").reply = Absent /\ ListSchemes("deleted").op = "schemes"
        BY NewCall DEF ListSchemes
      <3> QED BY <2>1, <2>3, <3>1, SwitchesReread
    <2> QED BY <2>2, <2>3
  <1> QED BY <1>1, <1>2, <1>3, <1>4, <1>5, <1>6 DEF SwitchesPart

\* The builder has switches no more than it had.
LEMMA BuilderKeepsSwitches ==
  ASSUME NEW p, DOMAIN p = AddinFields
  PROVE  /\ \A s : DOMAIN Pattern(p, s) = AddinFields /\ SameSwitches(p, Pattern(p, s))
         /\ DOMAIN NoDraft(p) = AddinFields /\ SameSwitches(p, NoDraft(p))
         /\ SameSwitches(p, StartBuilder(p))
  <1>1. ASSUME NEW s PROVE DOMAIN Pattern(p, s) = AddinFields /\ SameSwitches(p, Pattern(p, s))
    <2> DEFINE n == NormalizeSequenceSegments(s)
    <2>1. Pattern(p, s) = [p EXCEPT !.segments = n, !.example = Absent, !.doubt = @ \/ Waiting("check")]
      BY DEF Pattern
    <2> HIDE DEF n
    <2> QED BY <2>1 DEF SameSwitches, AddinFields
  <1>2. DOMAIN NoDraft(p) = AddinFields /\ SameSwitches(p, NoDraft(p))
    BY DEF NoDraft, SameSwitches, AddinFields
  <1>3. SameSwitches(p, StartBuilder(p))
    BY DEF StartBuilder, SameSwitches, AddinFields
  <1> QED BY <1>1, <1>2, <1>3

LEMMA SwitchesOfBuilder ==
  ASSUME AddinInv, SwitchesOK, BuilderPart
  PROVE  SwitchesOK'
  <1>0. DOMAIN page = AddinFields /\ StoreOK(server) /\ IsSequence(calls) /\ SameSwitches(page, page)
    BY DEF AddinInv, AddinPageOK, SameSwitches
  <1>1. ASSUME NEW p, EditPage(p), SameSwitches(page, p) PROVE SwitchesOK'
    BY <1>1, SwitchesEdit DEF EditPage, Show
  <1>2. ASSUME NEW auto \in BOOLEAN, DraftCounter(auto) PROVE SwitchesOK'
    <2>1. SameSwitches(page, [page EXCEPT !.draft.kind = "seq", !.draft.auto = auto])
      BY <1>0 DEF SameSwitches, AddinFields
    <2> QED BY <1>1, <1>2, <2>1 DEF DraftCounter
  <1>3. CASE EditPage(StartBuilder(page)) \/ CancelEdit
    BY <1>0, <1>1, <1>3, BuilderKeepsSwitches DEF CancelEdit
  <1>4. CASE EditSegment
    <2>1. PICK k : EditPage([page EXCEPT !.editor = k, !.draft = page.segments[k], !.strayed = FALSE])
      BY <1>4 DEF EditSegment
    <2>2. SameSwitches(page, [page EXCEPT !.editor = k, !.draft = page.segments[k], !.strayed = FALSE])
      BY <1>0 DEF SameSwitches, AddinFields
    <2> QED BY <1>1, <2>1, <2>2
  <1>5. CASE ApplyDraft \/ RemoveSegment \/ MoveSegment
    <2>1. PICK s, editor, strayed : LET p == Pattern(page, s) IN
            \/ EditPage(NoDraft(p))
            \/ EditPage([p EXCEPT !.strayed = strayed])
            \/ EditPage([p EXCEPT !.editor = editor, !.strayed = strayed])
      BY <1>5 DEF ApplyDraft, RemoveSegment, MoveSegment
    <2> DEFINE p == Pattern(page, s)
    <2>2. DOMAIN p = AddinFields /\ SameSwitches(page, p) /\ SameSwitches(p, NoDraft(p))
      BY <1>0, BuilderKeepsSwitches
    <2> HIDE DEF p
    <2>3. /\ SameSwitches(page, NoDraft(p)) /\ SameSwitches(page, [p EXCEPT !.strayed = strayed])
          /\ SameSwitches(page, [p EXCEPT !.editor = editor, !.strayed = strayed])
      BY <2>2 DEF SameSwitches, AddinFields
    <2> QED BY <1>1, <2>1, <2>3 DEF p
  <1>6. CASE CheckScheme
    <2> DEFINE c == Call("check", page.segments)
    <2>1. page' = [page EXCEPT !.example = Absent] /\ calls' = calls \o <<c>> /\ UNCHANGED server
      BY <1>6 DEF CheckScheme, AskServer, Show, Send
    <2>2. c.reply = Absent
      BY NewCall
    <2>3. SameSwitches(page, page')
      BY <1>0, <2>1 DEF SameSwitches, AddinFields
    <2> HIDE DEF c
    <2> QED BY <2>1, <2>2, <2>3, SwitchesSend
  <1>7. CASE CreateScheme
    BY <1>7, SwitchesAsk DEF CreateScheme
  <1>8. CASE CheckPattern \/ StoreScheme
    <2>1. PICK i \in DOMAIN calls : \E r :
            /\ calls[i].op \notin SchemeOps /\ Reply(i, r) /\ UNCHANGED page
            /\ UNCHANGED server \/ \E created : server' = [server EXCEPT !.created = created]
      BY <1>8 DEF CheckPattern, StoreScheme, IsAsked, Handled, SchemeOps
    <2>2. server'.schemes = server.schemes
      BY <1>0, <2>1 DEF StoreOK
    <2> QED BY <2>1, <2>2, SwitchesServed DEF SchemeOps
  <1>9. CASE CheckAnswer
    <2>1. PICK i \in DOMAIN calls :
            /\ calls[i].op = "check" /\ Take(i) /\ UNCHANGED server
            /\ page' = page \/ page' = [page EXCEPT !.example = calls[i].reply]
      BY <1>9 DEF CheckAnswer, IsAnswered, Show, HandledHere
    <2>2. SameSwitches(page, page')
      BY <1>0, <2>1 DEF SameSwitches, AddinFields
    <2> QED BY <2>1, <2>2, SwitchesTake DEF SchemeOps
  <1>10. CASE CreatedAnswer
    <2>1. PICK i \in DOMAIN calls :
            /\ calls[i].op = "create" /\ UNCHANGED server
            /\ IF Failed(i) THEN Take(i) /\ UNCHANGED page
               ELSE /\ page' = [page EXCEPT !.doubt = Overlapping]
                    /\ TakeAndSend(i, <<ListSchemes("created")>>)
      BY <1>10 DEF CreatedAnswer, IsAnswered, Show, HandledHere
    <2>2. CASE Failed(i)
      BY <1>0, <2>1, <2>2, SwitchesTake DEF SchemeOps
    <2>3. CASE ~Failed(i)
      <3>1. ListSchemes("created").reply = Absent /\ ListSchemes("created").op = "schemes"
        BY NewCall DEF ListSchemes
      <3> QED BY <2>1, <2>3, <3>1, SwitchesReread
    <2> QED BY <2>2, <2>3
  <1> QED BY <1>2, <1>3, <1>4, <1>5, <1>6, <1>7, <1>8, <1>9, <1>10 DEF BuilderPart

\* A list comes.
LEMMA SwitchesOfList ==
  ASSUME AddinInv, SwitchesOK, ServeSchemes \/ SchemesAnswer
  PROVE  SwitchesOK'
  <1>0. DOMAIN page = AddinFields /\ IsSequence(calls)
    BY DEF AddinInv, AddinPageOK
  <1>1. CASE ServeSchemes
    <2>1. PICK i \in DOMAIN calls :
            calls[i].op = "schemes" /\ Reply(i, server.schemes) /\ UNCHANGED <<page, server>>
      BY <1>1 DEF ServeSchemes, IsAsked, Handled
    <2> QED BY <2>1, SwitchesServed
  <1>2. CASE SchemesAnswer
    <2>1. PICK i \in DOMAIN calls : \E p :
            /\ calls[i].op = "schemes" /\ calls[i].reply # Absent
            /\ p = IF Failed(i) THEN [page EXCEPT !.doubt = TRUE]
                   ELSE [page EXCEPT !.loaded = calls[i].reply, !.drafts = calls[i].reply]
            /\ page' = CASE calls[i].args = "saved"   -> [p EXCEPT !.saving = FALSE]
                         [] calls[i].args = "deleted" -> p
                         [] calls[i].args = "created" -> StartBuilder(p)
            /\ Take(i) /\ UNCHANGED server
      BY <1>2 DEF SchemesAnswer, IsAnswered, Show, HandledHere
    <2>2. PICK p :
            /\ p = IF Failed(i) THEN [page EXCEPT !.doubt = TRUE]
                   ELSE [page EXCEPT !.loaded = calls[i].reply, !.drafts = calls[i].reply]
            /\ page' = CASE calls[i].args = "saved"   -> [p EXCEPT !.saving = FALSE]
                         [] calls[i].args = "deleted" -> p
                         [] calls[i].args = "created" -> StartBuilder(p)
      BY <2>1
    <2>3. /\ DOMAIN p = AddinFields /\ p.saving = page.saving /\ p.doubt = (page.doubt \/ Failed(i))
          /\ ~Failed(i) => p.loaded = calls[i].reply
      BY <1>0, <2>2 DEF AddinFields, AddinInv, AddinPageOK
    <2>4. calls[i].args \in {"saved", "deleted", "created"}
      BY <2>1 DEF AddinInv, AddinRequestOK, Elems
    <2>5. SameSwitches(p, StartBuilder(p))
      BY <2>3, BuilderKeepsSwitches
    <2>6. /\ page'.loaded = p.loaded /\ (p.doubt => page'.doubt)
          /\ page'.saving = IF calls[i].args = "saved" THEN FALSE ELSE page.saving
      BY <2>2, <2>3, <2>4, <2>5 DEF SameSwitches, AddinFields
    <2>7. CASE Failed(i)
      BY <2>1, <2>3, <2>6, <2>7, SwitchesFail
    <2>8. CASE ~Failed(i)
      <3>1. /\ Elems(calls') \subseteq Elems(calls) /\ Elems(calls) \subseteq Elems(calls') \cup {calls[i]}
            /\ calls[i] \in Elems(calls)
        BY <1>0, <2>1, Remaining DEF Take
      <3>2. Changing => Changing'
        BY <2>1, <3>1 DEF Changing
      <3>3. page'.saving => \E c \in Elems(calls') : c.op = "enable" \/ (c.op = "schemes" /\ c.args = "saved")
        BY <2>1, <2>6, <3>1 DEF SwitchesOK
      <3>4. ~page'.doubt => ~page.doubt /\ page'.loaded = calls[i].reply
        BY <2>3, <2>6, <2>8
      <3>5. calls[i].reply \notin {Absent, Failure}
        BY <2>1, <2>8 DEF Failed
      <3> QED BY <2>1, <3>1, <3>2, <3>3, <3>4, <3>5 DEF SwitchesOK
    <2> QED BY <2>7, <2>8
  <1> QED BY <1>1, <1>2

LEMMA SwitchesNext == AddinInv /\ SwitchesOK /\ [AddinNext \/ Lose]_vars => SwitchesOK'
  <1>1. ASSUME AddinInv, SwitchesOK, AddinNext PROVE SwitchesOK'
    BY <1>1, SwitchesOfTokens, SwitchesOfSwitches, SwitchesOfBuilder, SwitchesOfList DEF AddinNext
  <1>2. ASSUME AddinInv, SwitchesOK, Lose PROVE SwitchesOK'
    <2>1. PICK i \in DOMAIN calls : Reply(i, Failure) /\ UNCHANGED <<page, server>>
      BY <1>2 DEF Lose
    <2> QED BY <1>2, <2>1, SwitchesServed
  <1>3. ASSUME AddinInv, SwitchesOK, UNCHANGED vars PROVE SwitchesOK'
    BY <1>3, SwitchesEdit DEF vars, SameSwitches
  <1> QED BY <1>1, <1>2, <1>3

LEMMA SwitchesInit == AddinInit => SwitchesOK
  BY Few DEF AddinInit, AddinStart, AddinServer, SwitchesOK

\* While the page saves its switches a change is out, or the list that ends
\* it: no failure, and no order of the answers, leaves it saving.
THEOREM PageOfNumbersIsIdle == AddinSpec => []QuietPageIsIdle
  <1>1. AddinInv /\ SwitchesOK => QuietPageIsIdle
    BY Few DEF AddinInv, AddinPageOK, SwitchesOK, QuietPageIsIdle, Busy
  <1> QED BY <1>1, AddinInvariant, SwitchesInit, SwitchesNext, PTL DEF AddinSpec

\* For any number of tokens, schemes, requests and orders of their answers,
\* a quiet page shows what is stored, with the exceptions that the page's own
\* statement names: each change is followed by a list
\* (ApiTokensPage.tsx:40-100, AdminAddinPage.tsx:242).
THEOREM QuietSettingsShowTheStored ==
  /\ TokensSpec => []QuietPageShowsTheStored
  /\ AddinSpec  => []QuietPageShowsTheStored
  <1> USE DEF On
  <1>1. TokensInv /\ ListIsCurrent => QuietPageShowsTheStored
    BY DEF TokensInv, Types, Shows, QuietPageShowsTheStored, ShowsWhatIsStored, ShownSwitchesAreStored,
           CommentsAreTheParts, FilesAndLinksAreTheParts, RowsAnswerTheQuestion, PreferencesAreStored,
           SavedMarkupsAreStored, SuggestionsAnswerTheQuery
  <1>2. AddinInv /\ SwitchesOK => ShownSwitchesAreStored
    BY Few DEF SwitchesOK, Changing, Listing, ShownSwitchesAreStored
  <1>3. AddinInv /\ SwitchesOK => QuietPageShowsTheStored
    BY <1>2 DEF AddinInv, AddinPageOK, QuietPageShowsTheStored, ShowsWhatIsStored, ListIsCurrent,
           CommentsAreTheParts, FilesAndLinksAreTheParts, RowsAnswerTheQuestion, PreferencesAreStored,
           SavedMarkupsAreStored, SuggestionsAnswerTheQuery
  <1>4. TokensSpec => []QuietPageShowsTheStored
    BY <1>1, TokensInvariant, TokensAreShown, PTL
  <1>5. AddinSpec => []QuietPageShowsTheStored
    BY <1>3, AddinInvariant, SwitchesInit, SwitchesNext, PTL DEF AddinSpec
  <1> QED BY <1>4, <1>5
===============================================================================
