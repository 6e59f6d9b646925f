------------------------------- MODULE TokensPage ------------------------------
(***************************************************************************)
(* A user's API tokens: app/services/api_tokens.py with its routes in      *)
(* app/views/me.py, and the page that uses them,                           *)
(* frontend/src/pages/ApiTokensPage.tsx.                                   *)
(*                                                                         *)
(* The page has no busy flag: requests overlap as fast as one clicks.      *)
(* Tokens are numbered in the order of their creation; `from' is the token *)
(* one was made to replace, `won' that the replacement took place.  An     *)
(* account that is deactivated loses its tokens in a second operation.     *)
(* `sweeps', `checked' and `late' are history: how often that was done, how *)
(* often when the owner of a token was found active, and whether it was    *)
(* done again before the token was stored.                                 *)
(***************************************************************************)
EXTENDS Browser

NewToken(from, w, late) ==
  [revoked |-> FALSE, from |-> from, won |-> FALSE, checked |-> w.sweeps, late |-> late]

TokensStart == [at |-> "tokens", tokens |-> <<>>, secret |-> 0, doubt |-> FALSE]
TokensServer(stored) ==
  [tokens |-> stored, active |-> TRUE, leaving |-> FALSE, sweeps |-> 0]

Seen(tokens)    == [t \in DOMAIN tokens |-> tokens[t].revoked]
LoadTokens      == Call("list", Absent)
\* Two lists on their way may come back in any order.
TwoLists        == page.doubt \/ Waiting("list")

-------------------------------------------------------------------------------
(* The page.                                                               *)

Ask(op, t) ==
  /\ Act /\ On("tokens")
  /\ Send(<<Call(op, t)>>)
  /\ UNCHANGED <<page, server>>

CreateToken == Ask("create", 0)
RotateToken == \E t \in DOMAIN page.tokens : ~page.tokens[t] /\ Ask("rotate", t)
RevokeToken == \E t \in DOMAIN page.tokens : ~page.tokens[t] /\ Ask("revoke", t)

\* Mutant: the list is not read again after a revocation.
ReloadAfterSecret(op) == op # "revoke"

ReloadAfter(op) == op \in {"create", "rotate", "revoke"}

\* The secret is shown once, in place of the one before it.
TokenAnswer == \E i \in DOMAIN calls :
  /\ \E op \in {"create", "rotate", "revoke"} : IsAnswered(i, op)
  /\ IF Failed(i)
     THEN Show([page EXCEPT !.doubt = TRUE]) /\ Take(i)
     ELSE /\ Show([page EXCEPT !.doubt = TwoLists,
                     !.secret = IF calls[i].op = "revoke" THEN @ ELSE calls[i].reply])
          /\ TakeAndSend(i, IF ReloadAfter(calls[i].op) THEN <<LoadTokens>> ELSE <<>>)
  /\ UNCHANGED <<server, left>>

ListAnswer == \E i \in DOMAIN calls :
  /\ IsAnswered(i, "list")
  /\ Show(IF Failed(i) THEN [page EXCEPT !.doubt = TRUE]
          ELSE [page EXCEPT !.tokens = calls[i].reply])
  /\ Take(i)
  /\ UNCHANGED <<server, left>>

-------------------------------------------------------------------------------
(* The server.                                                             *)

Store(tokens) == server' = [server EXCEPT !.tokens = tokens]
Serving       == UNCHANGED <<page, left>>

ListTokens == \E i \in DOMAIN calls :
  /\ IsAsked(i, "list")
  /\ Reply(i, Seen(server.tokens))
  /\ Serving /\ UNCHANGED server

\* The owner, and the token to be rotated, are looked up.
CheckOwner == \E i \in DOMAIN calls :
  /\ IsAsked(i, "create") \/ IsAsked(i, "rotate")
  /\ LET t == calls[i].args IN
     IF server.active /\ (t # 0 => ~server.tokens[t].revoked)
     THEN Work(i, [step |-> "insert", token |-> 0, sweeps |-> server.sweeps])
     ELSE Reply(i, Failure)
  /\ Serving /\ UNCHANGED server

InsertToken == \E i \in DOMAIN calls :
  /\ IsWorking(i) /\ calls[i].work.step = "insert"
  /\ LET w == calls[i].work
         n == Len(server.tokens) + 1
     IN /\ Store(Append(server.tokens, NewToken(calls[i].args, w, server.sweeps > w.sweeps)))
        /\ IF calls[i].op = "create" THEN Reply(i, n)
           ELSE Work(i, [w EXCEPT !.step = "replace", !.token = n])
  /\ Serving

\* Mutant: the update does not ask whether the token is still there to revoke.
AlwaysRevocable(t) == TRUE

Revocable(t) == ~server.tokens[t].revoked

\* The old token is revoked if nobody did so since; otherwise the new one is.
ReplaceToken == \E i \in DOMAIN calls :
  /\ IsWorking(i) /\ calls[i].work.step = "replace"
  /\ LET w   == calls[i].work
         old == calls[i].args
     IN IF Revocable(old)
        THEN /\ Store([server.tokens EXCEPT ![old].revoked = TRUE, ![w.token].won = TRUE])
             /\ Reply(i, w.token)
        ELSE Work(i, [w EXCEPT !.step = "undo"]) /\ UNCHANGED server
  /\ Serving

UndoReplacement == \E i \in DOMAIN calls :
  /\ IsWorking(i) /\ calls[i].work.step = "undo"
  /\ Store([server.tokens EXCEPT ![calls[i].work.token].revoked = TRUE])
  /\ Reply(i, Failure)
  /\ Serving

RevokeStored == \E i \in DOMAIN calls :
  /\ IsAsked(i, "revoke")
  /\ Store([server.tokens EXCEPT ![calls[i].args].revoked = TRUE])
  /\ Reply(i, 0)
  /\ Serving

\* An administrator deactivates the account: the user is saved, then the
\* tokens are revoked.
Deactivate ==
  /\ Act /\ On("tokens") /\ server.active /\ ~server.leaving
  /\ server' = [server EXCEPT !.active = FALSE, !.leaving = TRUE]
  /\ UNCHANGED <<page, calls>>

\* Mutant: replacements are taken to go with what they replaced.
SweptCreated(tokens) == [t \in DOMAIN tokens |-> [tokens[t] EXCEPT !.revoked = @ \/ tokens[t].from = 0]]

Swept(tokens) == [t \in DOMAIN tokens |-> [tokens[t] EXCEPT !.revoked = TRUE]]

RevokeUserTokens ==
  /\ On("tokens") /\ server.leaving
  /\ server' = [server EXCEPT !.leaving = FALSE, !.sweeps = @ + 1, !.tokens = Swept(@)]
  /\ UNCHANGED <<page, calls, left>>

Reactivate ==
  /\ Act /\ On("tokens") /\ ~server.active /\ ~server.leaving
  /\ server' = [server EXCEPT !.active = TRUE]
  /\ UNCHANGED <<page, calls>>

TokensNext ==
  /\ On("tokens")
  /\ \/ CreateToken \/ RotateToken \/ RevokeToken \/ TokenAnswer \/ ListAnswer
     \/ ListTokens \/ CheckOwner \/ InsertToken \/ ReplaceToken \/ UndoReplacement \/ RevokeStored
     \/ Deactivate \/ RevokeUserTokens \/ Reactivate

-------------------------------------------------------------------------------

\* A rotation that is answered has ended the old token, and of two rotations
\* of one token only one is answered (api_tokens.py:244).
RotationHandsOver ==
  On("tokens") =>
    /\ \A t \in DOMAIN server.tokens :
         server.tokens[t].won => server.tokens[server.tokens[t].from].revoked
    /\ \A t, u \in DOMAIN server.tokens :
         /\ server.tokens[t].won /\ server.tokens[u].won
         /\ server.tokens[t].from = server.tokens[u].from
         => t = u

\* While an account is out of use, and after it was, a token asked for before
\* is still good only if its request found the owner active before the sweep
\* and stored it after (api_tokens.py:121, 138).
OnlyLateTokensSurvive ==
  On("tokens") =>
    \A t \in DOMAIN server.tokens :
      /\ ~server.tokens[t].revoked
      /\ server.tokens[t].checked < server.sweeps \/ ~(server.active \/ server.leaving)
      => server.tokens[t].late

\* A quiet page shows its tokens as they are, unless two lists overlapped, a
\* request failed, or the account was swept (ApiTokensPage.tsx:40-100).
ListIsCurrent ==
  On("tokens") /\ calls = <<>> /\ ~page.doubt /\ server.sweeps = 0 /\ ~server.leaving =>
    page.tokens = Seen(server.tokens)
===============================================================================
