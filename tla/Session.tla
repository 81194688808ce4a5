------------------------------ MODULE Session ------------------------------
(* The signed-in session of one browser tab (apps/frontend: useAuth, scope.ts,
   api/client.ts, login/page.tsx and the guard every page carries) over the
   sign-in endpoints (apps/flask_api, blueprints/auth.py, auth_middleware.py).

   The tab keeps three things that have to agree: the scope in its session
   storage, which every request reads when it is sent; the cookie, which says
   which scope's session the server will honour; and the query cache, whose
   keys carry the scope the page was last rendered with.  An answer is what the
   server read, marked with the scope it read it for and with the number of
   sign-outs the tab had been through when the request was sent. *)
EXTENDS QueryCache, Naturals

CONSTANTS Scopes, NoScope, MaxSignIns, MaxSignOuts

SessionAssumption ==
  /\ NoScope \notin Scopes
  /\ MaxSignIns \in Nat /\ MaxSignOuts \in Nat

\* Who is signed in, and what any page lists.
Questions == {"me", "rows"}
Keys == Questions \X Scopes

VARIABLES
  stored,    \* the scope in session storage
  cookie,    \* the scope of the session the cookie names, if it is alive
  screen,    \* "login" or "page"
  rendered,  \* the scope the screen was last rendered with
  cache,     \* [Keys -> entry]
  sent,      \* [Keys -> the scope and sign-outs its last request went out with]
  signIn,    \* the submission of the login form, and the scope it asks for
  signOut,   \* the press of Logout
  signIns, signOuts

vars == <<stored, cookie, screen, rendered, cache, sent, signIn, signOut, signIns, signOuts>>

Stamp == [scope |-> stored, after |-> signOuts]
Stamps == [scope : Scopes \cup {NoScope}, after : 0 .. MaxSignOuts]

NoSignIn == [phase |-> "idle", scope |-> NoScope]

TypeOK ==
  /\ stored \in Scopes \cup {NoScope} /\ cookie \in Scopes \cup {NoScope}
  /\ screen \in {"login", "page"} /\ rendered \in Scopes \cup {NoScope}
  /\ cache \in [Keys -> Entries(Stamps)] /\ sent \in [Keys -> Stamps]
  /\ signIn \in [phase : {"idle", "asked", "accepted", "refused", "reading"}, scope : Scopes \cup {NoScope}]
  /\ signOut \in {"idle", "asked", "done", "failed"}
  /\ signIns \in 0 .. MaxSignIns /\ signOuts \in 0 .. MaxSignOuts

Init ==
  /\ stored = NoScope /\ cookie = NoScope /\ screen = "login" /\ rendered = NoScope
  /\ cache = [k \in Keys |-> NewEntry]
  /\ sent = [k \in Keys |-> [scope |-> NoScope, after |-> 0]]
  /\ signIn = NoSignIn /\ signOut = "idle" /\ signIns = 0 /\ signOuts = 0

\* The keys whose query a screen mounts; without a scope the queries are off.
Mounted(s, r) ==
  {k \in {<<"me", r>>, <<"rows", r>>} : r # NoScope /\ (s = "login" => k[1] = "me")}

\* The screen is rendered: queries that were not mounted are, and are fetched.
Rendered(s, r, entries) ==
  /\ screen' = s /\ rendered' = r
  /\ LET new == Mounted(s, r) \ (IF s = screen THEN Mounted(screen, rendered) ELSE {})
     IN /\ cache' = [k \in Keys |-> IF k \in new THEN Mount(entries[k]) ELSE entries[k]]
        /\ sent' = [k \in Keys |->
             IF k \in new /\ ~entries[k].busy THEN [scope |-> stored', after |-> signOuts'] ELSE sent[k]]

IsAuthLoading == rendered # NoScope /\ IsLoading(cache[<<"me", rendered>>])
IsAuthenticated == rendered # NoScope /\ cache[<<"me", rendered>>].data # NoData

-----------------------------------------------------------------------------
(* Signing in *)

\* The form: the scope is stored first, and the screen is rendered with it.
SubmitLogin(s) ==
  /\ screen = "login" /\ signIn = NoSignIn /\ ~IsAuthLoading /\ signIns < MaxSignIns
  /\ signIn' = [phase |-> "asked", scope |-> s] /\ signIns' = signIns + 1
  /\ stored' = s
  /\ UNCHANGED <<cookie, signOut, signOuts>>
  /\ Rendered("login", s, cache)

\* The server accepts, and the cookie names the new session; or it refuses (bad
\* credentials, too many of them), or is not reached.
AnswerLogin ==
  /\ signIn.phase = "asked"
  /\ \/ signIn' = [signIn EXCEPT !.phase = "accepted"] /\ cookie' = signIn.scope
     \/ signIn' = [signIn EXCEPT !.phase = "refused"] /\ UNCHANGED cookie
  /\ UNCHANGED <<stored, screen, rendered, cache, sent, signOut, signIns, signOuts>>

\* Accepted: whoever was signed in is asked for again.
LoginAccepted ==
  /\ signIn.phase = "accepted"
  /\ signIn' = [signIn EXCEPT !.phase = "reading"]
  /\ LET shown == Mounted(screen, rendered) \cap ({"me"} \X Scopes)
     IN /\ cache' = [k \in Keys |-> IF k \in shown THEN Invalidate(cache[k]) ELSE cache[k]]
        /\ sent' = [k \in Keys |-> IF k \in shown /\ ~IsLoading(cache[k]) THEN Stamp ELSE sent[k]]
  /\ UNCHANGED <<stored, cookie, screen, rendered, signOut, signIns, signOuts>>

\* The answer to that question, whatever it is, opens the page.
LoginEnds ==
  /\ signIn.phase = "reading" /\ (rendered # NoScope => ~cache[<<"me", rendered>>].busy)
  /\ signIn' = NoSignIn
  /\ UNCHANGED <<stored, cookie, signOut, signIns, signOuts>>
  /\ Rendered("page", stored, cache)

\* Refused: the tab has no scope any more, even if it had one before.
LoginRefused ==
  /\ signIn.phase = "refused"
  /\ signIn' = NoSignIn /\ stored' = NoScope
  /\ UNCHANGED <<cookie, signOut, signIns, signOuts>>
  /\ Rendered("login", NoScope, cache)

-----------------------------------------------------------------------------
(* Signing out *)

PressLogout ==
  /\ screen = "page" /\ signOut = "idle" /\ signOuts < MaxSignOuts
  /\ signOut' = "asked"
  /\ UNCHANGED <<stored, cookie, screen, rendered, cache, sent, signIn, signIns, signOuts>>

\* Without a live session for the stored scope the server refuses.
AnswerLogout ==
  /\ signOut = "asked"
  /\ \/ /\ cookie # NoScope /\ cookie = stored
        /\ signOut' = "done" /\ cookie' = NoScope
     \/ signOut' = "failed" /\ UNCHANGED cookie
  /\ UNCHANGED <<stored, screen, rendered, cache, sent, signIn, signIns, signOuts>>

\* Slip: the answers are dropped and the requests that are out are not.
ForgottenAnswers == [k \in Keys |-> [cache[k] EXCEPT !.data = NoData]]

\* queryClient.clear: the answers, and the requests that are out.
Forgotten == [k \in Keys |-> NewEntry]

\* Either way the tab forgets its scope and its answers; but only a sign-out
\* that succeeded leaves the page.
LogoutEnds ==
  /\ signOut \in {"done", "failed"}
  /\ signOut' = "idle" /\ signOuts' = signOuts + 1 /\ stored' = NoScope
  /\ UNCHANGED <<cookie, signIn, signIns>>
  /\ IF signOut = "done" THEN Rendered("login", NoScope, Forgotten)
     ELSE cache' = Forgotten /\ UNCHANGED <<screen, rendered, sent>>

-----------------------------------------------------------------------------
(* The page and its requests *)

\* The guard of every page: no scope, or nobody signed in, means the login page.
GuardPage ==
  /\ screen = "page"
  /\ stored = NoScope \/ ~(IsAuthLoading \/ IsAuthenticated)
  /\ UNCHANGED <<stored, cookie, signIn, signOut, signIns, signOuts>>
  /\ Rendered("login", stored, cache)

\* The page's query failed once: it is sent again, with the scope of now.
RetryRows(s) ==
  /\ <<"rows", s>> \in Mounted(screen, rendered) /\ Unanswered(cache[<<"rows", s>>])
  /\ sent' = [sent EXCEPT ![<<"rows", s>>] = Stamp]
  /\ UNCHANGED <<stored, cookie, screen, rendered, cache, signIn, signOut, signIns, signOuts>>

\* A failure is heard of when it happens.
ReadQuery(k) ==
  /\ Unanswered(cache[k])
  /\ \/ /\ sent[k].scope # NoScope /\ sent[k].scope = cookie
        /\ cache' = [cache EXCEPT ![k] = Answer(@, sent[k])]
     \/ cache' = [cache EXCEPT ![k] = Deliver(Answer(@, Failure))]
  /\ UNCHANGED <<stored, cookie, screen, rendered, sent, signIn, signOut, signIns, signOuts>>

DeliverQuery(k) ==
  /\ Answered(cache[k])
  /\ cache' = [cache EXCEPT ![k] = Deliver(@)]
  /\ UNCHANGED <<stored, cookie, screen, rendered, sent, signIn, signOut, signIns, signOuts>>

\* The session runs out, or is ended elsewhere.
SessionExpires ==
  /\ cookie # NoScope
  /\ cookie' = NoScope
  /\ UNCHANGED <<stored, screen, rendered, cache, sent, signIn, signOut, signIns, signOuts>>

Next ==
  \/ \E s \in Scopes : SubmitLogin(s) \/ RetryRows(s)
  \/ AnswerLogin \/ LoginAccepted \/ LoginEnds \/ LoginRefused
  \/ PressLogout \/ AnswerLogout \/ LogoutEnds \/ GuardPage \/ SessionExpires
  \/ \E k \in Keys : ReadQuery(k) \/ DeliverQuery(k)

Spec == Init /\ [][Next]_vars

-----------------------------------------------------------------------------
(* Properties *)

(* What the cache holds under a scope was read for that scope, and nothing the
   tab had asked for before a sign-out is found in it afterwards: not what had
   been answered, and not what was still to be answered or retried. *)
NothingOutlivesSignOut ==
  \A k \in Keys : cache[k].data # NoData => cache[k].data = [scope |-> k[2], after |-> signOuts]
=============================================================================
