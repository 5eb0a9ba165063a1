----------------------------- MODULE GateSession -----------------------------
(***************************************************************************)
(* The zero-click session of a deployed app behind the gate                 *)
(* (auth/gate-session.server.ts): the hook that runs before /get-session    *)
(* and turns the verified x-grok-identity header into a session.  The gate, *)
(* Better Auth and the browser's cookie jar are external.                   *)
(*                                                                         *)
(* A session is a slot of Sessions; a slot that no cookie names is free for *)
(* the next one, whatever row the database still has of it.                *)
(***************************************************************************)
EXTENDS Naturals

CONSTANTS
  Viewers,     \* people the gate knows
  Requests,    \* requests to /get-session that are under way at once
  Sessions,    \* slots of session rows
  MaxTrouble   \* bound: changes of who is behind the gate, sign-ins through the broker, and calls that fail

VARIABLES
  viewer,   \* who the gate says is there, Nobody for an anonymous visit
  db,       \* session row -> its user
  browser,  \* the cookies: session_token, session_data (the cookie cache) and the marker
  req,      \* the requests
  shown,    \* the user that the page got last, NoPage before there is one
  trouble   \* what MaxTrouble counts

vars == <<viewer, db, browser, req, shown, trouble>>

Nobody == "nobody"
Broker == "broker"    \* the user of a sign-in through the broker, whom no viewer is linked to
NoPage == "no page"
NoSession == 0
NoCookies == [session |-> NoSession, cached |-> Nobody, marker |-> FALSE]
Idle == [at |-> "idle", viewer |-> Nobody, cookies |-> NoCookies, set |-> NoCookies, changed |-> {}, user |-> Nobody, failed |-> FALSE]

Init ==
  /\ viewer = Nobody
  /\ db = [s \in Sessions |-> Nobody]
  /\ browser = NoCookies
  /\ req = [r \in Requests |-> Idle]
  /\ shown = NoPage
  /\ trouble = 0

InUse == {browser.session} \cup {req[r].cookies.session : r \in Requests} \cup {req[r].set.session : r \in Requests}
Fresh(s) == s \in Sessions \ InUse /\ \A other \in Sessions \ InUse : s <= other

Counted == trouble < MaxTrouble /\ trouble' = trouble + 1

----------------------------------------------------------------------------
(* The visitor.                                                             *)

\* The page is opened.
Opens ==
  /\ shown = NoPage
  /\ viewer' \in Viewers \cup {Nobody} /\ shown' = Nobody
  /\ UNCHANGED <<db, browser, req, trouble>>

ViewerChanges ==
  /\ shown # NoPage /\ Counted
  /\ \E v \in (Viewers \cup {Nobody}) \ {viewer} : viewer' = v
  /\ UNCHANGED <<db, browser, req, shown>>

\* A sign-in through the broker ends the session there was, sets both cookies, and leaves the page with its requests.
BrokerSignIn ==
  /\ shown # NoPage /\ Counted
  /\ \E s \in Sessions :
       /\ Fresh(s)
       /\ db' = [x \in Sessions |-> IF x = s THEN Broker ELSE IF x = browser.session THEN Nobody ELSE db[x]]
       /\ browser' = [browser EXCEPT !.session = s, !.cached = Broker]
  /\ req' = [r \in Requests |-> Idle]
  /\ UNCHANGED <<viewer, shown>>

\* The five minutes of the cookie cache are over.
CacheExpires ==
  /\ browser.cached # Nobody /\ browser' = [browser EXCEPT !.cached = Nobody]
  /\ UNCHANGED <<viewer, db, req, shown, trouble>>

\* The page asks who it is; the gate adds the header.
Send(r) ==
  /\ shown # NoPage /\ req[r].at = "idle"
  /\ req' = [req EXCEPT ![r] = [Idle EXCEPT !.at = "asked", !.viewer = viewer, !.cookies = browser]]
  /\ UNCHANGED <<viewer, db, browser, shown, trouble>>

----------------------------------------------------------------------------
(* The hook.  Goes(r, x) replaces the state of r; a fault is counted.       *)

Goes(r, x) == req' = [req EXCEPT ![r] = x] /\ UNCHANGED <<viewer, browser, shown>>
NoFault == UNCHANGED trouble
Fault == Counted
Failed(x) == [x EXCEPT !.at = "endpoint", !.failed = TRUE]

\* clearGateMarkerIfPresent()
MarkerCleared(x) == IF x.cookies.marker THEN [x EXCEPT !.changed = @ \cup {"marker"}, !.set.marker = FALSE] ELSE x
\* writeGateMarkerCookie()
MarkerSet(x) == [x EXCEPT !.changed = @ \cup {"marker"}, !.set.marker = TRUE]

\* An anonymous visit; a header that is verified; one that is not.
Hook(r) ==
  LET x == req[r] IN
  /\ x.at = "asked"
  /\ IF x.viewer = Nobody THEN Goes(r, [MarkerCleared(x) EXCEPT !.at = "endpoint"]) /\ NoFault
     ELSE \/ Goes(r, [x EXCEPT !.at = IF x.cookies.session = NoSession THEN "mint" ELSE "lookup"]) /\ NoFault
          \/ Goes(r, Failed(x)) /\ Fault
  /\ UNCHANGED db

\* getSession(), here and in the endpoint: the cookie cache answers before the database does.
UserOf(cookies) ==
  IF cookies.session = NoSession THEN Nobody
  ELSE IF cookies.cached # Nobody THEN cookies.cached ELSE db[cookies.session]

\* Mutant: any session will do for a viewer.
BoundToAnyone(user, v) == user # Nobody
\* sessionBoundToGateIdentity()
Bound(user, v) == user = v

\* The session of the request: kept when it is the viewer's, deleted (or not, when that fails) when it is not.
LookUp(r) ==
  LET x == req[r]
      user == UserOf(x.cookies)
      next == [x EXCEPT !.at = "mint"]
  IN
  /\ x.at = "lookup"
  /\ \/ user = Nobody /\ Goes(r, next) /\ NoFault /\ UNCHANGED db
     \/ Goes(r, next) /\ Fault /\ UNCHANGED db                          \* getSessionFromCtx(), or deleteSession(), failed
     \/ user # Nobody /\ Goes(r, Failed(x)) /\ Fault /\ UNCHANGED db    \* findAccounts() failed
     \/ /\ Bound(user, x.viewer)
        /\ Goes(r, [MarkerSet(x) EXCEPT !.at = "endpoint"]) /\ NoFault /\ UNCHANGED db
     \/ /\ user # Nobody /\ ~Bound(user, x.viewer)
        /\ Goes(r, next) /\ NoFault
        /\ db' = [db EXCEPT ![x.cookies.session] = Nobody]

\* Mutant: the request keeps the cookie cache of the session that was replaced.
Reissued(cookies, s) == [cookies EXCEPT !.session = s]
\* setRequestCookie() and removeRequestCookie(): the endpoint sees the new session in this very request.
Injected(cookies, s) == [cookies EXCEPT !.session = s, !.cached = Nobody]

\* emitSessionCookie(); expireSessionDataCookie(), the cache being of the session that was replaced.
Emitted(x, s) == [x EXCEPT !.changed = @ \cup {"session"}, !.set.session = s]
Expired(x) == [x EXCEPT !.changed = @ \cup {"cached"}, !.set.cached = Nobody]

\* handleOAuthUserInfo(), and the cookies of the session it made.
Mint(r) ==
  LET x == req[r] IN
  /\ x.at = "mint"
  /\ \/ Goes(r, Failed(x)) /\ Fault /\ UNCHANGED db
     \/ \E s \in Sessions :
          /\ Fresh(s)
          /\ db' = [db EXCEPT ![s] = x.viewer]
          /\ \/ Goes(r, Failed(x)) /\ Fault                             \* emitSessionCookie() failed
             \/ /\ Goes(r, [Expired(MarkerSet(Emitted(x, s))) EXCEPT !.at = "endpoint", !.cookies = Injected(x.cookies, s)])
                /\ NoFault

----------------------------------------------------------------------------
(* /get-session itself, and the response.                                   *)

\* A session that is found is cached; of one that is gone the cookies are dropped.
Endpoint(r) ==
  LET x == req[r]
      user == UserOf(x.cookies)
      session == IF user = Nobody THEN NoSession ELSE x.set.session
  IN
  /\ x.at = "endpoint"
  /\ Goes(r, [x EXCEPT !.at = "answered", !.user = user, !.set.cached = user, !.set.session = session,
                       !.changed = @ \cup {"cached"} \cup IF user = Nobody THEN {"session"} ELSE {}])
  /\ NoFault /\ UNCHANGED db

Receive(r) ==
  LET x == req[r] IN
  /\ x.at = "answered"
  /\ browser' = [c \in DOMAIN browser |-> IF c \in x.changed THEN x.set[c] ELSE browser[c]]
  /\ shown' = x.user
  /\ req' = [req EXCEPT ![r] = Idle]
  /\ UNCHANGED <<viewer, db, trouble>>

----------------------------------------------------------------------------
Step(r) == Send(r) \/ Hook(r) \/ LookUp(r) \/ Mint(r) \/ Endpoint(r) \/ Receive(r)
Next == Opens \/ ViewerChanges \/ BrokerSignIn \/ CacheExpires \/ \E r \in Requests : Step(r)

Spec == Init /\ [][Next]_vars

\* A page asks again (on load, on focus), its requests are answered, and a cookie cache gets old.
Fairness == WF_vars(CacheExpires) /\ \A r \in Requests : WF_vars(Step(r))
FairSpec == Spec /\ Fairness

----------------------------------------------------------------------------
(* Properties                                                               *)

\* A request that carries a verified identity is never answered with another user, whatever session, cookie cache
\* or concurrent request there is, unless a call of the hook failed.
NeverTheOther ==
  \A r \in Requests :
    req[r].at = "answered" /\ req[r].viewer # Nobody /\ ~req[r].failed => req[r].user \in {req[r].viewer, Nobody}

\* The page of a viewer who stays ends up with that viewer, though late answers of others may come in between.
ViewerIsShown == \A v \in Viewers : <>[](viewer = v) => []<>(shown = v)

\* A visitor who left the gate gets the sign-out button back: its marker does not outlive the identity.
MarkerGoes == <>[](viewer = Nobody) => <>[](~browser.marker)

----------------------------------------------------------------------------
(* The inductive invariant of NeverTheOther.                                *)

People == Viewers \cup {Nobody, Broker}
MaybeSession == Sessions \cup {NoSession}
Cookies == [session : MaybeSession, cached : People, marker : BOOLEAN]
GateRequests ==
  [at : {"idle", "asked", "lookup", "mint", "endpoint", "answered"}, viewer : Viewers \cup {Nobody}, cookies : Cookies,
   set : Cookies, changed : SUBSET {"session", "cached", "marker"}, user : People, failed : BOOLEAN]
TypeOK ==
  /\ viewer \in Viewers \cup {Nobody}
  /\ db \in [Sessions -> People]
  /\ browser \in Cookies
  /\ req \in [Requests -> GateRequests]
  /\ trouble \in Nat

\* The cookies of a request that the hook let through name the viewer or nobody: by the cookie cache, or by a row
\* that is the viewer's or has been deleted since, and that no other session takes while the request is under way.
NamesViewer(x) ==
  x.cookies.session # NoSession =>
    x.cookies.cached = x.viewer \/ (x.cookies.cached = Nobody /\ db[x.cookies.session] \in {x.viewer, Nobody})
LetThrough ==
  \A r \in Requests : req[r].at = "endpoint" /\ req[r].viewer # Nobody /\ ~req[r].failed => NamesViewer(req[r])

GateInv == TypeOK /\ LetThrough /\ NeverTheOther
=============================================================================
