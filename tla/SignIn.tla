------------------------------- MODULE SignIn -------------------------------
(***************************************************************************)
(* Signing in and out in one page (auth/client.ts, scripts/sign-out-plan,   *)
(* auth/popup.server.ts).  A deployed page has a session cookie that only   *)
(* the server can end; the live preview has a bearer token in its           *)
(* sessionStorage, which a popup posts to it.  The auth server, the broker  *)
(* and the browser are external.  A session is the number of its making.    *)
(***************************************************************************)
EXTENDS Naturals

CONSTANT MaxSessions   \* bound: sessions the server makes

VARIABLES
  preview,  \* inLivePreview()
  made,     \* sessions made so far
  alive,    \* those that the server still honours
  jar,      \* the session cookie that the popup, or the deployed page, sends; 0 for none
  bearer,   \* grok-auth.bearer-token, 0 for none
  flow,     \* the call of signIn() or signOut() that runs, or ran last
  request,  \* its sign-out request, and the session that it names
  popup,    \* the window of signIn(): its phase, the message that is on its way, the token it posted,
            \* and whether nobody listened when the message came
  grace     \* closeTimer runs

vars == <<preview, made, alive, jar, bearer, flow, request, popup, grace>>

None == 0
Silence == {}
NoRequest == [at |-> "none", session |-> None]
NoPopup == [at |-> "none", message |-> Silence, token |-> None, missed |-> FALSE]

Init ==
  /\ preview \in BOOLEAN
  /\ made = 0 /\ alive = {} /\ jar = None /\ bearer = None
  /\ flow = [call |-> "none", at |-> "over", since |-> 0]
  /\ request = NoRequest /\ popup = NoPopup /\ grace = FALSE

Idle == flow.at \in {"over", "done", "threw"}

----------------------------------------------------------------------------
(* The start of both calls.                                                 *)

Credential == IF preview THEN bearer ELSE jar
Asks == ~preview \/ bearer # None

\* Either call asks the server to end the session; a preview without a token has none to end.
Start(call, window) ==
  /\ Idle
  /\ flow' = [call |-> call, at |-> IF Asks THEN "clearing" ELSE "cleared", since |-> made]
  /\ request' = IF Asks THEN [at |-> "sent", session |-> Credential] ELSE NoRequest
  /\ popup' = [NoPopup EXCEPT !.at = window]
  /\ grace' = FALSE
  /\ UNCHANGED <<preview, made, alive, jar, bearer>>

\* signIn() opens its window first, on the click; the browser may block it.
SignsIn == \E window \in IF preview THEN {"login", "blocked"} ELSE {"none"} : Start("in", window)
\* signOut(), of a page that shows a user
SignsOut == Credential # None /\ Start("out", "none")

\* The server answers: it has ended the session, or it failed.  It may answer after the page gave up.
ServerEnds ==
  /\ request.at = "sent"
  /\ alive' = alive \ {request.session}
  /\ request' = [request EXCEPT !.at = "ok"]
  /\ jar' = IF preview THEN jar ELSE None
  /\ UNCHANGED <<preview, made, bearer, flow, popup, grace>>
ServerFails ==
  /\ request.at = "sent"
  /\ request' = [request EXCEPT !.at = "failed"]
  /\ UNCHANGED <<preview, made, alive, jar, bearer, flow, popup, grace>>

\* Mutant: the wait has no timer.
Unbounded == request.at # "sent"
\* settleWithin(): an answer, or the timer.
Settles == TRUE

Clear ==
  /\ flow.at = "clearing" /\ Settles
  /\ flow' = [flow EXCEPT !.at = "cleared"]
  /\ UNCHANGED <<preview, made, alive, jar, bearer, request, popup, grace>>

----------------------------------------------------------------------------
(* signOut()                                                                *)

\* Mutant: the page is told that it is signed out, whatever the server said.
AlwaysOut == TRUE
\* runSignOut(): in the preview dropping the token is enough; a deployed page needs the answer.
IsOut == preview \/ request.at = "ok"

EndsSignOut ==
  /\ flow.call = "out" /\ flow.at = "cleared"
  /\ flow' = [flow EXCEPT !.at = IF IsOut THEN "done" ELSE "threw"]
  /\ bearer' = IF IsOut THEN None ELSE bearer
  /\ UNCHANGED <<preview, made, alive, jar, request, popup, grace>>

----------------------------------------------------------------------------
(* signIn()                                                                 *)

\* clearToken(); then the page leaves for the broker, or waits for its window: the listener is there from here on.
GoesOn ==
  /\ flow.call = "in" /\ flow.at = "cleared"
  /\ bearer' = None
  /\ flow' = [flow EXCEPT !.at = IF ~preview THEN "away" ELSE IF popup.at = "blocked" THEN "threw" ELSE "waiting"]
  /\ request' = IF preview THEN request ELSE NoRequest
  /\ UNCHANGED <<preview, made, alive, jar, popup, grace>>

\* The callback of the broker makes a session and sets its cookie, in the window or in the deployed page.
NewSession == made < MaxSessions /\ made' = made + 1 /\ alive' = alive \cup {made + 1} /\ jar' = made + 1

ReturnsSigned ==
  /\ flow.at = "away" /\ NewSession
  /\ flow' = [flow EXCEPT !.at = "done"]
  /\ UNCHANGED <<preview, bearer, request, popup, grace>>
ReturnsWithError ==
  /\ flow.at = "away" /\ flow' = [flow EXCEPT !.at = "threw"]
  /\ UNCHANGED <<preview, made, alive, jar, bearer, request, popup, grace>>

\* Mutant: the completion page reads the cookie although the sign-in failed.
CookieAnyway == jar
\* handleAuthPopupRequest(): a sign-in that failed posts no token.
TokenOnError == None

\* The completion page posts its message and closes.
Posts(token) == popup' = [popup EXCEPT !.at = "closed", !.message = {token}, !.token = token]
PopupSucceeds ==
  /\ popup.at = "login" /\ NewSession
  /\ Posts(jar')
  /\ UNCHANGED <<preview, bearer, flow, request, grace>>
PopupFails ==
  /\ popup.at = "login" /\ Posts(TokenOnError)
  /\ UNCHANGED <<preview, made, alive, jar, bearer, flow, request, grace>>
\* The visitor closes the window.
PopupDismissed ==
  /\ popup.at = "login" /\ popup' = [popup EXCEPT !.at = "closed"]
  /\ UNCHANGED <<preview, made, alive, jar, bearer, flow, request, grace>>

\* settle(), and the rest of signIn(): the token is stored, or the visitor is told that the sign-in did not work.
Settle(token) ==
  /\ bearer' = IF token = None THEN bearer ELSE token
  /\ flow' = [flow EXCEPT !.at = IF token = None THEN "threw" ELSE "done"]
  /\ grace' = FALSE

\* The message event, which comes after the microtasks of the page; without a listener it is gone.
Message ==
  /\ flow.at # "cleared"
  /\ popup' = [popup EXCEPT !.message = Silence, !.missed = flow.at # "waiting"]
  /\ \E token \in popup.message : IF flow.at = "waiting" THEN Settle(token) ELSE UNCHANGED <<bearer, flow, grace>>
  /\ UNCHANGED <<preview, made, alive, jar, request>>

\* Mutant: a window that is closed was dismissed.
NoGrace == TRUE
\* The 400 ms of closeTimer are enough for a message that is on its way.
Grace == popup.message = Silence

\* pollTimer sees that the window is closed, and starts closeTimer.
Poll ==
  /\ flow.at = "waiting" /\ popup.at = "closed" /\ ~grace
  /\ grace' = TRUE
  /\ UNCHANGED <<preview, made, alive, jar, bearer, flow, request, popup>>
GraceOver ==
  /\ flow.at = "waiting" /\ grace /\ Grace
  /\ Settle(None)
  /\ UNCHANGED <<preview, made, alive, jar, request, popup>>

----------------------------------------------------------------------------
Next ==
  \/ SignsIn \/ SignsOut \/ ServerEnds \/ ServerFails \/ Clear \/ EndsSignOut \/ GoesOn
  \/ ReturnsSigned \/ ReturnsWithError
  \/ PopupSucceeds \/ PopupFails \/ PopupDismissed \/ Message \/ Poll \/ GraceOver

Spec == Init /\ [][Next]_vars

\* Timers fire, events are dispatched and the page runs on; the server, the broker and the visitor promise nothing.
Fairness == WF_vars(Clear) /\ WF_vars(EndsSignOut) /\ WF_vars(GoesOn) /\ WF_vars(Message) /\ WF_vars(Poll) /\ WF_vars(GraceOver)
FairSpec == Spec /\ Fairness

----------------------------------------------------------------------------
(* Properties                                                               *)

\* A page that says it is signed out is: its token is gone, or the server no longer honours its session.
SignedOutIsOut ==
  flow.call = "out" /\ flow.at = "done" =>
    IF preview THEN bearer = None ELSE jar = None /\ request.session \notin alive

\* A sign-in that worked gives a session of its own making, which a late sign-out of the old one does not end;
\* it never brings back the one that was there before.
SignedInAnew == flow.call = "in" /\ flow.at = "done" => Credential > flow.since /\ Credential \in alive

\* Neither call hangs on a server that does not answer, nor on a window that is gone.
CallsEnd == ~Idle /\ flow.at # "away" /\ popup.at # "login" ~> Idle \/ flow.at = "away"

\* A sign-in that the window completed while the page listened is not reported as cancelled, though the window is
\* closed by the time its message arrives.
CompletedIsNotCancelled == flow.call = "in" /\ flow.at = "threw" => popup.token = None \/ popup.missed

----------------------------------------------------------------------------
(* The inductive invariant of the three safety properties.                  *)

TypeOK ==
  /\ preview \in BOOLEAN /\ made \in Nat /\ jar \in Nat /\ bearer \in Nat /\ grace \in BOOLEAN
  /\ alive \in SUBSET Nat
  /\ flow \in [call : {"none", "in", "out"}, at : {"over", "clearing", "cleared", "away", "waiting", "done", "threw"}, since : Nat]
  /\ request \in [at : {"none", "sent", "ok", "failed"}, session : Nat]
  /\ popup \in [at : {"none", "login", "blocked", "closed"}, message : SUBSET Nat, token : Nat, missed : BOOLEAN]

\* Every session at hand has been made, and the one that a sign-out may end was before the call.
BeforeTheCall ==
  /\ jar <= made /\ bearer <= made /\ popup.token <= made
  /\ flow.since <= made /\ request.session <= flow.since

\* The call and its window: only signIn() of the preview has one, and it is open while the call runs.
CallAndWindow ==
  /\ flow.at = "away" => flow.call = "in" /\ ~preview
  /\ flow.at = "waiting" => flow.call = "in" /\ preview /\ popup.at # "blocked"
  /\ flow.at = "over" <=> flow.call = "none"
  /\ ~preview \/ flow.call # "in" => popup.at = "none"
  /\ preview /\ flow.call = "in" => popup.at # "none"
  /\ popup.at = "login" => flow.at \in {"clearing", "cleared", "waiting"}
  /\ grace => popup.at = "closed"

\* The message of a window carries the session that was made in it, and is on its way until it is missed or settles.
MessageIsNew ==
  /\ popup.message \subseteq {popup.token}
  /\ popup.token # None => popup.token > flow.since /\ popup.token \in alive
  /\ popup.at # "closed" => popup.message = Silence /\ popup.token = None
  /\ flow.at \in {"done", "threw"} /\ flow.call = "in" => popup.message = Silence
  /\ popup.token # None /\ popup.message = Silence /\ flow.at # "done" => popup.missed

\* A deployed page has no window that could bring a session, and no sign-out is under way when it comes back with one.
DeployedPage ==
  ~preview =>
    /\ flow.call = "in" /\ flow.at \in {"away", "done", "threw"} => request = NoRequest
    /\ flow.call = "out" /\ request.at = "ok" => jar = None /\ request.session \notin alive

SignInInv ==
  /\ TypeOK /\ BeforeTheCall /\ CallAndWindow /\ MessageIsNew /\ DeployedPage
  /\ SignedOutIsOut /\ SignedInAnew /\ CompletedIsNotCancelled
=============================================================================
