------------------------------ MODULE Sessions -------------------------------
(***************************************************************************)
(* Who is let into the dashboard: logins with their limit on failures,     *)
(* session rows and cookies, the token that forms carry, and the tokens of *)
(* the agent API.  A login compares the password between looking at the    *)
(* limit and recording the failure; a request travels, is looked up, and   *)
(* is handled; the command line revokes tokens, and the maintenance loop   *)
(* and each start sweep expired rows, meanwhile.                           *)
(*                                                                         *)
(* One user, and all clients behind one address.  Left out: the API's own  *)
(* limit of requests per minute, and the mode without logins.              *)
(***************************************************************************)
EXTENDS Naturals, FiniteSets

CONSTANTS Browsers,        \* clients with a cookie, or with the token of the API
          Lifetime,        \* --auth-session-ttl, in ticks
          Window,          \* failedAttemptsWindow, in ticks
          Limit,           \* failedAttemptsLimit
          MaxLogins,       \* bound: attempts to log in
          MaxRequests,     \* bound: other requests
          MaxFrontTicks,   \* bound: length of a behaviour
          MaxFrontFaults   \* bound: restarts, and queries that fail

ASSUME SessionsAssumption ==
    /\ IsFiniteSet(Browsers)
    /\ {Lifetime, Window, Limit} \subseteq Nat \ {0}
    /\ {MaxLogins, MaxRequests, MaxFrontTicks, MaxFrontFaults} \subseteq Nat

VARIABLES front,      \* the running dashboard: are edits on, and which form token is its own
          rows,       \* the sessions in the database, by number, and when they end
          jar,        \* each browser: its cookie, and the form token of the page it shows
          apiToken,   \* the token of the API
          attempt,    \* logins under way
          request,    \* requests under way
          hitsAt,     \* the failures the running dashboard remembers: which login, and when
          guessed, ended, changed,  \* history, see Properties
          now,
          logins, requests, frontFaults

sessionVars == <<front, rows, jar, apiToken, attempt, request, hitsAt, guessed, ended, changed,
                 now, logins, requests, frontFaults>>

\* A session has the number of the login that made it; 0 is no cookie.  The form token of a
\* dashboard without edits is the empty string, 0.
Sids == 1 .. MaxLogins
NoRow == [st |-> "none", until |-> 0]
NotSent == [at |-> "none", kind |-> "page", sid |-> 0, form |-> 0, over |-> FALSE]

SessionsInit ==
    /\ \E edits \in BOOLEAN : front = [edits |-> edits, form |-> IF edits THEN 1 ELSE 0, nth |-> 1]
    /\ rows = [s \in Sids |-> NoRow]
    /\ jar = [b \in Browsers |-> [sid |-> 0, form |-> 0]]
    /\ apiToken = "active"
    /\ attempt = [b \in Browsers |-> 0]
    /\ request = [b \in Browsers |-> NotSent]
    /\ hitsAt = {} /\ guessed = {} /\ ended = {} /\ changed = {}
    /\ now = 0 /\ logins = 0 /\ requests = 0 /\ frontFaults = 0

FrontFault == /\ frontFaults < MaxFrontFaults
              /\ frontFaults' = frontFaults + 1

InWindow(hits) == {h \in hits : now - h[2] < Window}

-----------------------------------------------------------------------------
(* Logins.                                                                 *)

\* Variant: one failure more.
LimitedLate == Cardinality(InWindow(hitsAt)) > Limit

RateLimited == Cardinality(InWindow(hitsAt)) >= Limit

\* A POST to /login that is not refused goes on to compare the password.
BeginLogin(b) ==
    /\ attempt[b] = 0 /\ logins < MaxLogins
    /\ ~RateLimited
    /\ logins' = logins + 1
    /\ attempt' = [attempt EXCEPT ![b] = logins + 1]
    /\ UNCHANGED <<front, rows, jar, apiToken, request, hitsAt, guessed, ended, changed, now,
                   requests, frontFaults>>

\* A wrong password, or a query that failed: the one is counted as the other.
LoginFails(b) ==
    /\ attempt[b] # 0
    /\ attempt' = [attempt EXCEPT ![b] = 0]
    /\ hitsAt' = InWindow(hitsAt) \cup {<<attempt[b], now>>}
    /\ guessed' = guessed \cup {<<attempt[b], now>>}
    /\ UNCHANGED <<front, rows, jar, apiToken, request, ended, changed, now, logins, requests,
                   frontFaults>>

\* The right one: the failures are forgotten, a session is made, the browser gets its cookie.
LoginSucceeds(b) ==
    LET s == attempt[b]
    IN  /\ s # 0
        /\ attempt' = [attempt EXCEPT ![b] = 0]
        /\ hitsAt' = {} /\ guessed' = {}
        /\ \/ /\ rows' = [rows EXCEPT ![s] = [st |-> "live", until |-> now + Lifetime]]
              /\ jar' = [jar EXCEPT ![b].sid = s]
              /\ UNCHANGED frontFaults
           \/ FrontFault /\ UNCHANGED <<rows, jar>>
        /\ UNCHANGED <<front, apiToken, request, ended, changed, now, logins, requests>>

-----------------------------------------------------------------------------
(* Requests.                                                               *)

\* What a browser sends is what its jar and its page say at that moment.
Send(b, kind) ==
    /\ request[b].at = "none" /\ requests < MaxRequests
    /\ requests' = requests + 1
    /\ request' = [request EXCEPT ![b] = [at |-> "sent", kind |-> kind, sid |-> jar[b].sid,
                                          form |-> jar[b].form, over |-> FALSE]]
    /\ UNCHANGED <<front, rows, jar, apiToken, attempt, hitsAt, guessed, ended, changed, now,
                   logins, frontFaults>>

\* Variant: expiry is left to the sweep.
LookupSessionStale(s) == s # 0 /\ rows[s].st = "live"

LookupSession(s) == s # 0 /\ rows[s].st = "live" /\ now < rows[s].until

\* VerifyAPIToken.
TokenKnown == apiToken = "active"

LetIn(r) == IF r.kind = "api" THEN TokenKnown ELSE LookupSession(r.sid)

\* The middleware, or the API's own check: on to the handler.
Admit(b) ==
    LET r == request[b]
    IN  /\ r.at = "sent" /\ LetIn(r)
        /\ request' = [request EXCEPT ![b].at = "handler",
                           ![b].over = (IF r.kind = "api" THEN 0 ELSE r.sid) \in ended]
        /\ UNCHANGED <<front, rows, jar, apiToken, attempt, hitsAt, guessed, ended, changed, now,
                       logins, requests, frontFaults>>

\* Refused: not for a session of now, or the query failed.  A row that expired goes, and so
\* does the cookie the browser holds by now, whichever it is.
Refuse(b) ==
    LET r == request[b]
    IN  /\ r.at = "sent"
        /\ \/ ~LetIn(r) /\ UNCHANGED frontFaults
           \/ LetIn(r) /\ FrontFault
        /\ request' = [request EXCEPT ![b] = NotSent]
        /\ jar' = IF r.kind = "api" THEN jar ELSE [jar EXCEPT ![b].sid = 0]
        /\ rows' = IF r.kind # "api" /\ r.sid # 0 /\ rows[r.sid].until <= now
                   THEN [rows EXCEPT ![r.sid].st = "none"] ELSE rows
        /\ UNCHANGED <<front, apiToken, attempt, hitsAt, guessed, ended, changed, now, logins,
                       requests>>

\* csrfOK.
CsrfOK(form) == front.form # 0 /\ form = front.form

\* The handler: a page carries the form token; a form changes something when it brings it; the
\* feed's Reset loop is there without edits too, and then asks for no token.
Handle(b) ==
    LET r == request[b]
        does == \/ r.kind = "edit" /\ front.edits /\ CsrfOK(r.form)
                \/ r.kind = "reset" /\ (front.form # 0 => CsrfOK(r.form))
    IN  /\ r.at = "handler"
        /\ request' = [request EXCEPT ![b] = NotSent]
        /\ jar' = IF r.kind = "page" THEN [jar EXCEPT ![b].form = front.form] ELSE jar
        /\ changed' = IF does THEN {[kind |-> r.kind, over |-> r.over, own |-> r.form = front.nth]}
                      ELSE changed
        /\ UNCHANGED <<front, rows, apiToken, attempt, hitsAt, guessed, ended, now, logins,
                       requests, frontFaults>>

\* /logout: the row goes and the cookie goes; that the row did not go is not reported.
Logout(b) ==
    LET s == jar[b].sid
    IN  /\ jar' = [jar EXCEPT ![b].sid = 0]
        /\ s # 0
        /\ \/ /\ rows' = [rows EXCEPT ![s].st = "none"]
              /\ ended' = ended \cup {s}
              /\ UNCHANGED frontFaults
           \/ FrontFault /\ UNCHANGED <<rows, ended>>
        /\ UNCHANGED <<front, apiToken, attempt, request, hitsAt, guessed, changed, now, logins,
                       requests>>

-----------------------------------------------------------------------------
(* The command line, the maintenance loop, restarts and the clock.         *)

\* `gateway token revoke`.
RevokeToken ==
    /\ apiToken = "active"
    /\ apiToken' = "revoked"
    /\ ended' = ended \cup {0}
    /\ UNCHANGED <<front, rows, jar, attempt, request, hitsAt, guessed, changed, now, logins,
                   requests, frontFaults>>

Swept == [s \in Sids |-> IF rows[s].until < now THEN [rows[s] EXCEPT !.st = "none"] ELSE rows[s]]

SweepSessions ==
    /\ rows' = Swept /\ rows' # rows
    /\ UNCHANGED <<front, jar, apiToken, attempt, request, hitsAt, guessed, ended, changed, now,
                   logins, requests, frontFaults>>

\* A new process: a new form token, no memory of failures, nothing under way.
Restart(edits) ==
    /\ FrontFault
    /\ front' = [edits |-> edits, form |-> IF edits THEN front.nth + 1 ELSE 0, nth |-> front.nth + 1]
    /\ rows' = Swept
    /\ attempt' = [b \in Browsers |-> 0]
    /\ request' = [b \in Browsers |-> IF request[b].at = "handler" THEN NotSent ELSE request[b]]
    /\ hitsAt' = {} /\ guessed' = {}
    /\ UNCHANGED <<jar, apiToken, ended, changed, now, logins, requests>>

FrontTick ==
    /\ now < MaxFrontTicks
    /\ now' = now + 1
    /\ ended' = ended \cup {s \in Sids : rows[s].until # 0 /\ rows[s].until <= now + 1}
    /\ UNCHANGED <<front, rows, jar, apiToken, attempt, request, hitsAt, guessed, changed, logins,
                   requests, frontFaults>>

SessionsNext ==
    \/ \E b \in Browsers :
          \/ BeginLogin(b) \/ LoginFails(b) \/ LoginSucceeds(b)
          \/ \E kind \in {"page", "edit", "reset", "api"} : Send(b, kind)
          \/ Admit(b) \/ Refuse(b) \/ Handle(b) \/ Logout(b)
    \/ RevokeToken
    \/ SweepSessions
    \/ \E edits \in BOOLEAN : Restart(edits)
    \/ FrontTick

SessionsSpec == SessionsInit /\ [][SessionsNext]_sessionVars

SessionsTypeOK ==
    /\ front.form \in {0, front.nth}
    /\ rows \in [Sids -> [st : {"none", "live"}, until : Nat]]
    /\ \A b \in Browsers : /\ jar[b].sid \in {0} \cup Sids /\ attempt[b] \in {0} \cup Sids
                           /\ request[b].at \in {"none", "sent", "handler"}
    /\ ended \subseteq {0} \cup Sids

-----------------------------------------------------------------------------
(* Properties.                                                             *)

\* Wrong passwords from one address in any window are bounded by the limit and the logins that
\* looked at it together, one less (gatewayauth.go: look, compare and record are three steps);
\* since the last success from that address and the last restart, which forget them.
GuessesBounded == Cardinality(InWindow(guessed)) <= Limit + Cardinality(Browsers) - 1

\* No request is let in with a session that was over when it was looked up, by its time or by
\* a logout, though its row may be there until the sweep and it may have been sent before; nor
\* with a token of the API that was revoked (store.go).  And what an edit changed was asked for
\* on a page of the running dashboard, not of the one before it.
AdmittedOnly ==
    /\ \A b \in Browsers : request[b].at = "handler" => ~request[b].over
    /\ \A c \in changed : ~c.over /\ (c.kind = "edit" => c.own)
=============================================================================
