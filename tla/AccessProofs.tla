---------------------------- MODULE AccessProofs ----------------------------
(***************************************************************************)
(* Who may do what, for any number of users, keys, requests and changes.   *)
(* Accounts: the setup token makes one user, and there is always a way to  *)
(* the first one.  Sessions: the dashboard carries out only what a session *)
(* that is not over asked for, and guesses of a password are bounded by    *)
(* the clock.  KeyAccess: the shell in scoped mode allows only what was    *)
(* granted, and a removed key stays out.  Doctor: what a report without a  *)
(* complaint promises was so, and what it tells the operator to type gives *)
(* the relay's account its access.  PushScan: no finding slips through a   *)
(* scan, and a push that is excused all along is accepted.  ScanStaging: a *)
(* tree a scan left behind is swept in time.                               *)
(***************************************************************************)
EXTENDS Accounts, Sessions, KeyAccess, Doctor, PushScan, ScanStaging,
        FiniteSetTheorems, TLAPS

-----------------------------------------------------------------------------
(* Sessions.                                                               *)

SidOrNone == {0} \cup Sids
SentRequests == [at : {"none", "sent", "handler"}, kind : {"page", "edit", "reset", "api"},
                 sid : SidOrNone, form : Nat, over : BOOLEAN]

\* The state has its types.
FrontTypes ==
    /\ front \in [edits : BOOLEAN, form : Nat, nth : Nat]
    /\ front.form \in {0, front.nth}
    /\ rows \in [Sids -> [st : {"none", "live"}, until : Nat]]
    /\ jar \in [Browsers -> [sid : SidOrNone, form : Nat]]
    /\ apiToken \in {"active", "revoked"}
    /\ attempt \in [Browsers -> SidOrNone]
    /\ request \in [Browsers -> SentRequests]
    /\ ended \subseteq SidOrNone
    /\ now \in Nat /\ logins \in Nat

\* A session that is over is not in the database, or there with a time that has passed; the
\* API's token is over when it was revoked.
EndedDead ==
    /\ \A s \in ended \cap Sids : rows[s].st = "none" \/ rows[s].until <= now
    /\ 0 \in ended => apiToken # "active"

\* The number of a login under way, or of one to come, has no session, no browser has it in
\* its jar, and no other login has it.
Unused(s) ==
    /\ s \in Sids => rows[s] = NoRow
    /\ s \notin ended
    /\ \A b \in Browsers : jar[b].sid # s

FreshLogins ==
    /\ \A s \in Nat : s > logins => Unused(s)
    /\ \A b \in Browsers : attempt[b] # 0 => Unused(attempt[b]) /\ attempt[b] <= logins
    /\ \A b, c \in Browsers : attempt[b] = attempt[c] /\ attempt[b] # 0 => b = c

FrontInv == FrontTypes /\ EndedDead /\ FreshLogins /\ AdmittedOnly

\* The steps of one browser.
BrowserStep(b) ==
    \/ BeginLogin(b) \/ LoginFails(b) \/ LoginSucceeds(b)
    \/ \E kind \in {"page", "edit", "reset", "api"} : Send(b, kind)
    \/ Admit(b) \/ Refuse(b) \/ Handle(b) \/ Logout(b)

LEMMA SidNumbers ==
    /\ 0 \notin Sids /\ Sids \subseteq Nat /\ 0 \in SidOrNone
    /\ \A s \in SidOrNone : s # 0 => s \in Sids
    /\ \A s \in Nat : s # 0 /\ s <= MaxLogins => s \in Sids
BY SessionsAssumption DEF SessionsAssumption, Sids, SidOrNone

LEMMA AdmittedRequest ==
    ASSUME NEW r \in SentRequests, NEW over \in BOOLEAN
    PROVE  [r EXCEPT !.at = "handler", !.over = over] \in SentRequests
BY DEF SentRequests

LEMMA Truths == ASSUME NEW S, NEW x PROVE (x \in S) \in BOOLEAN
OBVIOUS

LEMMA SweptRows ==
    ASSUME FrontTypes
    PROVE  /\ Swept \in [Sids -> [st : {"none", "live"}, until : Nat]]
           /\ \A s \in Sids : /\ rows[s] = NoRow => Swept[s] = NoRow
                              /\ Swept[s].until = rows[s].until
                              /\ Swept[s].st \in {"none", rows[s].st}
BY DEF FrontTypes, Swept, NoRow

-----------------------------------------------------------------------------
LEMMA TypesByBrowser ==
    ASSUME FrontTypes, NEW b \in Browsers, BrowserStep(b)
    PROVE  FrontTypes'
<1> USE SidNumbers
<1>1. CASE BeginLogin(b)
  <2>1. logins + 1 \in SidOrNone
    BY <1>1, SessionsAssumption DEF BeginLogin, SidOrNone, Sids, SessionsAssumption, FrontTypes
  <2> QED BY <1>1, <2>1 DEF BeginLogin, FrontTypes
<1>2. CASE LoginFails(b)
  BY <1>2 DEF LoginFails, FrontTypes
<1>3. CASE LoginSucceeds(b)
  <2>1. now + Lifetime \in Nat
    BY SessionsAssumption DEF SessionsAssumption, FrontTypes
  <2>2. attempt[b] \in Sids /\ attempt[b] \in SidOrNone
    BY <1>3 DEF LoginSucceeds, FrontTypes
  <2>3. rows' \in [Sids -> [st : {"none", "live"}, until : Nat]]
    BY <1>3, <2>1, <2>2 DEF LoginSucceeds, FrontTypes
  <2>4. jar' \in [Browsers -> [sid : SidOrNone, form : Nat]]
    BY <1>3, <2>2 DEF LoginSucceeds, FrontTypes
  <2> QED BY <1>3, <2>3, <2>4 DEF LoginSucceeds, FrontTypes
<1>4. CASE \E kind \in {"page", "edit", "reset", "api"} : Send(b, kind)
  <2>1. PICK kind \in {"page", "edit", "reset", "api"} : Send(b, kind)
    BY <1>4
  <2>2. request' \in [Browsers -> SentRequests]
    BY <2>1 DEF Send, FrontTypes, SentRequests
  <2> QED BY <2>1, <2>2 DEF Send, FrontTypes
<1>5. CASE Admit(b)
  <2> DEFINE number == IF request[b].kind = "api" THEN 0 ELSE request[b].sid
             over == number \in ended
  <2>1. over \in BOOLEAN
    BY Truths, Zenon
  <2>2. request' = [request EXCEPT ![b].at = "handler", ![b].over = over]
    BY <1>5 DEF Admit
  <2> HIDE DEF over, number
  <2>3. request' \in [Browsers -> SentRequests]
    <3> DEFINE sent == [request[b] EXCEPT !.at = "handler", !.over = over]
    <3>1. sent \in SentRequests
      <4>1. request[b] \in SentRequests
        BY DEF FrontTypes
      <4> QED BY <2>1, <4>1, AdmittedRequest, Zenon
    <3>2. request' = [request EXCEPT ![b] = sent]
      BY <2>2, Zenon
    <3> HIDE DEF sent
    <3> QED BY <3>1, <3>2 DEF FrontTypes
  <2> QED BY <1>5, <2>3 DEF Admit, FrontTypes
<1>6. CASE Refuse(b)
  <2>1. request' \in [Browsers -> SentRequests]
    BY <1>6 DEF Refuse, FrontTypes, SentRequests, NotSent
  <2>2. jar' \in [Browsers -> [sid : SidOrNone, form : Nat]]
    BY <1>6 DEF Refuse, FrontTypes
  <2>3. rows' \in [Sids -> [st : {"none", "live"}, until : Nat]]
    BY <1>6 DEF Refuse, FrontTypes, SentRequests
  <2> QED BY <1>6, <2>1, <2>2, <2>3 DEF Refuse, FrontTypes
<1>7. CASE Handle(b)
  <2>1. request' \in [Browsers -> SentRequests]
    BY <1>7 DEF Handle, FrontTypes, SentRequests, NotSent
  <2>2. jar' \in [Browsers -> [sid : SidOrNone, form : Nat]]
    BY <1>7 DEF Handle, FrontTypes
  <2> QED BY <1>7, <2>1, <2>2 DEF Handle, FrontTypes
<1>8. CASE Logout(b)
  <2>1. jar' \in [Browsers -> [sid : SidOrNone, form : Nat]]
    BY <1>8 DEF Logout, FrontTypes
  <2>2. jar[b].sid \in Sids
    BY <1>8 DEF Logout, FrontTypes
  <2>3. rows' \in [Sids -> [st : {"none", "live"}, until : Nat]]
    BY <1>8, <2>2 DEF Logout, FrontTypes
  <2>4. ended' \subseteq SidOrNone
    BY <1>8, <2>2 DEF Logout, FrontTypes, SidOrNone
  <2> QED BY <1>8, <2>1, <2>3, <2>4 DEF Logout, FrontTypes
<1> QED BY <1>1, <1>2, <1>3, <1>4, <1>5, <1>6, <1>7, <1>8 DEF BrowserStep

\* A browser's step leaves every session that is over dead, and makes only that of its login.
LEMMA EndedByBrowser ==
    ASSUME FrontInv, NEW b \in Browsers, BrowserStep(b)
    PROVE  EndedDead'
<1> USE SidNumbers
<1>1. CASE LoginSucceeds(b)
  <2>1. attempt[b] \in Sids /\ attempt[b] \notin ended
    BY <1>1 DEF LoginSucceeds, FrontInv, FrontTypes, FreshLogins, Unused
  <2>2. \A s \in ended \cap Sids : rows'[s] = rows[s]
    BY <1>1, <2>1 DEF LoginSucceeds, FrontInv, FrontTypes
  <2> QED BY <1>1, <2>2 DEF LoginSucceeds, FrontInv, EndedDead
<1>2. CASE Refuse(b)
  <2>1. \A s \in Sids : rows'[s].st \in {"none", rows[s].st} /\ rows'[s].until = rows[s].until
    BY <1>2 DEF Refuse, FrontInv, FrontTypes, SentRequests
  <2> QED BY <1>2, <2>1 DEF Refuse, FrontInv, EndedDead
<1>3. CASE Logout(b)
  <2>1. jar[b].sid \in Sids
    BY <1>3 DEF Logout, FrontInv, FrontTypes
  <2>2. \A s \in Sids : rows'[s].st \in {"none", rows[s].st} /\ rows'[s].until = rows[s].until
    BY <1>3, <2>1 DEF Logout, FrontInv, FrontTypes
  <2>3. \A s \in ended' \cap Sids : s \in ended \/ rows'[s].st = "none"
    BY <1>3, <2>1 DEF Logout, FrontInv, FrontTypes
  <2>4. 0 \in ended' => 0 \in ended
    BY <1>3, <2>1 DEF Logout
  <2> QED BY <1>3, <2>2, <2>3, <2>4 DEF Logout, FrontInv, EndedDead
<1>4. CASE \/ BeginLogin(b) \/ LoginFails(b) \/ Admit(b) \/ Handle(b)
           \/ \E kind \in {"page", "edit", "reset", "api"} : Send(b, kind)
  BY <1>4 DEF BeginLogin, LoginFails, Admit, Handle, Send, FrontInv, EndedDead
<1> QED BY <1>1, <1>2, <1>3, <1>4 DEF BrowserStep

LEMMA FreshByBrowser ==
    ASSUME FrontInv, NEW b \in Browsers, BrowserStep(b)
    PROVE  FreshLogins'
<1> USE SidNumbers
<1>1. CASE BeginLogin(b)
  <2>1. /\ attempt' = [attempt EXCEPT ![b] = logins + 1] /\ logins' = logins + 1
        /\ rows' = rows /\ ended' = ended /\ jar' = jar
    BY <1>1 DEF BeginLogin
  <2>2. \A s : Unused(s) => Unused(s)'
    BY <2>1 DEF Unused
  <2>3. logins \in Nat /\ Unused(logins + 1)
    BY DEF FrontInv, FrontTypes, FreshLogins
  <2>4. \A c \in Browsers : attempt'[c] = IF c = b THEN logins + 1 ELSE attempt[c]
    BY <2>1 DEF FrontInv, FrontTypes
  <2>5. \A c \in Browsers : attempt[c] # logins + 1
    <3>1. \A c \in Browsers : attempt[c] # 0 => attempt[c] <= logins
      BY DEF FrontInv, FreshLogins
    <3> QED BY <2>3, <3>1 DEF FrontInv, FrontTypes, SidOrNone, Sids
  <2>6. \A s \in Nat : s > logins' => Unused(s)'
    BY <2>1, <2>2, <2>3 DEF FrontInv, FreshLogins
  <2>7. \A c \in Browsers : attempt'[c] # 0 => Unused(attempt[c])' /\ attempt'[c] <= logins'
    <3> SUFFICES ASSUME NEW c \in Browsers, attempt'[c] # 0
                 PROVE  Unused(attempt[c])' /\ attempt'[c] <= logins'
      OBVIOUS
    <3>1. CASE c = b
      BY <2>1, <2>2, <2>3, <2>4, <3>1 DEF Unused
    <3>2. CASE c # b
      <4>1. attempt'[c] = attempt[c] /\ attempt[c] # 0
        BY <2>4, <3>2
      <4>2. Unused(attempt[c]) /\ attempt[c] <= logins /\ attempt[c] \in Nat
        BY <4>1 DEF FrontInv, FreshLogins, FrontTypes, SidOrNone, Sids
      <4> QED BY <2>1, <2>2, <2>3, <4>1, <4>2 DEF Unused
    <3> QED BY <3>1, <3>2
  <2>8. \A c, d \in Browsers : attempt'[c] = attempt'[d] /\ attempt'[c] # 0 => c = d
    BY <2>4, <2>5 DEF FrontInv, FreshLogins
  <2> QED BY <2>6, <2>7, <2>8 DEF FreshLogins
<1>2. CASE LoginSucceeds(b)
  <2> DEFINE n == attempt[b]
  <2>1. n \in Sids /\ n <= logins /\ logins' = logins
    BY <1>2 DEF LoginSucceeds, FrontInv, FrontTypes, FreshLogins
  <2>2. \A s \in Sids : s # n => rows'[s] = rows[s]
    BY <1>2 DEF LoginSucceeds, FrontInv, FrontTypes
  <2>3. \A c \in Browsers : jar'[c].sid \in {jar[c].sid, n}
    BY <1>2 DEF LoginSucceeds, FrontInv, FrontTypes
  <2>4. ended' = ended
    BY <1>2 DEF LoginSucceeds
  <2>5. \A c \in Browsers : attempt'[c] = IF c = b THEN 0 ELSE attempt[c]
    BY <1>2 DEF LoginSucceeds, FrontInv, FrontTypes
  <2> HIDE DEF n
  <2>6. ASSUME NEW s, s # n, Unused(s)
        PROVE  Unused(s)'
    BY <2>2, <2>3, <2>4, <2>6 DEF Unused
  <2>7. \A s \in Nat : s > logins' => Unused(s)'
    BY <2>1, <2>6 DEF FrontInv, FrontTypes, FreshLogins
  <2>8. \A c \in Browsers : attempt'[c] # 0 => attempt'[c] # n
    BY <2>5 DEF n, FrontInv, FreshLogins
  <2>9. \A c \in Browsers : attempt'[c] # 0 => Unused(attempt[c])' /\ attempt'[c] <= logins'
    BY <2>1, <2>5, <2>6, <2>8 DEF FrontInv, FreshLogins, Unused
  <2>10. \A c, d \in Browsers : attempt'[c] = attempt'[d] /\ attempt'[c] # 0 => c = d
    BY <2>5 DEF FrontInv, FreshLogins
  <2> QED BY <2>7, <2>9, <2>10 DEF FreshLogins
<1>3. CASE ~BeginLogin(b) /\ ~LoginSucceeds(b)
  <2>1. /\ logins' = logins
        /\ \A c \in Browsers : attempt'[c] \in {0, attempt[c]}
    BY <1>3 DEF BrowserStep, LoginFails, Send, Admit, Refuse, Handle, Logout, FrontInv, FrontTypes
  <2>2. \A s \in Sids : rows[s] = NoRow => rows'[s] = NoRow
    <3>1. CASE Refuse(b) \/ Logout(b)
      BY <3>1 DEF Refuse, Logout, FrontInv, FrontTypes, SentRequests, NoRow
    <3>2. CASE ~Refuse(b) /\ ~Logout(b)
      BY <1>3, <3>2 DEF BrowserStep, LoginFails, Send, Admit, Handle
    <3> QED BY <3>1, <3>2
  <2>3. \A c \in Browsers : jar'[c].sid \in {0, jar[c].sid}
    <3>1. CASE jar' = jar
      BY <3>1
    <3>2. CASE jar' = [jar EXCEPT ![b].sid = 0] \/ jar' = [jar EXCEPT ![b].form = front.form]
      BY <3>2 DEF FrontInv, FrontTypes
    <3> QED BY <1>3, <3>1, <3>2 DEF BrowserStep, LoginFails, Send, Admit, Refuse, Handle, Logout
  <2>4. ended' \subseteq ended \cup {jar[b].sid}
    BY <1>3 DEF BrowserStep, LoginFails, Send, Admit, Refuse, Handle, Logout
  <2>5. ASSUME NEW s, s # 0, Unused(s)
        PROVE  Unused(s)'
    BY <2>2, <2>3, <2>4, <2>5 DEF Unused
  <2>6. \A s \in Nat : s > logins' => Unused(s)'
    BY <2>1, <2>5 DEF FrontInv, FrontTypes, FreshLogins
  <2>7. \A c \in Browsers : attempt'[c] # 0 => Unused(attempt[c])' /\ attempt'[c] <= logins'
    BY <2>1, <2>5 DEF FrontInv, FreshLogins, Unused
  <2>8. \A c, d \in Browsers : attempt'[c] = attempt'[d] /\ attempt'[c] # 0 => c = d
    BY <2>1 DEF FrontInv, FreshLogins
  <2> QED BY <2>6, <2>7, <2>8 DEF FreshLogins
<1> QED BY <1>1, <1>2, <1>3

\* The heart: who is let in stands on a session that is not over, since one that is over has
\* no row or an old one; and a form of another dashboard's page has another token.
LEMMA AdmittedByBrowser ==
    ASSUME FrontInv, NEW b \in Browsers, BrowserStep(b)
    PROVE  AdmittedOnly'
<1> USE SidNumbers
<1>1. CASE Admit(b)
  <2> DEFINE r == request[b]
  <2>1. r \in SentRequests /\ LetIn(r)
    BY <1>1 DEF Admit, FrontInv, FrontTypes
  <2>2. r.kind = "api" => 0 \notin ended
    BY <2>1 DEF LetIn, TokenKnown, FrontInv, EndedDead
  <2>3. r.kind # "api" => r.sid \notin ended
    <3> SUFFICES ASSUME r.kind # "api", r.sid \in ended
                 PROVE  FALSE
      OBVIOUS
    <3>1. LookupSession(r.sid) /\ r.sid \in SidOrNone
      BY <2>1 DEF LetIn, SentRequests
    <3>2. r.sid \in Sids /\ rows[r.sid].st = "live" /\ now < rows[r.sid].until
      BY <3>1 DEF LookupSession
    <3>3. rows[r.sid].until \in Nat /\ now \in Nat
      BY <3>2 DEF FrontInv, FrontTypes
    <3>4. rows[r.sid].st = "none" \/ rows[r.sid].until <= now
      BY <3>2 DEF FrontInv, EndedDead
    <3> QED BY <3>2, <3>3, <3>4
  <2>4. ~request'[b].over
    BY <1>1, <2>1, <2>2, <2>3 DEF Admit, FrontInv, FrontTypes, SentRequests
  <2>5. \A c \in Browsers : c # b => request'[c] = request[c]
    BY <1>1 DEF Admit, FrontInv, FrontTypes
  <2> QED BY <1>1, <2>4, <2>5 DEF Admit, FrontInv, AdmittedOnly
<1>2. CASE Handle(b)
  <2> DEFINE r == request[b]
  <2>1. ~r.over
    BY <1>2 DEF Handle, FrontInv, AdmittedOnly
  <2>2. \A c \in Browsers : request'[c] = IF c = b THEN NotSent ELSE request[c]
    BY <1>2 DEF Handle, FrontInv, FrontTypes
  <2>3. \A c \in Browsers : request'[c].at = "handler" => ~request'[c].over
    BY <2>2 DEF NotSent, FrontInv, AdmittedOnly
  <2>4. CASE changed' = changed
    BY <2>3, <2>4 DEF FrontInv, AdmittedOnly
  <2>5. CASE changed' # changed
    <3> DEFINE own == r.form = front.nth
    <3>1. changed' = {[kind |-> r.kind, over |-> r.over, own |-> own]}
      BY <1>2, <2>5 DEF Handle
    <3>2. r.kind = "edit" => CsrfOK(r.form)
      BY <1>2, <2>5 DEF Handle
    <3>3. r.kind = "edit" => own
      BY <3>2 DEF CsrfOK, FrontInv, FrontTypes
    <3> HIDE DEF own
    <3>4. \A c \in changed' : c.over = r.over /\ c.kind = r.kind /\ c.own = own
      BY <3>1
    <3>5. \A c \in changed' : ~c.over /\ (c.kind = "edit" => c.own)
      BY <2>1, <3>3, <3>4
    <3> QED BY <2>3, <3>5 DEF AdmittedOnly
  <2> QED BY <2>4, <2>5
<1>3. CASE ~Admit(b) /\ ~Handle(b)
  <2>1. changed' = changed
    BY <1>3 DEF BrowserStep, BeginLogin, LoginFails, LoginSucceeds, Send, Refuse, Logout
  <2>2. \A c \in Browsers : \/ request'[c] = request[c]
                            \/ request'[c].at # "handler"
    BY <1>3 DEF BrowserStep, BeginLogin, LoginFails, LoginSucceeds, Send, Refuse, Logout,
                NotSent, FrontInv, FrontTypes
  <2> QED BY <2>1, <2>2 DEF FrontInv, AdmittedOnly
<1> QED BY <1>1, <1>2, <1>3

\* The command line, the sweep, a restart and the clock make no session and let nobody in.
LEMMA FrontByOthers ==
    ASSUME FrontInv,
           \/ RevokeToken \/ SweepSessions \/ FrontTick
           \/ \E edits \in BOOLEAN : Restart(edits)
    PROVE  FrontInv'
<1> USE SidNumbers
<1>1. FrontTypes'
  <2>1. Swept \in [Sids -> [st : {"none", "live"}, until : Nat]]
    BY SweptRows DEF FrontInv
  <2>2. CASE RevokeToken
    BY <2>2 DEF RevokeToken, FrontInv, FrontTypes, SidOrNone
  <2>3. CASE SweepSessions
    BY <2>1, <2>3 DEF SweepSessions, FrontInv, FrontTypes
  <2>4. CASE FrontTick
    <3>1. ended' \subseteq SidOrNone
      BY <2>4 DEF FrontTick, FrontInv, FrontTypes, SidOrNone
    <3> QED BY <2>4, <3>1 DEF FrontTick, FrontInv, FrontTypes
  <2>5. CASE \E edits \in BOOLEAN : Restart(edits)
    <3>1. PICK edits \in BOOLEAN : Restart(edits)
      BY <2>5
    <3>2. front' \in [edits : BOOLEAN, form : Nat, nth : Nat] /\ front'.form \in {0, front'.nth}
      BY <3>1 DEF Restart, FrontInv, FrontTypes
    <3>3. request' \in [Browsers -> SentRequests]
      BY <3>1 DEF Restart, FrontInv, FrontTypes, SentRequests, NotSent
    <3>4. attempt' \in [Browsers -> SidOrNone]
      BY <3>1 DEF Restart
    <3> QED BY <2>1, <3>1, <3>2, <3>3, <3>4 DEF Restart, FrontInv, FrontTypes
  <2> QED BY <2>2, <2>3, <2>4, <2>5
<1>2. \A s \in Sids : /\ rows[s] = NoRow => rows'[s] = NoRow
                      /\ rows'[s].until = rows[s].until
                      /\ rows'[s].st \in {"none", rows[s].st}
  BY SweptRows DEF FrontInv, FrontTypes, RevokeToken, SweepSessions, FrontTick, Restart
<1>3. /\ now' \in Nat /\ now <= now' /\ now \in Nat
      /\ \A s \in Sids : rows[s].until \in Nat
      /\ jar' = jar /\ logins' = logins
      /\ attempt' = attempt \/ \A b \in Browsers : attempt'[b] = 0
  BY DEF FrontInv, FrontTypes, RevokeToken, SweepSessions, FrontTick, Restart
<1>4. \A s \in ended' \ ended :
          \/ s = 0 /\ apiToken' # "active"
          \/ s \in Sids /\ rows[s].until # 0 /\ rows[s].until <= now'
  BY <1>3 DEF RevokeToken, SweepSessions, FrontTick, Restart
<1>5. EndedDead'
  <2>1. \A s \in ended' \cap Sids : rows'[s].st = "none" \/ rows'[s].until <= now'
    <3> SUFFICES ASSUME NEW s \in ended' \cap Sids
                 PROVE  rows'[s].st = "none" \/ rows'[s].until <= now'
      OBVIOUS
    <3>1. CASE s \in ended
      <4>1. rows[s].st = "none" \/ rows[s].until <= now
        BY <3>1 DEF FrontInv, EndedDead
      <4>2. /\ rows'[s].until = rows[s].until /\ rows'[s].st \in {"none", rows[s].st}
            /\ rows[s].until \in Nat /\ now \in Nat /\ now' \in Nat /\ now <= now'
        BY <1>2, <1>3
      <4> QED BY <4>1, <4>2
    <3>2. CASE s \notin ended
      BY <1>2, <1>4, <3>2
    <3> QED BY <3>1, <3>2
  <2>2. 0 \in ended' => apiToken' # "active"
    BY <1>4 DEF FrontInv, EndedDead, RevokeToken, SweepSessions, FrontTick, Restart
  <2> QED BY <2>1, <2>2 DEF EndedDead
<1>6. FreshLogins'
  <2>1. ASSUME NEW s, s # 0, Unused(s)
        PROVE  Unused(s)'
    <3>1. s \notin ended'
      BY <1>4, <2>1 DEF Unused, NoRow
    <3> QED BY <1>2, <1>3, <2>1, <3>1 DEF Unused
  <2>2. \A s \in Nat : s > logins' => Unused(s)'
    BY <1>3, <2>1 DEF FrontInv, FrontTypes, FreshLogins
  <2>3. /\ \A b \in Browsers : attempt'[b] # 0 => Unused(attempt[b])' /\ attempt'[b] <= logins'
        /\ \A b, c \in Browsers : attempt'[b] = attempt'[c] /\ attempt'[b] # 0 => b = c
    BY <1>3, <2>1 DEF FrontInv, FreshLogins, Unused
  <2> QED BY <2>2, <2>3 DEF FreshLogins
<1>7. AdmittedOnly'
  <2>1. changed' = changed
    BY DEF RevokeToken, SweepSessions, FrontTick, Restart
  <2>2. \A b \in Browsers : request'[b] = request[b] \/ request'[b].at = "none"
    BY DEF FrontInv, FrontTypes, RevokeToken, SweepSessions, FrontTick, Restart, NotSent
  <2> QED BY <2>1, <2>2 DEF FrontInv, AdmittedOnly
<1> QED BY <1>1, <1>5, <1>6, <1>7 DEF FrontInv

LEMMA FrontStarts == ASSUME SessionsInit PROVE FrontInv
BY SidNumbers DEF SessionsInit, FrontInv, FrontTypes, EndedDead, FreshLogins, Unused, AdmittedOnly,
       NoRow, NotSent, SentRequests

LEMMA FrontByStep ==
    ASSUME FrontInv, [SessionsNext]_sessionVars
    PROVE  FrontInv'
<1>1. ASSUME NEW b \in Browsers, BrowserStep(b)
      PROVE  FrontInv'
  BY <1>1, TypesByBrowser, EndedByBrowser, FreshByBrowser, AdmittedByBrowser DEF FrontInv
<1>2. CASE UNCHANGED sessionVars
  BY <1>2 DEF sessionVars, FrontInv, FrontTypes, EndedDead, FreshLogins, Unused, AdmittedOnly
<1> QED BY <1>1, <1>2, FrontByOthers DEF SessionsNext, BrowserStep

\* The dashboard's sessions, logins and requests have their types.
THEOREM SessionsTypeCorrect == SessionsSpec => []SessionsTypeOK
<1>1. FrontInv => SessionsTypeOK
  BY DEF FrontInv, FrontTypes, SessionsTypeOK, SidOrNone, SentRequests
<1>2. FrontInv /\ [SessionsNext]_sessionVars => FrontInv'
  BY FrontByStep
<1>3. SessionsInit => FrontInv
  BY FrontStarts
<1> QED BY <1>1, <1>2, <1>3, PTL DEF SessionsSpec

\* Nobody is let in with a session or a token that was over when it was looked up, and every
\* edit was asked for on a page of the running dashboard (AdmittedOnly), for any number of
\* browsers, logins, requests, restarts and ticks.
THEOREM AdmittedOnlyCorrect == SessionsSpec => []AdmittedOnly
<1>1. SessionsInit => FrontInv
  BY FrontStarts
<1>2. FrontInv /\ [SessionsNext]_sessionVars => FrontInv'
  BY FrontByStep
<1>3. FrontInv => AdmittedOnly
  BY DEF FrontInv
<1> QED BY <1>1, <1>2, <1>3, PTL DEF SessionsSpec

-----------------------------------------------------------------------------
(* The limit on failures.                                                  *)

Trying == {b \in Browsers : attempt[b] # 0}

\* What the dashboard forgot of the failures is outside the window; those in it and the logins
\* that got past the look at the limit are bounded together.
LimitInv ==
    /\ IsFiniteSet(guessed)
    /\ guessed \subseteq Nat \X Nat /\ hitsAt \subseteq guessed
    /\ InWindow(guessed) \subseteq hitsAt
    /\ Cardinality(InWindow(guessed)) + Cardinality(Trying) <= Limit + Cardinality(Browsers) - 1

LEMMA TryingFinite ==
    /\ IsFiniteSet(Trying) /\ Cardinality(Trying) \in Nat
    /\ Cardinality(Browsers) \in Nat /\ Cardinality(Trying) <= Cardinality(Browsers)
BY SessionsAssumption, FS_Subset, FS_CardinalityType DEF SessionsAssumption, Trying

LEMMA WindowFinite ==
    ASSUME IsFiniteSet(guessed)
    PROVE  IsFiniteSet(InWindow(guessed)) /\ Cardinality(InWindow(guessed)) \in Nat
BY FS_Subset, FS_CardinalityType DEF InWindow

\* When no failure is remembered that was not, and no more logins are under way.
LEMMA LimitKept ==
    ASSUME LimitInv, IsFiniteSet(guessed'), guessed' \subseteq Nat \X Nat,
           hitsAt' \subseteq guessed', InWindow(guessed)' \subseteq hitsAt',
           InWindow(guessed)' \subseteq InWindow(guessed), Trying' \subseteq Trying
    PROVE  LimitInv'
<1>1. /\ Cardinality(InWindow(guessed)') \in Nat
      /\ Cardinality(InWindow(guessed)') <= Cardinality(InWindow(guessed))
  BY WindowFinite, FS_Subset, FS_CardinalityType DEF LimitInv
<1>2. Cardinality(Trying') \in Nat /\ Cardinality(Trying') <= Cardinality(Trying)
  BY TryingFinite, FS_Subset, FS_CardinalityType
<1>3. Cardinality(InWindow(guessed)) \in Nat /\ Limit \in Nat
  BY WindowFinite, SessionsAssumption DEF LimitInv, SessionsAssumption
<1>4. Cardinality(InWindow(guessed)') + Cardinality(Trying')
          <= Limit + Cardinality(Browsers) - 1
  BY <1>1, <1>2, <1>3, TryingFinite DEF LimitInv
<1> QED BY <1>4 DEF LimitInv

LEMMA LimitByLogin ==
    ASSUME FrontTypes, LimitInv, NEW b \in Browsers, BeginLogin(b)
    PROVE  LimitInv'
<1>1. /\ guessed' = guessed /\ hitsAt' = hitsAt /\ now' = now
      /\ InWindow(guessed)' = InWindow(guessed)
  BY DEF BeginLogin, InWindow
<1>2. InWindow(guessed) = InWindow(hitsAt)
  BY DEF LimitInv, InWindow
<1>3. ~(Cardinality(InWindow(guessed)) >= Limit)
  BY <1>2 DEF BeginLogin, RateLimited
<1>4. Cardinality(Trying') \in Nat /\ Cardinality(Trying') <= Cardinality(Browsers)
  BY SessionsAssumption, FS_Subset, FS_CardinalityType DEF SessionsAssumption, Trying
<1>5. Cardinality(InWindow(guessed)) \in Nat /\ Limit \in Nat
  BY WindowFinite, SessionsAssumption DEF LimitInv, SessionsAssumption
<1>6. Cardinality(InWindow(guessed)') + Cardinality(Trying')
          <= Limit + Cardinality(Browsers) - 1
  BY <1>1, <1>3, <1>4, <1>5, TryingFinite
<1> QED BY <1>1, <1>6 DEF LimitInv

\* One failure more, one login under way less.
LEMMA LimitByFailure ==
    ASSUME FrontTypes, LimitInv, NEW b \in Browsers, LoginFails(b)
    PROVE  LimitInv'
<1> DEFINE hit == <<attempt[b], now>>
<1>1. /\ guessed' = guessed \cup {hit} /\ hitsAt' = InWindow(hitsAt) \cup {hit}
      /\ now' = now
  BY DEF LoginFails
<1>2. hit \in Nat \X Nat
  <2>1. attempt[b] \in Nat /\ now \in Nat
    <3>1. attempt[b] \in SidOrNone /\ now \in Nat
      BY DEF FrontTypes
    <3>2. SidOrNone \subseteq Nat
      BY SidNumbers DEF SidOrNone
    <3> QED BY <3>1, <3>2
  <2> QED BY <2>1
<1> HIDE DEF hit
<1>3. IsFiniteSet(guessed') /\ guessed' \subseteq Nat \X Nat
  BY <1>1, <1>2, FS_AddElement DEF LimitInv
<1>4. hitsAt' \subseteq guessed'
  BY <1>1 DEF LimitInv, InWindow
<1>5. InWindow(guessed)' \subseteq InWindow(guessed) \cup {hit}
  BY <1>1 DEF InWindow
<1>6. InWindow(guessed)' \subseteq hitsAt'
  BY <1>1, <1>5 DEF LimitInv, InWindow
<1>7. Cardinality(InWindow(guessed)') <= Cardinality(InWindow(guessed)) + 1
  <2>1. /\ IsFiniteSet(InWindow(guessed) \cup {hit})
        /\ Cardinality(InWindow(guessed) \cup {hit}) <= Cardinality(InWindow(guessed)) + 1
    <3>1. IsFiniteSet(InWindow(guessed)) /\ Cardinality(InWindow(guessed)) \in Nat
      BY WindowFinite DEF LimitInv
    <3> HIDE DEF InWindow
    <3>2. /\ IsFiniteSet(InWindow(guessed) \cup {hit})
          /\ Cardinality(InWindow(guessed) \cup {hit})
                 \in {Cardinality(InWindow(guessed)), Cardinality(InWindow(guessed)) + 1}
      BY <3>1, FS_AddElement
    <3> QED BY <3>1, <3>2
  <2>2. /\ Cardinality(InWindow(guessed)') \in Nat
        /\ Cardinality(InWindow(guessed) \cup {hit}) \in Nat
        /\ Cardinality(InWindow(guessed)') <= Cardinality(InWindow(guessed) \cup {hit})
    BY <1>5, <2>1, FS_Subset, FS_CardinalityType
  <2>3. Cardinality(InWindow(guessed)) \in Nat
    BY WindowFinite DEF LimitInv
  <2> QED BY <2>1, <2>2, <2>3
<1>8. Trying' = Trying \ {b} /\ b \in Trying
  BY DEF LoginFails, FrontTypes, Trying
<1>9. Cardinality(Trying') = Cardinality(Trying) - 1
  BY <1>8, TryingFinite, FS_RemoveElement
<1>10. /\ Cardinality(InWindow(guessed)) \in Nat /\ Cardinality(InWindow(guessed)') \in Nat
       /\ Limit \in Nat
  <2>1. IsFiniteSet(InWindow(guessed)')
    BY <1>3, FS_Subset DEF InWindow
  <2> QED BY <2>1, WindowFinite, FS_CardinalityType, SessionsAssumption
          DEF LimitInv, SessionsAssumption
<1>11. Cardinality(InWindow(guessed)') + Cardinality(Trying')
          <= Limit + Cardinality(Browsers) - 1
  BY <1>7, <1>9, <1>10, TryingFinite DEF LimitInv
<1> QED BY <1>3, <1>4, <1>6, <1>11 DEF LimitInv

\* A success or a restart forgets every failure, and starts no login.
LEMMA LimitForgotten ==
    ASSUME LimitInv, guessed' = {}, hitsAt' = {}, Trying' \subseteq Trying
    PROVE  LimitInv'
<1>1. IsFiniteSet(guessed')
  BY FS_EmptySet
<1>2. InWindow(guessed)' = {}
  BY DEF InWindow
<1> QED BY <1>1, <1>2, LimitKept

LEMMA LimitByStep ==
    ASSUME FrontTypes, LimitInv, [SessionsNext]_sessionVars
    PROVE  LimitInv'
<1>1. ASSUME NEW b \in Browsers, BeginLogin(b)
      PROVE  LimitInv'
  BY <1>1, LimitByLogin
<1>2. ASSUME NEW b \in Browsers, LoginFails(b)
      PROVE  LimitInv'
  BY <1>2, LimitByFailure
<1>3. ASSUME NEW b \in Browsers, LoginSucceeds(b)
      PROVE  LimitInv'
  <2>1. Trying' \subseteq Trying
    BY <1>3 DEF LoginSucceeds, FrontTypes, Trying
  <2>2. guessed' = {} /\ hitsAt' = {}
    BY <1>3 DEF LoginSucceeds
  <2> QED BY <2>1, <2>2, LimitForgotten
<1>4. ASSUME NEW edits \in BOOLEAN, Restart(edits)
      PROVE  LimitInv'
  <2>1. Trying' \subseteq Trying
    BY <1>4 DEF Restart, Trying
  <2>2. guessed' = {} /\ hitsAt' = {}
    BY <1>4 DEF Restart
  <2> QED BY <2>1, <2>2, LimitForgotten
<1>5. CASE FrontTick
  <2>1. guessed' = guessed /\ hitsAt' = hitsAt /\ Trying' = Trying /\ now' = now + 1
    BY <1>5 DEF FrontTick, Trying
  <2>2. InWindow(guessed)' \subseteq InWindow(guessed)
    BY <2>1, SessionsAssumption DEF InWindow, FrontTypes, LimitInv, SessionsAssumption
  <2> QED BY <2>1, <2>2, LimitKept DEF LimitInv
<1>6. CASE guessed' = guessed /\ hitsAt' = hitsAt /\ attempt' = attempt /\ now' = now
  <2>1. InWindow(guessed)' = InWindow(guessed) /\ Trying' = Trying
    BY <1>6 DEF InWindow, Trying
  <2> QED BY <1>6, <2>1 DEF LimitInv
<1> QED BY <1>1, <1>2, <1>3, <1>4, <1>5, <1>6
        DEF SessionsNext, Send, Admit, Refuse, Handle, Logout, RevokeToken, SweepSessions,
            sessionVars

\* Wrong passwords in any window are bounded by the limit and the logins that looked at it
\* together (GuessesBounded), for any number of clients, any window and any limit.
THEOREM GuessesBoundedCorrect == SessionsSpec => []GuessesBounded
<1>1. SessionsInit => FrontInv /\ LimitInv
  <2> SUFFICES ASSUME SessionsInit
               PROVE  FrontInv /\ LimitInv
    OBVIOUS
  <2>1. FrontInv
    BY FrontStarts
  <2>2. guessed = {} /\ hitsAt = {} /\ InWindow(guessed) = {} /\ Trying = {}
    BY DEF SessionsInit, InWindow, Trying
  <2>3. IsFiniteSet(guessed) /\ Cardinality({}) = 0
    BY <2>2, FS_EmptySet
  <2> QED BY <2>1, <2>2, <2>3, TryingFinite, SessionsAssumption DEF LimitInv, SessionsAssumption
<1>2. FrontInv /\ LimitInv /\ [SessionsNext]_sessionVars => FrontInv' /\ LimitInv'
  BY FrontByStep, LimitByStep DEF FrontInv
<1>3. LimitInv => GuessesBounded
  <2> SUFFICES ASSUME LimitInv
               PROVE  GuessesBounded
    OBVIOUS
  <2> QED BY TryingFinite, WindowFinite, SessionsAssumption
          DEF LimitInv, GuessesBounded, SessionsAssumption
<1> QED BY <1>1, <1>2, <1>3, PTL DEF SessionsSpec

-----------------------------------------------------------------------------
(* The first user.                                                         *)

USE AccountsAssumption DEF AccountsAssumption

Setups == [at : {"idle", "compare", "remove", "create"}, presents : 0 .. issued,
           name : Names \union {"none"}]

LEMMA SetupUpdate ==
    ASSUME AccountsTypeOK, NEW s \in Claimants,
           NEW at \in {"idle", "compare", "remove", "create"}
    PROVE  /\ [setup[s] EXCEPT !.at = at] \in Setups
           /\ [setup[s] EXCEPT !.at = at].at = at
BY DEF AccountsTypeOK, Setups

\* The steps of one request.
RequestStep(s) ==
    \/ \E presents \in 1 .. issued, name \in Names \union {"none"} : CountUsers(s, presents, name)
    \/ CompareToken(s) \/ RemoveToken(s) \/ CreateUser(s)

LEMMA AccountsSteps ==
    ASSUME AccountsNext
    PROVE  ServerStarts \/ StartFails \/ ServerStops \/ \E s \in Claimants : RequestStep(s)
BY DEF AccountsNext, RequestStep

-----------------------------------------------------------------------------
(* Types.                                                                  *)

LEMMA FirstSetup == ASSUME issued \in Nat PROVE NoSetup \in Setups /\ NoSetup.at = "idle"
BY DEF NoSetup, Setups

LEMMA IssuedNumber == ASSUME AccountsTypeOK PROVE issued \in Nat /\ MaxTokens \in Nat
BY DEF AccountsTypeOK

LEMMA TypeServer ==
    ASSUME AccountsTypeOK, ServerStarts \/ StartFails \/ ServerStops
    PROVE  AccountsTypeOK'
<1>1. CASE ServerStops
  <2>1. setup' \in [Claimants -> Setups]
    BY <1>1, FirstSetup, IssuedNumber DEF ServerStops
  <2>2. accountFaults' \in 0 .. MaxAccountFaults
    BY <1>1 DEF ServerStops, AccountsTypeOK
  <2> QED BY <1>1, <2>1, <2>2 DEF ServerStops, AccountsTypeOK, Setups
<1>2. CASE ServerStarts \/ StartFails
  <2>1. issued' \in 0 .. MaxTokens /\ issued' \in issued .. issued + 1
    BY <1>2 DEF ServerStarts, StartFails, AccountsTypeOK
  <2>2. token' \in [whole : BOOLEAN, number : 0 .. issued']
    <3>1. issued \in Nat /\ 0 .. issued \subseteq 0 .. issued'
      BY <2>1, IssuedNumber
    <3>2. token \in [whole : BOOLEAN, number : 0 .. issued']
      BY <3>1 DEF AccountsTypeOK
    <3>3. \/ token' = token
          \/ /\ issued' = issued + 1
             /\ token' = WholeToken(issued + 1) \/ token' = TornToken(issued + 1)
      <4>1. CASE ServerStarts
        BY <4>1 DEF ServerStarts
      <4>2. CASE StartFails
        BY <4>2 DEF StartFails
      <4> QED BY <1>2, <4>1, <4>2
    <3>4. issued' = issued + 1 => issued + 1 \in 0 .. issued'
      BY <3>1
    <3>5. ASSUME NEW number \in 0 .. issued'
          PROVE  {WholeToken(number), TornToken(number)}
                    \subseteq [whole : BOOLEAN, number : 0 .. issued']
      BY DEF WholeToken, TornToken
    <3> QED BY <3>2, <3>3, <3>4, <3>5
  <2>3. setup' = setup /\ users' = users
    BY <1>2 DEF ServerStarts, StartFails
  <2>4. setup' \in [Claimants -> [at : {"idle", "compare", "remove", "create"},
                                  presents : 0 .. issued', name : Names \union {"none"}]]
    <3>1. 0 .. issued \subseteq 0 .. issued'
      BY <2>1, IssuedNumber
    <3> QED BY <2>3, <3>1 DEF AccountsTypeOK
  <2>5. up' \in BOOLEAN /\ spent' \in BOOLEAN /\ accountFaults' \in 0 .. MaxAccountFaults
    <3>1. CASE ServerStarts
      BY <3>1 DEF ServerStarts, AccountsTypeOK
    <3>2. CASE StartFails
      BY <3>2 DEF StartFails, AccountsTypeOK
    <3> QED BY <1>2, <3>1, <3>2
  <2>6. UNCHANGED <<users, together, setupCount>>
    BY <1>2 DEF ServerStarts, StartFails
  <2> QED BY <2>1, <2>2, <2>4, <2>5, <2>6 DEF AccountsTypeOK
<1> QED BY <1>1, <1>2

LEMMA TypeRequest ==
    ASSUME AccountsTypeOK, NEW s \in Claimants, RequestStep(s)
    PROVE  AccountsTypeOK'
<1>1. NoToken \in [whole : BOOLEAN, number : 0 .. issued]
  BY DEF NoToken, AccountsTypeOK
<1>2. UNCHANGED <<issued, up, accountFaults>>
  BY DEF RequestStep, CountUsers, CompareToken, RemoveToken, CreateUser
<1>3. \E new \in Setups : setup' = [setup EXCEPT ![s] = new]
  <2>1. CASE \E presents \in 1 .. issued, name \in Names \union {"none"} :
                CountUsers(s, presents, name)
    <3>1. PICK presents \in 1 .. issued, name \in Names \union {"none"} :
             CountUsers(s, presents, name)
      BY <2>1
    <3>2. [at |-> "compare", presents |-> presents, name |-> name] \in Setups
      BY DEF Setups, AccountsTypeOK
    <3>3. setup[s] \in Setups /\ setup = [setup EXCEPT ![s] = setup[s]]
      BY DEF AccountsTypeOK, Setups
    <3> QED BY <3>1, <3>2, <3>3 DEF CountUsers
  <2>2. CASE CompareToken(s)
    BY <2>2, FirstSetup, IssuedNumber, SetupUpdate DEF CompareToken
  <2>3. CASE RemoveToken(s)
    <3>1. setup' = [setup EXCEPT ![s] = [setup[s] EXCEPT !.at = "create"]]
      BY <2>3 DEF RemoveToken
    <3> QED BY <3>1, SetupUpdate
  <2>4. CASE CreateUser(s)
    BY <2>4, FirstSetup, IssuedNumber DEF CreateUser
  <2> QED BY <2>1, <2>2, <2>3, <2>4 DEF RequestStep
<1>4. setup' \in [Claimants -> Setups]
  BY <1>3 DEF AccountsTypeOK, Setups
<1>5. users' \subseteq Names
  <2>1. CASE CreateUser(s)
    <3>1. setup[s].name \in Names \union {"none"}
      BY DEF AccountsTypeOK
    <3> QED BY <2>1, <3>1 DEF CreateUser, AccountsTypeOK
  <2>2. CASE ~CreateUser(s)
    BY <2>2 DEF RequestStep, CountUsers, CompareToken, RemoveToken, AccountsTypeOK
  <2> QED BY <2>1, <2>2
<1>6. token' \in {token, NoToken}
  BY DEF RequestStep, CountUsers, CompareToken, RemoveToken, CreateUser
<1>7. together' \in BOOLEAN /\ spent' \in BOOLEAN /\ setupCount' \in 0 .. MaxSetups
  <2>1. together' \in BOOLEAN
    BY DEF RequestStep, CountUsers, CompareToken, RemoveToken, CreateUser, AccountsTypeOK
  <2>2. spent' \in BOOLEAN
    BY DEF RequestStep, CountUsers, CompareToken, RemoveToken, CreateUser, AccountsTypeOK
  <2>3. setupCount' \in 0 .. MaxSetups
    BY DEF RequestStep, CountUsers, CompareToken, RemoveToken, CreateUser, AccountsTypeOK
  <2> QED BY <2>1, <2>2, <2>3
<1> QED BY <1>1, <1>2, <1>4, <1>5, <1>6, <1>7 DEF AccountsTypeOK, Setups

LEMMA AccountsTypeInit == ASSUME AccountsInit PROVE AccountsTypeOK
<1>1. issued \in Nat /\ issued = 0
  BY DEF AccountsInit
<1>2. setup \in [Claimants -> Setups]
  BY <1>1, FirstSetup DEF AccountsInit
<1>3. token \in [whole : BOOLEAN, number : 0 .. issued]
  BY <1>1 DEF AccountsInit, NoToken
<1>4. /\ issued \in 0 .. MaxTokens /\ setupCount \in 0 .. MaxSetups
      /\ accountFaults \in 0 .. MaxAccountFaults
  BY <1>1 DEF AccountsInit
<1> QED BY <1>2, <1>3, <1>4 DEF AccountsInit, AccountsTypeOK, Setups

LEMMA AccountsTypeStep == ASSUME AccountsTypeOK, [AccountsNext]_accountVars PROVE AccountsTypeOK'
<1>1. CASE UNCHANGED accountVars
  BY <1>1 DEF accountVars, AccountsTypeOK
<1> QED BY <1>1, AccountsSteps, TypeServer, TypeRequest

-----------------------------------------------------------------------------
(* One user.                                                               *)

\* The requests that have the token's word for it.
Claims == {s \in Claimants : setup[s].at \in {"remove", "create"}}

\* As long as no two requests matched before either removed the token, at most one request
\* holds the right to create, it holds it alone, and no token is left once it has been used.
Single ==
    /\ \A s, o \in Claims : s = o
    /\ \A s \in Claims : users = {} /\ up /\ (setup[s].at = "create" => ~token.whole)
    /\ users # {} => ~token.whole
    /\ \A a, b \in users : a = b

\* A request runs only in a dashboard that serves.
ServerUp == \A s \in Claimants : setup[s].at # "idle" => up

AccountsInv == AccountsTypeOK /\ ServerUp /\ (~together => Single)

LEMMA SingleInit == ASSUME AccountsInit PROVE AccountsInv
<1>1. AccountsTypeOK
  BY AccountsTypeInit
<1>2. Claims = {} /\ users = {}
  BY DEF AccountsInit, NoSetup, Claims
<1>3. ServerUp
  BY DEF AccountsInit, NoSetup, ServerUp
<1> QED BY <1>1, <1>2, <1>3 DEF AccountsInv, Single

LEMMA TokenShapes ==
    /\ ~NoToken.whole
    /\ \A number : WholeToken(number).whole /\ ~TornToken(number).whole
BY DEF NoToken, WholeToken, TornToken

\* A new token is written only while there is nobody, and no request.
LEMMA SingleServer ==
    ASSUME AccountsInv, ServerStarts \/ StartFails \/ ServerStops, ~together'
    PROVE  Single'
<1>1. Single /\ ~together
  BY DEF AccountsInv, ServerStarts, StartFails, ServerStops
<1>2. CASE ServerStops
  <2>1. Claims' = {}
    BY <1>2 DEF Claims, ServerStops, NoSetup
  <2> QED BY <1>1, <1>2, <2>1 DEF Single, ServerStops
<1>3. CASE ServerStarts \/ StartFails
  <2>1. Claims' = Claims /\ Claims = {}
    BY <1>1, <1>3 DEF Claims, Single, ServerStarts, StartFails
  <2> QED BY <1>1, <1>3, <2>1 DEF Single, ServerStarts, StartFails
<1> QED BY <1>2, <1>3

LEMMA SingleRequest ==
    ASSUME AccountsInv, NEW s \in Claimants, RequestStep(s), ~together'
    PROVE  Single'
<1>1. Single /\ ~together
  <2>1. together => together'
    BY DEF RequestStep, CountUsers, CompareToken, RemoveToken, CreateUser
  <2> QED BY <2>1 DEF AccountsInv
<1>2. CASE \E presents \in 1 .. issued, name \in Names \union {"none"} :
              CountUsers(s, presents, name)
  <2>1. PICK presents \in 1 .. issued, name \in Names \union {"none"} :
           CountUsers(s, presents, name)
    BY <1>2
  <2>2. \A o \in Claimants : setup'[o] = setup[o] \/ setup'[o].at = "compare"
    BY <2>1 DEF CountUsers, AccountsInv, AccountsTypeOK
  <2>3. \A o \in Claims' : o \in Claims /\ setup'[o] = setup[o]
    BY <2>2 DEF Claims
  <2>4. (token' = token \/ ~token'.whole) /\ UNCHANGED <<users, up>>
    BY <2>1, TokenShapes DEF CountUsers
  <2> QED BY <1>1, <2>3, <2>4 DEF Single
<1>3. CASE CompareToken(s)
  <2> DEFINE matches == token = WholeToken(setup[s].presents)
  <2>1. UNCHANGED <<token, users, up>>
    BY <1>3 DEF CompareToken
  <2>2. CASE ~matches
    <3>1. \A o \in Claimants : setup'[o] = IF o = s THEN NoSetup ELSE setup[o]
      BY <1>3, <2>2 DEF CompareToken, AccountsInv, AccountsTypeOK
    <3>2. \A o \in Claims' : o \in Claims /\ setup'[o] = setup[o]
      BY <3>1 DEF Claims, NoSetup
    <3> QED BY <1>1, <2>1, <3>2 DEF Single
  <2>3. CASE matches
    <3>1. token.whole
      BY <2>3, TokenShapes
    <3>2. \A o \in Claimants : setup'[o] = IF o = s THEN [setup[s] EXCEPT !.at = "remove"]
                                          ELSE setup[o]
      BY <1>3, <2>3 DEF CompareToken, AccountsInv, AccountsTypeOK
    <3>3. setup'[s].at = "remove"
      BY <3>2, SetupUpdate DEF AccountsInv
    <3>4. \A o \in Claimants \ {s} : setup[o].at # "remove"
      BY <1>3, <2>3 DEF CompareToken
    <3>5. users = {} /\ \A o \in Claimants : setup[o].at # "create"
      BY <1>1, <3>1 DEF Single, Claims
    <3>6. Claims' = {s}
      BY <3>2, <3>3, <3>4, <3>5 DEF Claims
    <3>7. up
      BY <1>3 DEF AccountsInv, ServerUp, CompareToken
    <3> QED BY <2>1, <3>3, <3>5, <3>6, <3>7 DEF Single
  <2> QED BY <2>2, <2>3
<1>4. CASE RemoveToken(s)
  <2>1. Claims = {s} /\ UNCHANGED <<users, up>> /\ ~token'.whole
    BY <1>1, <1>4, TokenShapes DEF RemoveToken, Single, Claims
  <2>2. \A o \in Claimants \ {s} : setup'[o] = setup[o]
    BY <1>4 DEF RemoveToken, AccountsInv, AccountsTypeOK
  <2>3. Claims' \subseteq {s}
    BY <2>1, <2>2 DEF Claims
  <2> QED BY <1>1, <2>1, <2>3 DEF Single
<1>5. CASE CreateUser(s)
  <2>1. Claims = {s} /\ users = {} /\ ~token.whole /\ token' = token
    BY <1>1, <1>5 DEF CreateUser, Single, Claims
  <2>2. \A o \in Claimants : setup'[o] = IF o = s THEN NoSetup ELSE setup[o]
    BY <1>5 DEF CreateUser, AccountsInv, AccountsTypeOK
  <2>3. Claims' = {}
    BY <2>1, <2>2 DEF Claims, NoSetup
  <2>4. users' \subseteq {setup[s].name}
    BY <1>5, <2>1 DEF CreateUser
  <2> QED BY <2>1, <2>3, <2>4 DEF Single
<1> QED BY <1>2, <1>3, <1>4, <1>5 DEF RequestStep

LEMMA ServedStep ==
    ASSUME AccountsTypeOK, ServerUp, AccountsNext
    PROVE  ServerUp'
<1>1. CASE ServerStarts \/ StartFails
  BY <1>1 DEF ServerStarts, StartFails, ServerUp
<1>2. CASE ServerStops
  BY <1>2 DEF ServerStops, ServerUp, NoSetup
<1>3. ASSUME NEW s \in Claimants, RequestStep(s)
      PROVE  ServerUp'
  <2>1. up /\ up' = up
    BY <1>3 DEF RequestStep, CountUsers, CompareToken, RemoveToken, CreateUser, ServerUp
  <2> QED BY <2>1 DEF ServerUp
<1> QED BY <1>1, <1>2, <1>3, AccountsSteps

LEMMA AccountsInvStep == ASSUME AccountsInv, [AccountsNext]_accountVars PROVE AccountsInv'
<1>1. AccountsTypeOK'
  BY AccountsTypeStep DEF AccountsInv
<1>2. CASE UNCHANGED accountVars
  BY <1>1, <1>2 DEF accountVars, AccountsInv, ServerUp, Single, Claims
<1>3. CASE AccountsNext
  <2>1. ServerUp'
    BY <1>3, ServedStep DEF AccountsInv
  <2> QED BY <1>1, <1>3, <2>1, AccountsSteps, SingleServer, SingleRequest DEF AccountsInv
<1> QED BY <1>2, <1>3

\* A token makes one user, however many requests present it and however often the dashboard
\* restarts, unless two requests matched before either removed it.
THEOREM OneAdminCorrect == AccountsSpec => []OneAdmin
<1>1. ASSUME AccountsInv
      PROVE  OneAdmin
  <2>1. SUFFICES ASSUME ~together
                 PROVE  ~(Cardinality(users) > 1)
    BY DEF OneAdmin
  <2>2. \A a, b \in users : a = b
    BY <1>1, <2>1 DEF AccountsInv, Single
  <2>3. users = {} \/ \E a : users = {a}
    <3>1. ASSUME NEW a \in users
          PROVE  users = {a}
      BY <2>2
    <3> QED BY <3>1
  <2>4. Cardinality(users) \in {0, 1}
    BY <2>3, FS_EmptySet, FS_Singleton
  <2> QED BY <2>4
<1> QED BY <1>1, SingleInit, AccountsInvStep, PTL DEF AccountsSpec

-----------------------------------------------------------------------------
(* The first user.                                                         *)

LEMMA WayInStep ==
    ASSUME AccountsTypeOK, WayIn, [AccountsNext]_accountVars
    PROVE  WayIn'
<1>1. SUFFICES ASSUME up', users' = {}
               PROVE  \/ token'.whole
                      \/ spent'
                      \/ \E s \in Claimants : setup'[s].at = "create"
  BY DEF WayIn
<1>2. CASE UNCHANGED accountVars
  BY <1>1, <1>2 DEF accountVars, WayIn
<1>3. CASE ServerStarts
  BY <1>1, <1>3, TokenShapes DEF ServerStarts
<1>4. CASE StartFails \/ ServerStops
  BY <1>1, <1>4 DEF StartFails, ServerStops
<1>5. ASSUME NEW s \in Claimants, RequestStep(s)
      PROVE  token'.whole \/ spent' \/ \E o \in Claimants : setup'[o].at = "create"
  <2>1. up /\ users = {}
    BY <1>1, <1>5 DEF RequestStep, CountUsers, CompareToken, RemoveToken, CreateUser
  <2>2. token.whole \/ spent \/ \E o \in Claimants : setup[o].at = "create"
    BY <2>1 DEF WayIn
  <2>3. CASE RemoveToken(s)
    <3>1. setup'[s].at = "create"
      BY <2>3 DEF RemoveToken, AccountsTypeOK
    <3> QED BY <3>1
  <2>4. CASE CreateUser(s)
    BY <1>1, <2>1, <2>4 DEF CreateUser
  <2>5. CASE CompareToken(s)
    <3>1. \A o \in Claimants \ {s} : setup'[o] = setup[o]
      BY <2>5 DEF CompareToken, AccountsTypeOK
    <3>2. setup[s].at # "create" /\ UNCHANGED <<token, spent>>
      BY <2>5 DEF CompareToken
    <3> QED BY <2>2, <3>1, <3>2
  <2>6. CASE \E presents \in 1 .. issued, name \in Names \union {"none"} :
                CountUsers(s, presents, name)
    <3>1. \A o \in Claimants \ {s} : setup'[o] = setup[o]
      BY <2>6 DEF CountUsers, AccountsTypeOK
    <3>2. setup[s].at = "idle" /\ UNCHANGED <<token, spent>>
      BY <2>1, <2>6 DEF CountUsers
    <3> QED BY <2>2, <3>1, <3>2
  <2> QED BY <1>5, <2>3, <2>4, <2>5, <2>6 DEF RequestStep
<1> QED BY <1>2, <1>3, <1>4, <1>5, AccountsSteps

LEMMA AccountsTypeCorrect == AccountsSpec => []AccountsTypeOK
BY AccountsTypeInit, AccountsTypeStep, PTL DEF AccountsSpec

\* A dashboard that serves without users can be claimed, or one request used its token up.
THEOREM WayInCorrect == AccountsSpec => []WayIn
<1>1. AccountsInit => WayIn
  BY DEF AccountsInit, WayIn
<1> QED BY <1>1, WayInStep, AccountsTypeCorrect, PTL DEF AccountsSpec

-----------------------------------------------------------------------------
(* Keys and grants.                                                        *)

USE KeyAccessAssumption DEF KeyAccessAssumption

States == {"idle", "load", "save", "fill", "grants", "append", "rename"}
AllOps == KeyOps \cup GrantOps \cup {"migrate", "none"}

LEMMA IdleState == IdleClerk \in ClerkStates /\ IdleClerk.at = "idle" /\ IdleClerk.op = "none"
<1>1. (CHOOSE k \in SshKeys : TRUE) \in SshKeys /\ (CHOOSE r \in ScopedRepos : TRUE) \in ScopedRepos
  OBVIOUS
<1> QED
  BY <1>1 DEF IdleClerk, ClerkStates, Levels, LineForms, Grants, NoGrants

\* What the states of a request change of it.
LEMMA Advanced ==
    ASSUME NEW e \in ClerkStates, NEW at \in States, NEW copy \in Grants,
           NEW seen \in [SshKeys -> LineForms], NEW todo \in SUBSET (ScopedRepos \X SshKeys),
           NEW r \in ScopedRepos, NEW k \in SshKeys, NEW open \in BOOLEAN
    PROVE  /\ [e EXCEPT !.at = at] \in ClerkStates
           /\ [e EXCEPT !.open = open] \in ClerkStates
           /\ [e EXCEPT !.at = at, !.copy = copy] \in ClerkStates
           /\ [e EXCEPT !.at = at, !.open = open] \in ClerkStates
           /\ [e EXCEPT !.at = at, !.seen = seen] \in ClerkStates
           /\ [e EXCEPT !.at = at, !.seen = seen, !.todo = todo] \in ClerkStates
           /\ [e EXCEPT !.at = at, !.repo = r, !.key = k, !.level = "write", !.todo = todo,
                        !.copy = copy] \in ClerkStates
BY DEF ClerkStates, States, Levels

-----------------------------------------------------------------------------
(* The invariant.                                                          *)

\* Which operations have which steps; the dashboard serves what holds its lock.
Courses ==
    \A c \in Clerks :
        /\ clerk[c].at = "append" => clerk[c].op = "add"
        /\ clerk[c].at = "rename" => clerk[c].op = "remove"
        /\ clerk[c].at = "grants" => clerk[c].op = "migrate"
        /\ clerk[c].at # "idle" /\ clerk[c].op \in KeyOps => dashboard # "down"

\* As long as requests came one after the other: the files agree with what was asked, and
\* with what the request under way has read of them.
Alone == \A c, d \in ActiveClerks : c = d
NoneAround == dashboard = "scoped" => \A k \in SshKeys : lines[k] # "plain"
GrantsAgree == \A r \in ScopedRepos : access[r].whole => access[r].grants = wanted[r]
CopyAgrees ==
    \A c \in Clerks :
        clerk[c].at \in {"save", "fill"} =>
            clerk[c].copy = [wanted[clerk[c].repo] EXCEPT ![clerk[c].key] = clerk[c].level]
SeenAgrees ==
    \A c \in Clerks :
        \/ clerk[c].at \in {"rename", "grants"}
        \/ clerk[c].at \in {"save", "fill"} /\ clerk[c].op = "migrate"
        => clerk[c].seen = lines

InStep == Alone /\ NoneAround /\ GrantsAgree /\ CopyAgrees /\ SeenAgrees

KeyInv == KeyAccessTypeOK /\ Courses /\ (~mixed => InStep) /\ OnlyTheGranted

LEMMA KeyInvInit == ASSUME KeyAccessInit PROVE KeyInv
<1>1. \A c \in Clerks : clerk[c] = IdleClerk
  BY DEF KeyAccessInit
<1>2. KeyAccessTypeOK
  <2>1. NoGrants \in Grants
    BY DEF NoGrants, Grants, Levels
  <2>2. lines \in [SshKeys -> LineForms]
    BY DEF KeyAccessInit, LineForms
  <2>3. /\ access \in [ScopedRepos -> [whole : BOOLEAN, grants : Grants]]
        /\ wanted \in [ScopedRepos -> Grants]
    BY <2>1 DEF KeyAccessInit
  <2>4. clerk \in [Clerks -> ClerkStates]
    BY IdleState DEF KeyAccessInit
  <2>5. /\ dashboard \in {"plain", "scoped", "down"} /\ mixed \in BOOLEAN
    BY DEF KeyAccessInit
  <2>6. session \in [allowed : BOOLEAN, wanted : BOOLEAN, scoped : BOOLEAN]
    BY DEF KeyAccessInit
  <2>7. clerkCount \in 0 .. MaxClerkRequests /\ clerkFaults \in 0 .. MaxClerkFaults
    BY DEF KeyAccessInit
  <2> QED
    BY <2>2, <2>3, <2>4, <2>5, <2>6, <2>7 DEF KeyAccessTypeOK
<1>3. Courses
  BY <1>1, IdleState DEF Courses
<1>4. InStep
  <2>1. Alone
    BY <1>1, IdleState DEF Alone, ActiveClerks
  <2>2. CopyAgrees /\ SeenAgrees
    BY <1>1, IdleState DEF CopyAgrees, SeenAgrees
  <2>3. NoneAround /\ GrantsAgree
    BY DEF KeyAccessInit, NoneAround, GrantsAgree
  <2> QED
    BY <2>1, <2>2, <2>3 DEF InStep
<1> QED
  BY <1>2, <1>3, <1>4 DEF KeyInv, KeyAccessInit, OnlyTheGranted

\* A request moves to another state; the others stay where they are.
LEMMA ClerkMoves ==
    ASSUME KeyAccessTypeOK, NEW c \in Clerks, NEW e \in ClerkStates,
           clerk' = [clerk EXCEPT ![c] = e]
    PROVE  /\ clerk' \in [Clerks -> ClerkStates]
           /\ clerk'[c] = e
           /\ \A d \in Clerks \ {c} : clerk'[d] = clerk[d]
BY DEF KeyAccessTypeOK

\* The one request under way is the only one that can break what the files agree on.
LEMMA OthersIdle ==
    ASSUME InStep, NEW c \in Clerks, clerk[c].at # "idle"
    PROVE  \A d \in Clerks \ {c} : clerk[d].at = "idle"
BY DEF InStep, Alone, ActiveClerks

Numbers == clerkCount \in 0 .. MaxClerkRequests /\ clerkFaults \in 0 .. MaxClerkFaults

\* A step that moves one request and leaves the files as they are.
LEMMA MovesOnly ==
    ASSUME KeyInv, NEW c \in Clerks, NEW e \in ClerkStates, clerk' = [clerk EXCEPT ![c] = e],
           UNCHANGED <<lines, access, wanted, dashboard, session>>, mixed' \in BOOLEAN, Numbers',
           ~mixed' => ~mixed /\ \A d \in Clerks \ {c} : clerk[d].at = "idle",
           e.at = "append" => e.op = "add",
           e.at = "rename" => e.op = "remove",
           e.at = "grants" => e.op = "migrate",
           e.at # "idle" /\ e.op \in KeyOps => dashboard # "down",
           ~mixed /\ e.at \in {"save", "fill"}
               => e.copy = [wanted[e.repo] EXCEPT ![e.key] = e.level],
           ~mixed /\ (e.at \in {"rename", "grants"} \/ (e.at \in {"save", "fill"} /\ e.op = "migrate"))
               => e.seen = lines
    PROVE  KeyInv'
<1>1. /\ clerk' \in [Clerks -> ClerkStates]
      /\ clerk'[c] = e
      /\ \A d \in Clerks \ {c} : clerk'[d] = clerk[d]
  BY ClerkMoves DEF KeyInv
<1>2. KeyAccessTypeOK'
  BY <1>1 DEF KeyInv, KeyAccessTypeOK, Numbers
<1>3. Courses'
  <2>1. ASSUME NEW d \in Clerks
        PROVE  /\ clerk'[d].at = "append" => clerk'[d].op = "add"
               /\ clerk'[d].at = "rename" => clerk'[d].op = "remove"
               /\ clerk'[d].at = "grants" => clerk'[d].op = "migrate"
               /\ clerk'[d].at # "idle" /\ clerk'[d].op \in KeyOps => dashboard' # "down"
    <3>1. CASE d = c
      BY <1>1, <3>1
    <3>2. CASE d # c
      BY <1>1, <3>2 DEF KeyInv, Courses
    <3> QED
      BY <3>1, <3>2
  <2> QED
    BY <2>1 DEF Courses
<1>4. ASSUME ~mixed' PROVE InStep'
  <2>1. ~mixed /\ InStep
    BY <1>4 DEF KeyInv
  <2>2. \A d \in Clerks : clerk'[d].at # "idle" => d = c
    BY <1>1, <1>4
  <2>3. Alone'
    BY <2>2 DEF Alone, ActiveClerks
  <2>4. NoneAround' /\ GrantsAgree'
    BY <2>1 DEF InStep, NoneAround, GrantsAgree
  <2>5. CopyAgrees'
    BY <1>1, <2>1, <2>2 DEF CopyAgrees
  <2>6. SeenAgrees'
    <3> SUFFICES ASSUME NEW d \in Clerks,
                        \/ clerk'[d].at \in {"rename", "grants"}
                        \/ clerk'[d].at \in {"save", "fill"} /\ clerk'[d].op = "migrate"
                 PROVE  clerk'[d].seen = lines'
      BY DEF SeenAgrees
    <3>1. d = c /\ clerk'[d] = e
      BY <1>1, <2>2
    <3>2. e.at \in {"rename", "grants"} \/ (e.at \in {"save", "fill"} /\ e.op = "migrate")
      BY <3>1, Zenon
    <3>3. e.seen = lines
      BY <2>1, <3>2
    <3> QED
      BY <3>1, <3>3
  <2> QED
    BY <2>3, <2>4, <2>5, <2>6 DEF InStep
<1>5. OnlyTheGranted'
  BY DEF KeyInv, OnlyTheGranted
<1> QED
  BY <1>2, <1>3, <1>4, <1>5 DEF KeyInv

LEMMA StartStep ==
    ASSUME KeyInv, NEW c \in Clerks, NEW op \in KeyOps \cup GrantOps \cup {"migrate"},
           NEW k \in SshKeys, NEW r \in ScopedRepos, NEW level \in Levels,
           StartClerk(c, op, k, r, level)
    PROVE  KeyInv'
<1> DEFINE e == [IdleClerk EXCEPT !.op = op, !.at = "load", !.key = k, !.repo = r, !.level = level]
<1>1. e \in ClerkStates /\ e.at = "load" /\ e.op = op
  <2>1. e \in ClerkStates
    BY IdleState DEF ClerkStates
  <2>2. e.at = "load" /\ e.op = op
    BY IdleState DEF ClerkStates
  <2> QED
    BY <2>1, <2>2
<1>2. clerk' = [clerk EXCEPT ![c] = e]
  BY DEF StartClerk
<1>3. /\ UNCHANGED <<lines, access, wanted, dashboard, session>>
      /\ mixed' \in BOOLEAN /\ Numbers'
  BY DEF StartClerk, KeyInv, KeyAccessTypeOK, Numbers
<1>4. ~mixed' => ~mixed /\ \A d \in Clerks \ {c} : clerk[d].at = "idle"
  BY DEF StartClerk, ActiveClerks
<1>5. op \in KeyOps => dashboard # "down"
  BY DEF StartClerk
<1> HIDE DEF e
<1> QED
  BY <1>1, <1>2, <1>3, <1>4, <1>5, MovesOnly

LEMMA UnderWay ==
    ASSUME KeyInv, NEW c \in Clerks, clerk[c].at # "idle"
    PROVE  ~mixed => InStep /\ \A d \in Clerks \ {c} : clerk[d].at = "idle"
BY OthersIdle DEF KeyInv

LEMMA LoadStep ==
    ASSUME KeyInv, NEW c \in Clerks, LoadAccess(c)
    PROVE  KeyInv'
<1> DEFINE e == clerk[c]
           regranted == [access[e.repo].grants EXCEPT ![e.key] = e.level]
           next == IF access[e.repo].whole THEN [e EXCEPT !.at = "save", !.copy = regranted]
                   ELSE IdleClerk
<1>1. e \in ClerkStates /\ e.at = "load" /\ e.op \in GrantOps
  BY DEF KeyInv, KeyAccessTypeOK, LoadAccess
<1>2. e.key \in SshKeys /\ e.repo \in ScopedRepos /\ e.level \in Levels
  BY <1>1 DEF ClerkStates
<1>3. access[e.repo].grants \in Grants /\ regranted \in Grants
  BY <1>2 DEF KeyInv, KeyAccessTypeOK, Grants
<1>4. /\ next \in ClerkStates
      /\ next.at # "idle" => /\ access[e.repo].whole /\ next.copy = regranted /\ next.at = "save"
                             /\ next.op = e.op /\ next.repo = e.repo /\ next.key = e.key
                             /\ next.level = e.level
  <2>1. CASE access[e.repo].whole
    <3>1. next = [e EXCEPT !.at = "save", !.copy = regranted]
      BY <2>1
    <3>2. "save" \in States
      BY DEF States
    <3> HIDE DEF next, regranted, e
    <3>3. next \in ClerkStates
      BY <1>1, <1>3, <3>1, <3>2 DEF ClerkStates
    <3>4. /\ next.copy = regranted /\ next.at = "save" /\ next.op = e.op /\ next.repo = e.repo
          /\ next.key = e.key /\ next.level = e.level
      BY <1>1, <3>1 DEF ClerkStates
    <3> QED
      BY <2>1, <3>3, <3>4
  <2>2. CASE ~access[e.repo].whole
    BY <2>2, IdleState
  <2> QED
    BY <2>1, <2>2
<1>5. clerk' = [clerk EXCEPT ![c] = next]
  BY DEF LoadAccess
<1>6. ~mixed => InStep /\ \A d \in Clerks \ {c} : clerk[d].at = "idle"
  BY <1>1, UnderWay
<1>7. ~mixed /\ next.at # "idle" => regranted = [wanted[e.repo] EXCEPT ![e.key] = e.level]
  BY <1>2, <1>4, <1>6 DEF InStep, GrantsAgree
<1>8. /\ UNCHANGED <<lines, access, wanted, dashboard, session, mixed>>
      /\ mixed' \in BOOLEAN /\ Numbers'
  BY DEF LoadAccess, KeyInv, KeyAccessTypeOK, Numbers
<1>9. e.op \notin KeyOps \cup {"migrate"}
  BY <1>1 DEF KeyOps, GrantOps
<1> HIDE DEF next, regranted, e
<1> QED
  BY <1>4, <1>5, <1>6, <1>7, <1>8, <1>9, MovesOnly

LEMMA GrantStep ==
    ASSUME KeyInv, NEW c \in Clerks, NextGrant(c)
    PROVE  KeyInv'
<1> DEFINE e == clerk[c]
<1>1. e \in ClerkStates /\ e.at = "grants" /\ e.op = "migrate"
  BY DEF KeyInv, KeyAccessTypeOK, NextGrant, Courses
<1>2. PICK t \in e.todo :
        clerk' = [clerk EXCEPT ![c] =
            IF access[t[1]].whole
            THEN [e EXCEPT !.at = "save", !.repo = t[1], !.key = t[2], !.level = "write",
                           !.todo = @ \ {t}, !.copy = [access[t[1]].grants EXCEPT ![t[2]] = "write"]]
            ELSE IdleClerk]
  BY DEF NextGrant
<1> DEFINE r == t[1]
           k == t[2]
           left == e.todo \ {t}
           regranted == [access[r].grants EXCEPT ![k] = "write"]
           moved == [e EXCEPT !.at = "save", !.repo = r, !.key = k, !.level = "write",
                              !.todo = left, !.copy = regranted]
           next == IF access[r].whole THEN moved ELSE IdleClerk
<1>3. r \in ScopedRepos /\ k \in SshKeys /\ left \in SUBSET (ScopedRepos \X SshKeys)
  BY <1>1 DEF ClerkStates
<1>4. regranted \in Grants
  BY <1>3 DEF KeyInv, KeyAccessTypeOK, Grants, Levels
<1>5. clerk' = [clerk EXCEPT ![c] = next]
  BY <1>2
<1>6. ~mixed => InStep /\ \A d \in Clerks \ {c} : clerk[d].at = "idle"
  BY <1>1, UnderWay
<1>7. ~mixed => e.seen = lines
  BY <1>1, <1>6 DEF InStep, SeenAgrees
<1>8. ~mixed /\ access[r].whole => regranted = [wanted[r] EXCEPT ![k] = "write"]
  BY <1>3, <1>6 DEF InStep, GrantsAgree
<1>9. /\ UNCHANGED <<lines, access, wanted, dashboard, session, mixed>>
      /\ mixed' \in BOOLEAN /\ Numbers'
  BY DEF NextGrant, KeyInv, KeyAccessTypeOK, Numbers
<1>10. /\ moved \in ClerkStates
       /\ moved.at = "save" /\ moved.op = "migrate" /\ moved.repo = r /\ moved.key = k
       /\ moved.level = "write" /\ moved.copy = regranted /\ moved.seen = e.seen
  <2>1. "save" \in States /\ lines \in [SshKeys -> LineForms]
    BY DEF States, KeyInv, KeyAccessTypeOK
  <2> HIDE DEF regranted, left, r, k, e
  <2>2. moved \in ClerkStates
    BY <1>1, <1>3, <1>4, <2>1, Advanced
  <2>3. /\ moved.at = "save" /\ moved.op = "migrate" /\ moved.repo = r /\ moved.key = k
        /\ moved.level = "write" /\ moved.copy = regranted /\ moved.seen = e.seen
    BY <1>1 DEF ClerkStates
  <2> QED
    BY <2>2, <2>3
<1>11. "migrate" \notin KeyOps
  BY DEF KeyOps
<1> HIDE DEF moved, regranted, left, r, k, e
<1> QED
  BY <1>5, <1>6, <1>7, <1>8, <1>9, <1>10, <1>11, IdleState, MovesOnly

LEMMA ReadStep ==
    ASSUME KeyInv, NEW c \in Clerks, ReadLines(c)
    PROVE  KeyInv'
<1> DEFINE e == clerk[c]
           all == ScopedRepos \X {k \in SshKeys : lines[k] # "none"}
<1>1. e \in ClerkStates /\ e.at = "load" /\ lines \in [SshKeys -> LineForms]
  BY DEF KeyInv, KeyAccessTypeOK, ReadLines
<1>2. all \in SUBSET (ScopedRepos \X SshKeys)
  OBVIOUS
<1>3. PICK next :
        /\ clerk' = [clerk EXCEPT ![c] = next]
        /\ \/ e.op = "add" /\ next = [e EXCEPT !.at = "append", !.open = TRUE]
           \/ e.op = "remove" /\ next = [e EXCEPT !.at = "rename", !.seen = lines]
           \/ e.op = "migrate" /\ next = [e EXCEPT !.at = "grants", !.seen = lines, !.todo = all]
           \/ next = IdleClerk
  BY DEF ReadLines
<1>4. /\ next \in ClerkStates
      /\ next.at # "idle" => next.op = e.op
      /\ \/ next.at = "append" /\ next.op = "add"
         \/ next.at = "rename" /\ next.op = "remove" /\ next.seen = lines
         \/ next.at = "grants" /\ next.op = "migrate" /\ next.seen = lines
         \/ next.at = "idle"
  <2>1. {"append", "rename", "grants"} \subseteq States
    BY DEF States
  <2> HIDE DEF e, all
  <2>2. CASE e.op = "add" /\ next = [e EXCEPT !.at = "append", !.open = TRUE]
    BY <1>1, <2>2 DEF ClerkStates
  <2>3. CASE e.op = "remove" /\ next = [e EXCEPT !.at = "rename", !.seen = lines]
    BY <1>1, <2>3 DEF ClerkStates
  <2>4. CASE e.op = "migrate" /\ next = [e EXCEPT !.at = "grants", !.seen = lines, !.todo = all]
    BY <1>1, <1>2, <2>4 DEF ClerkStates
  <2>5. CASE next = IdleClerk
    BY <2>5, IdleState
  <2> QED
    BY <1>3, <2>2, <2>3, <2>4, <2>5
<1>5. ~mixed => InStep /\ \A d \in Clerks \ {c} : clerk[d].at = "idle"
  BY <1>1, UnderWay
<1>6. /\ UNCHANGED <<lines, access, wanted, dashboard, session, mixed>>
      /\ mixed' \in BOOLEAN /\ Numbers'
  BY DEF ReadLines, KeyInv, KeyAccessTypeOK, Numbers
<1>7. e.op \in KeyOps => dashboard # "down"
  BY <1>1 DEF KeyInv, Courses
<1> HIDE DEF e, all
<1> QED
  BY <1>3, <1>4, <1>5, <1>6, <1>7, MovesOnly

LEMMA StopStep ==
    ASSUME KeyInv, NEW c \in Clerks, ClerkStops(c)
    PROVE  KeyInv'
<1>1. clerk[c].at # "idle" /\ clerk' = [clerk EXCEPT ![c] = IdleClerk]
  BY DEF ClerkStops
<1>2. ~mixed => \A d \in Clerks \ {c} : clerk[d].at = "idle"
  BY <1>1, UnderWay
<1>3. /\ UNCHANGED <<lines, access, wanted, dashboard, session>>
      /\ mixed' \in BOOLEAN /\ Numbers' /\ (mixed => mixed')
  BY DEF ClerkStops, KeyInv, KeyAccessTypeOK, Numbers
<1> QED
  BY <1>1, <1>2, <1>3, IdleState, MovesOnly

-----------------------------------------------------------------------------
(* Steps that change a file.                                               *)

LEMMA CutStep ==
    ASSUME KeyInv, NEW c \in Clerks, CutAccess(c)
    PROVE  KeyInv'
<1> DEFINE e == clerk[c]
           next == [e EXCEPT !.at = "fill"]
<1>1. e \in ClerkStates /\ e.at = "save" /\ e.repo \in ScopedRepos
  BY DEF KeyInv, KeyAccessTypeOK, CutAccess, ClerkStates
<1>2. /\ next \in ClerkStates /\ next.at = "fill" /\ next.op = e.op /\ next.repo = e.repo
      /\ next.key = e.key /\ next.level = e.level /\ next.copy = e.copy /\ next.seen = e.seen
  <2> HIDE DEF e
  <2> QED
    BY <1>1 DEF ClerkStates
<1>3. clerk' = [clerk EXCEPT ![c] = next]
  BY DEF CutAccess
<1> HIDE DEF next
<1>4. /\ clerk' \in [Clerks -> ClerkStates]
      /\ clerk'[c] = next
      /\ \A d \in Clerks \ {c} : clerk'[d] = clerk[d]
  BY <1>2, <1>3, ClerkMoves DEF KeyInv
<1>5. /\ access' = [access EXCEPT ![e.repo].whole = FALSE]
      /\ UNCHANGED <<lines, wanted, dashboard, mixed, session, clerkCount, clerkFaults>>
  BY DEF CutAccess
<1>6. /\ access' \in [ScopedRepos -> [whole : BOOLEAN, grants : Grants]]
      /\ \A r \in ScopedRepos : access'[r].whole => access[r].whole /\ access'[r] = access[r]
  BY <1>1, <1>5 DEF KeyInv, KeyAccessTypeOK
<1>7. KeyAccessTypeOK'
  BY <1>4, <1>5, <1>6 DEF KeyInv, KeyAccessTypeOK
<1>8. Courses'
  BY <1>1, <1>2, <1>4, <1>5 DEF KeyInv, Courses
<1>9. ASSUME ~mixed' PROVE InStep'
  <2>1. InStep
    BY <1>5, <1>9 DEF KeyInv
  <2>2. Alone'
    BY <1>1, <1>4, <2>1 DEF InStep, Alone, ActiveClerks
  <2>3. NoneAround' /\ GrantsAgree'
    BY <1>5, <1>6, <2>1 DEF InStep, NoneAround, GrantsAgree
  <2>4. CopyAgrees'
    BY <1>1, <1>2, <1>4, <1>5, <2>1 DEF InStep, CopyAgrees
  <2>5. SeenAgrees'
    BY <1>1, <1>2, <1>4, <1>5, <2>1 DEF InStep, SeenAgrees
  <2> QED
    BY <2>2, <2>3, <2>4, <2>5 DEF InStep
<1> QED
  BY <1>5, <1>7, <1>8, <1>9 DEF KeyInv, OnlyTheGranted

LEMMA FillStep ==
    ASSUME KeyInv, NEW c \in Clerks, FillAccess(c)
    PROVE  KeyInv'
<1> DEFINE e == clerk[c]
           next == IF e.op = "migrate" THEN [e EXCEPT !.at = "grants"] ELSE IdleClerk
           granted == [wanted[e.repo] EXCEPT ![e.key] = e.level]
<1>1. /\ e \in ClerkStates /\ e.at = "fill" /\ e.repo \in ScopedRepos /\ e.key \in SshKeys
      /\ e.copy \in Grants /\ e.level \in Levels
  BY DEF KeyInv, KeyAccessTypeOK, FillAccess, ClerkStates
<1>2. /\ next \in ClerkStates
      /\ \/ next.at = "idle"
         \/ next.at = "grants" /\ next.op = "migrate" /\ e.op = "migrate" /\ next.seen = e.seen
  <2>1. CASE e.op = "migrate"
    <3>1. next = [e EXCEPT !.at = "grants"]
      BY <2>1
    <3> HIDE DEF e, next
    <3> QED
      BY <1>1, <2>1, <3>1 DEF ClerkStates
  <2>2. CASE e.op # "migrate"
    BY <2>2, IdleState
  <2> QED
    BY <2>1, <2>2
<1>3. clerk' = [clerk EXCEPT ![c] = next]
  BY DEF FillAccess
<1> HIDE DEF next
<1>4. /\ clerk' \in [Clerks -> ClerkStates]
      /\ clerk'[c] = next
      /\ \A d \in Clerks \ {c} : clerk'[d] = clerk[d]
  BY <1>2, <1>3, ClerkMoves DEF KeyInv
<1>5. /\ access' = [access EXCEPT ![e.repo] = [whole |-> TRUE, grants |-> e.copy]]
      /\ wanted' = [wanted EXCEPT ![e.repo] = granted]
      /\ UNCHANGED <<lines, dashboard, mixed, session, clerkCount, clerkFaults>>
  BY DEF FillAccess
<1>6. wanted \in [ScopedRepos -> [SshKeys -> Levels]] /\ granted \in [SshKeys -> Levels]
  BY <1>1 DEF KeyInv, KeyAccessTypeOK, Grants
<1>7. /\ access' \in [ScopedRepos -> [whole : BOOLEAN, grants : Grants]]
      /\ access'[e.repo].grants = e.copy
      /\ \A r \in ScopedRepos \ {e.repo} : access'[r] = access[r]
  BY <1>1, <1>5 DEF KeyInv, KeyAccessTypeOK
<1>8. /\ wanted' \in [ScopedRepos -> Grants]
      /\ wanted'[e.repo] = granted
      /\ \A r \in ScopedRepos \ {e.repo} : wanted'[r] = wanted[r]
  BY <1>1, <1>5, <1>6 DEF Grants
<1>9. KeyAccessTypeOK'
  BY <1>4, <1>5, <1>7, <1>8 DEF KeyInv, KeyAccessTypeOK
<1>10. Courses'
  BY <1>2, <1>4, <1>5 DEF KeyInv, Courses, KeyOps
<1>11. ASSUME ~mixed' PROVE InStep'
  <2>1. InStep /\ \A d \in Clerks \ {c} : clerk'[d].at = "idle"
    BY <1>1, <1>4, <1>5, <1>11, UnderWay
  <2>2. e.copy = granted
    BY <1>1, <2>1 DEF InStep, CopyAgrees
  <2>3. Alone'
    BY <2>1 DEF Alone, ActiveClerks
  <2>4. NoneAround' /\ GrantsAgree'
    BY <1>5, <1>7, <1>8, <2>1, <2>2 DEF InStep, NoneAround, GrantsAgree
  <2>5. CopyAgrees'
    <3> SUFFICES ASSUME NEW d \in Clerks PROVE clerk'[d].at \notin {"save", "fill"}
      BY DEF CopyAgrees
    <3> QED
      BY <1>2, <1>4, <2>1
  <2>6. SeenAgrees'
    <3>1. ASSUME next.at # "idle" PROVE next.seen = lines
      BY <1>1, <1>2, <2>1, <3>1 DEF InStep, SeenAgrees
    <3> QED
      BY <1>2, <1>4, <1>5, <2>1, <3>1 DEF SeenAgrees
  <2> QED
    BY <2>3, <2>4, <2>5, <2>6 DEF InStep
<1> QED
  BY <1>5, <1>9, <1>10, <1>11 DEF KeyInv, OnlyTheGranted

\* A step on authorized_keys ends its request.
LEMMA LinesStep ==
    ASSUME KeyInv, NEW c \in Clerks, clerk[c].at # "idle", lines' \in [SshKeys -> LineForms],
           clerk' \in [Clerks -> ClerkStates], clerk'[c] = IdleClerk,
           \A d \in Clerks \ {c} : /\ clerk'[d].at = clerk[d].at /\ clerk'[d].op = clerk[d].op,
           UNCHANGED <<access, wanted, dashboard, mixed, session, clerkCount, clerkFaults>>,
           ~mixed => NoneAround'
    PROVE  KeyInv'
<1>1. KeyAccessTypeOK'
  BY DEF KeyInv, KeyAccessTypeOK
<1>2. Courses'
  BY IdleState DEF KeyInv, Courses
<1>3. ASSUME ~mixed' PROVE InStep'
  <2>1. InStep /\ \A d \in Clerks : clerk'[d].at = "idle"
    BY <1>3, UnderWay, IdleState
  <2>2. Alone' /\ CopyAgrees' /\ SeenAgrees'
    BY <2>1 DEF Alone, ActiveClerks, CopyAgrees, SeenAgrees
  <2>3. GrantsAgree'
    BY <2>1 DEF InStep, GrantsAgree
  <2> QED
    BY <1>3, <2>2, <2>3 DEF InStep
<1> QED
  BY <1>1, <1>2, <1>3 DEF KeyInv, OnlyTheGranted

LEMMA AppendStep ==
    ASSUME KeyInv, NEW c \in Clerks, AppendLine(c)
    PROVE  KeyInv'
<1>1. clerk[c].at = "append" /\ clerk[c].op = "add" /\ clerk[c].key \in SshKeys
  BY DEF AppendLine, KeyInv, Courses, KeyAccessTypeOK, ClerkStates
<1>2. dashboard \in {"plain", "scoped"}
  BY <1>1 DEF KeyInv, Courses, KeyOps, KeyAccessTypeOK
<1>3. lines' = lines \/ lines' = [lines EXCEPT ![clerk[c].key] = dashboard]
  BY DEF AppendLine
<1>4. lines' \in [SshKeys -> LineForms]
  BY <1>1, <1>2, <1>3 DEF KeyInv, KeyAccessTypeOK, LineForms
<1>5. /\ clerk' = [clerk EXCEPT ![c] = IdleClerk]
      /\ UNCHANGED <<access, wanted, dashboard, mixed, session, clerkCount, clerkFaults>>
  BY DEF AppendLine
<1>6. ~mixed => NoneAround'
  BY <1>1, <1>3, <1>5 DEF KeyInv, InStep, NoneAround, KeyAccessTypeOK
<1>7. /\ clerk' \in [Clerks -> ClerkStates] /\ clerk'[c] = IdleClerk
      /\ \A d \in Clerks \ {c} : clerk'[d] = clerk[d]
  BY <1>5, IdleState, ClerkMoves DEF KeyInv
<1> QED
  BY <1>1, <1>4, <1>5, <1>6, <1>7, LinesStep

LEMMA RenameStep ==
    ASSUME KeyInv, NEW c \in Clerks, RenameLines(c)
    PROVE  KeyInv'
<1> DEFINE e == clerk[c]
<1>1. e \in ClerkStates /\ e.at \in {"rename", "grants"}
  BY DEF RenameLines, KeyInv, KeyAccessTypeOK
<1>2. /\ lines' = Rewritten(e)
      /\ clerk' = [d \in Clerks |-> IF d = c THEN IdleClerk ELSE [clerk[d] EXCEPT !.open = FALSE]]
      /\ UNCHANGED <<access, wanted, dashboard, mixed, session, clerkCount, clerkFaults>>
  BY DEF RenameLines
<1>3. e.seen \in [SshKeys -> LineForms]
  BY <1>1 DEF ClerkStates
<1>4. /\ lines' \in [SshKeys -> LineForms]
      /\ \A k \in SshKeys : lines'[k] = "plain" => e.seen[k] = "plain"
  BY <1>2, <1>3 DEF Rewritten, LineForms
<1>5. ASSUME NEW d \in Clerks \ {c}
      PROVE  /\ clerk'[d] \in ClerkStates
             /\ clerk'[d].at = clerk[d].at /\ clerk'[d].op = clerk[d].op
  <2>1. clerk[d] \in ClerkStates
    BY DEF KeyInv, KeyAccessTypeOK
  <2>2. clerk'[d] = [clerk[d] EXCEPT !.open = FALSE]
    BY <1>2
  <2> QED
    BY <2>1, <2>2 DEF ClerkStates
<1>6. clerk'[c] = IdleClerk
  BY <1>2
<1>7. clerk' \in [Clerks -> ClerkStates]
  <2>1. \A d \in Clerks : clerk'[d] \in ClerkStates
    BY <1>5, <1>6, IdleState
  <2> QED
    BY <1>2, <2>1
<1>8. ~mixed => NoneAround'
  <2>1. ~mixed => e.seen = lines /\ NoneAround
    BY <1>1 DEF KeyInv, InStep, SeenAgrees
  <2> QED
    BY <1>2, <1>4, <2>1 DEF NoneAround
<1> QED
  BY <1>1, <1>2, <1>4, <1>5, <1>6, <1>7, <1>8, LinesStep

-----------------------------------------------------------------------------
(* The dashboard and sshd.                                                 *)

LEMMA DashboardStep ==
    ASSUME KeyInv, DashboardStops \/ \E mode \in {"plain", "scoped"} : DashboardStarts(mode)
    PROVE  KeyInv'
<1>1. UNCHANGED <<lines, access, wanted, clerk, mixed, session, clerkCount, clerkFaults>>
  BY DEF DashboardStops, DashboardStarts
<1>2. /\ dashboard' \in {"plain", "scoped", "down"}
      /\ dashboard' = "scoped" => \A k \in SshKeys : lines[k] # "plain"
      /\ dashboard' = "down" => \A c \in ActiveClerks : clerk[c].op \notin KeyOps
  BY DEF DashboardStops, DashboardStarts
<1>3. KeyAccessTypeOK'
  BY <1>1, <1>2 DEF KeyInv, KeyAccessTypeOK
<1>4. Courses'
  BY <1>1, <1>2 DEF KeyInv, Courses, ActiveClerks
<1>5. ~mixed' => InStep'
  BY <1>1, <1>2 DEF KeyInv, InStep, Alone, ActiveClerks, NoneAround, GrantsAgree, CopyAgrees,
                    SeenAgrees
<1> QED
  BY <1>1, <1>3, <1>4, <1>5 DEF KeyInv, OnlyTheGranted

LEMMA ConnectStep ==
    ASSUME KeyInv, NEW k \in SshKeys, NEW r \in ScopedRepos, NEW write \in BOOLEAN,
           Connect(k, r, write)
    PROVE  KeyInv'
<1>1. UNCHANGED <<lines, access, wanted, dashboard, clerk, mixed, clerkCount, clerkFaults>>
  BY DEF Connect
<1>2. PICK allowed \in BOOLEAN, was \in BOOLEAN, scoped \in BOOLEAN :
        /\ session' = [allowed |-> allowed, wanted |-> was, scoped |-> scoped]
        /\ allowed <=> \/ lines[k] = "plain"
                       \/ access[r].whole /\ Allows(access[r].grants, k, write)
        /\ was <=> Allows(wanted[r], k, write)
        /\ scoped <=> dashboard = "scoped"
  BY DEF Connect, Allows
<1>3. session' \in [allowed : BOOLEAN, wanted : BOOLEAN, scoped : BOOLEAN]
  BY <1>2
<1>4. OnlyTheGranted'
  <2> SUFFICES ASSUME session'.scoped, session'.allowed, ~mixed PROVE session'.wanted
    BY <1>1 DEF OnlyTheGranted
  <2>1. InStep /\ allowed /\ scoped
    BY <1>2 DEF KeyInv
  <2>2. lines[k] # "plain"
    BY <1>2, <2>1 DEF InStep, NoneAround
  <2>3. access[r].whole /\ access[r].grants = wanted[r]
    BY <1>2, <2>1, <2>2 DEF InStep, GrantsAgree
  <2> QED
    BY <1>2, <2>1, <2>2, <2>3
<1>5. KeyAccessTypeOK' /\ Courses'
  BY <1>1, <1>3 DEF KeyInv, KeyAccessTypeOK, Courses
<1>6. ~mixed' => InStep'
  BY <1>1 DEF KeyInv, InStep, Alone, ActiveClerks, NoneAround, GrantsAgree, CopyAgrees, SeenAgrees
<1> QED
  BY <1>4, <1>5, <1>6 DEF KeyInv

LEMMA KeyInvStep == ASSUME KeyInv, [KeyAccessNext]_keyVars PROVE KeyInv'
<1>1. CASE UNCHANGED keyVars
  BY <1>1 DEF keyVars, KeyInv, KeyAccessTypeOK, Courses, InStep, Alone, ActiveClerks, NoneAround,
              GrantsAgree, CopyAgrees, SeenAgrees, OnlyTheGranted
<1>2. ASSUME NEW c \in Clerks, NEW op \in KeyOps \cup GrantOps \cup {"migrate"},
             NEW k \in SshKeys, NEW r \in ScopedRepos, NEW level \in Levels,
             StartClerk(c, op, k, r, level)
      PROVE  KeyInv'
  BY <1>2, StartStep
<1>3. IdleClerk.key \in SshKeys /\ IdleClerk.repo \in ScopedRepos
  BY IdleState DEF ClerkStates
<1>4. {"none", "read", "write"} = Levels
  BY DEF Levels
<1>5. "grant" \in GrantOps /\ "revoke" \in GrantOps
  BY DEF GrantOps
<1>6. CASE \E c \in Clerks : StartClerk(c, "migrate", IdleClerk.key, IdleClerk.repo, "write")
  BY <1>2, <1>3, <1>4, <1>6
<1>7. CASE \E c \in Clerks, k \in SshKeys, op \in KeyOps :
              StartClerk(c, op, k, IdleClerk.repo, "none")
  BY <1>2, <1>3, <1>4, <1>7
<1>8. CASE \E c \in Clerks, k \in SshKeys, r \in ScopedRepos :
              \/ \E level \in {"read", "write"} : StartClerk(c, "grant", k, r, level)
              \/ StartClerk(c, "revoke", k, r, "none")
  BY <1>2, <1>4, <1>5, <1>8
<1>9. CASE \E c \in Clerks : \/ LoadAccess(c) \/ NextGrant(c) \/ CutAccess(c) \/ FillAccess(c)
                             \/ ReadLines(c) \/ AppendLine(c) \/ RenameLines(c) \/ ClerkStops(c)
  BY <1>9, LoadStep, GrantStep, CutStep, FillStep, ReadStep, AppendStep, RenameStep, StopStep
<1>10. CASE DashboardStops \/ \E mode \in {"plain", "scoped"} : DashboardStarts(mode)
  BY <1>10, DashboardStep
<1>11. CASE \E k \in SshKeys, r \in ScopedRepos, write \in BOOLEAN : Connect(k, r, write)
  BY <1>11, ConnectStep
<1> QED
  BY <1>1, <1>6, <1>7, <1>8, <1>9, <1>10, <1>11, Zenon DEF KeyAccessNext

\* The key file, the grants and who works on them have their types.
THEOREM KeyTypeCorrect == KeyAccessSpec => []KeyAccessTypeOK
<1>1. KeyInv => KeyAccessTypeOK
  BY DEF KeyInv
<1>2. KeyInv /\ [KeyAccessNext]_keyVars => KeyInv'
  BY KeyInvStep
<1>3. KeyAccessInit => KeyInv
  BY KeyInvInit
<1> QED BY <1>1, <1>2, <1>3, PTL DEF KeyAccessSpec

\* In scoped mode the shell lets in whom the completed grants name, and nobody else.
THEOREM OnlyTheGrantedCorrect == KeyAccessSpec => []OnlyTheGranted
<1>1. KeyAccessInit => KeyInv
  BY KeyInvInit
<1>2. KeyInv /\ [KeyAccessNext]_keyVars => KeyInv'
  BY KeyInvStep
<1>3. KeyInv => OnlyTheGranted
  BY DEF KeyInv
<1> QED
  BY <1>1, <1>2, <1>3, PTL DEF KeyAccessSpec

-----------------------------------------------------------------------------
(* Removed keys.                                                           *)

ComesBackAdded ==
    \A k \in SshKeys :
        lines[k] = "none" /\ lines'[k] # "none"
            => mixed \/ \E c \in Clerks : clerk[c].op = "add" /\ clerk[c].key = k

LEMMA LinesMoves == ASSUME KeyInv, [KeyAccessNext]_keyVars PROVE ComesBackAdded
<1>1. CASE \E c \in Clerks : AppendLine(c)
  <2>1. PICK c \in Clerks : AppendLine(c)
    BY <1>1
  <2>2. clerk[c].op = "add" /\ clerk[c].key \in SshKeys /\ lines \in [SshKeys -> LineForms]
    BY <2>1 DEF AppendLine, KeyInv, Courses, KeyAccessTypeOK, ClerkStates
  <2>3. \A k \in SshKeys \ {clerk[c].key} : lines'[k] = lines[k]
    BY <2>1, <2>2 DEF AppendLine
  <2> QED
    BY <2>2, <2>3 DEF ComesBackAdded
<1>2. CASE \E c \in Clerks : RenameLines(c)
  <2>1. PICK c \in Clerks : RenameLines(c)
    BY <1>2
  <2>2. ~mixed => clerk[c].seen = lines
    BY <2>1 DEF RenameLines, KeyInv, InStep, SeenAgrees
  <2>3. \A k \in SshKeys : clerk[c].seen[k] = "none" => lines'[k] = "none"
    BY <2>1 DEF RenameLines, Rewritten
  <2> QED
    BY <2>2, <2>3 DEF ComesBackAdded
<1>3. CASE UNCHANGED lines
  BY <1>3 DEF ComesBackAdded
<1>4. \/ UNCHANGED lines
      \/ \E c \in Clerks : AppendLine(c) \/ RenameLines(c)
  BY DEF KeyAccessNext, StartClerk, LoadAccess, NextGrant, CutAccess, FillAccess, ReadLines,
         ClerkStops, DashboardStops, DashboardStarts, Connect, keyVars
<1> QED
  BY <1>1, <1>2, <1>3, <1>4

\* A removed key comes back only by an addition, unless requests overlapped.
THEOREM RemovedStaysOutCorrect == KeyAccessSpec => RemovedStaysOut
<1>1. KeyAccessInit => KeyInv
  BY KeyInvInit
<1>2. KeyInv /\ [KeyAccessNext]_keyVars => KeyInv'
  BY KeyInvStep
<1>3. KeyInv /\ [KeyAccessNext]_keyVars => [ComesBackAdded]_keyVars
  BY LinesMoves
<1> QED
  BY <1>1, <1>2, <1>3, PTL DEF KeyAccessSpec, RemovedStaysOut, ComesBackAdded

-----------------------------------------------------------------------------
(* `gateway doctor`.  What a host and a report look like.                  *)

HostShape(h) ==
    /\ h = [f \in HostFacts |-> h[f]]
    /\ h["runAs"] \in {"root", "git"}
    /\ h["socket"] \in Sockets
    /\ h["modes"] \in [SharedFiles -> Modes]

ReportShape(r) ==
    /\ r = [pc |-> r.pc, complaints |-> r.complaints, upstream |-> r.upstream, push |-> r.push,
            fixes |-> r.fixes, account |-> r.account, kept |-> r.kept, unseen |-> r.unseen,
            since |-> r.since, until |-> r.until]
    /\ r.since \in Nat /\ r.until \in Nat

RepairShape == repair = [st |-> repair.st, account |-> repair.account, wanted |-> repair.wanted,
                         hopeless |-> repair.hopeless]

LEMMA EditFacts ==
    ASSUME DoctorAssumption, HostShape(host), NEW fact \in DOMAIN Alternatives, NEW value \in Alternatives[fact],
           EditHost(fact, value)
    PROVE  /\ HostShape(host')
           /\ host'.runAs = host.runAs
           /\ fact # "active" => host'.active = host.active
           /\ fact # "modes" => host'.modes = host.modes
           /\ fact # "push" => host'.push = host.push
           /\ fact # "whitelist" => host'.whitelist = host.whitelist
<1>1. fact \in HostFacts \ {"runAs"}
  BY DEF DoctorAssumption
<1>2. host' = [f \in HostFacts |-> IF f = fact THEN value ELSE host[f]]
  BY <1>1 DEF EditHost, HostShape
<1>3. host'["runAs"] = host["runAs"] /\ \A f \in HostFacts \ {fact} : host'[f] = host[f]
  BY <1>1, <1>2 DEF HostFacts
<1>4. HostShape(host')
  <2>1. fact = "socket" => value \in Sockets
    BY DEF DoctorAssumption
  <2>2. fact = "modes" => value \in [SharedFiles -> Modes]
    BY DEF DoctorAssumption
  <2>3. host' = [f \in HostFacts |-> host'[f]]
    BY <1>2
  <2>4. {"runAs", "socket", "modes"} \subseteq HostFacts
    BY DEF HostFacts
  <2>5. host'["socket"] = (IF fact = "socket" THEN value ELSE host["socket"])
    BY <1>2, <2>4
  <2>6. host'["modes"] = (IF fact = "modes" THEN value ELSE host["modes"])
    BY <1>2, <2>4
  <2> QED
    BY <1>3, <2>1, <2>2, <2>3, <2>5, <2>6 DEF HostShape
<1>5. {"active", "modes", "push", "whitelist"} \subseteq HostFacts
  BY DEF HostFacts
<1> QED
  BY <1>3, <1>4, <1>5

-----------------------------------------------------------------------------
(* The parts of a promise, each with the facts it rests on. *)

RefsPart == RefsLine = "OK"
PolicyPart == Reads("toml", host.runAs) /\ host.parses
ListPart == WhitelistLine \in {"OK", "INFO"}
PushPart == host.push = report.push
StatusPart == RelayLine(report.push) \in {"OK", "INFO"}

LEMMA PartsRest ==
    ASSUME DoctorAssumption, HostShape(host), NEW fact \in DOMAIN Alternatives, NEW value \in Alternatives[fact],
           EditHost(fact, value), report'.push = report.push
    PROVE  /\ fact \notin {"refs", "gateAll"} => (RefsPart' <=> RefsPart)
           /\ fact \notin {"parses", "modes"} => (PolicyPart' <=> PolicyPart)
           /\ fact \notin {"whitelist", "frames"} => (ListPart' <=> ListPart)
           /\ fact # "status" => (StatusPart' <=> StatusPart)
           /\ fact # "active" => (host'.active <=> host.active)
           /\ fact # "push" => (PushPart' <=> PushPart)
<1>1. fact \in HostFacts \ {"runAs"}
  BY DEF DoctorAssumption
<1>2. host' = [f \in HostFacts |-> IF f = fact THEN value ELSE host[f]]
  BY <1>1 DEF EditHost, HostShape
<1>3. host'["runAs"] = host["runAs"] /\ \A f \in HostFacts \ {fact} : host'[f] = host[f]
  BY <1>1, <1>2 DEF HostFacts
<1>4. /\ fact # "refs" => host'.refs = host.refs
      /\ fact # "gateAll" => host'.gateAll = host.gateAll
      /\ fact # "parses" => host'.parses = host.parses
      /\ fact # "modes" => host'.modes = host.modes
      /\ fact # "whitelist" => host'.whitelist = host.whitelist
      /\ fact # "frames" => host'.frames = host.frames
      /\ fact # "status" => host'.status = host.status
      /\ fact # "active" => host'.active = host.active
      /\ fact # "push" => host'.push = host.push
      /\ host'.runAs = host.runAs
  BY <1>3 DEF HostFacts
<1>5. fact \notin {"refs", "gateAll"} => (RefsPart' <=> RefsPart)
  BY <1>4 DEF RefsPart, RefsLine, IsGated
<1>6. fact \notin {"parses", "modes"} => (PolicyPart' <=> PolicyPart)
  BY <1>4 DEF PolicyPart, Reads, Access
<1>7. fact \notin {"whitelist", "frames"} => (ListPart' <=> ListPart)
  BY <1>4 DEF ListPart, WhitelistLine
<1>8. fact # "status" => (StatusPart' <=> StatusPart)
  BY <1>4 DEF StatusPart, RelayLine, Recovered
<1> QED
  BY <1>4, <1>5, <1>6, <1>7, <1>8 DEF PushPart

\* Together the parts are the promise, or what the report overlooks.
LEMMA GatedParts == ASSUME HostShape(host), host.active, RefsPart PROVE Kept("gated") \/ Overlooked("gated")
<1>1. host.gateAll \/ "refs/heads/*" \in host.refs \/ "refs/heads/agent/*" \in host.refs
  BY DEF RefsPart, RefsLine, IsGated, PatternMatches
<1>2. host.gateAll \/ "refs/heads/*" \in host.refs => \A b \in Nested : IsGated(b)
  BY DEF IsGated, PatternMatches
<1> QED
  BY <1>1, <1>2 DEF Kept, Overlooked

LEMMA AdmitsParts ==
    ASSUME HostShape(host), host.active, PolicyPart, ListPart PROVE Kept("admits") \/ Overlooked("admits")
<1>1. host.runAs \in {"root", "git"}
  BY DEF HostShape
<1>2. \/ Reads("toml", "git")
      \/ /\ host.runAs = "root"
         /\ ~Reads("toml", "git")
  BY <1>1 DEF PolicyPart
<1>3. host.whitelist \in {"none", "builtin", "linter", "project"}
  BY DEF ListPart, WhitelistLine
<1> QED
  BY <1>2, <1>3 DEF Kept, Overlooked, Admits, PolicyPart

LEMMA QuietParts == ASSUME PushPart, StatusPart PROVE Kept("quiet")
BY DEF PushPart, StatusPart, RelayLine, Kept

LEMMA RunsPart == ASSUME FramesLine = "OK" PROVE Kept("runs") \/ Overlooked("runs")
BY DEF FramesLine, Kept, Overlooked, Selection, DeadEntries

DeliversBare == host.active /\ AccessLine = "OK"
DeliversPolicy == PolicyPart /\ UpstreamLine = "OK" /\ LocalLine = "OK" /\ report.upstream = host.upstream
DeliversStored == CredentialLine \in {"OK", "INFO"}

LEMMA DeliversParts ==
    ASSUME HostShape(host), DeliversBare, DeliversPolicy, DeliversStored
    PROVE  Kept("delivers") \/ Overlooked("delivers")
<1>1. host.socket \in {"live", "none"} /\ host.runAs \in {"root", "git"} /\ RelayAccount \in {"relay", "nobody"}
  BY DEF HostShape, Sockets, DeliversBare, AccessLine, RelayAccount
<1>2. "relay" \in Carriers => RelayAccount = "relay"
  BY <1>1 DEF Carriers, RelayAccount
<1>3. RelayAccount = "relay" => Denied("relay") = {}
  BY DEF DeliversBare, AccessLine
<1>4. ASSUME RelayAccount = "relay" PROVE Reads("toml", "relay") /\ (host.stored => Reads("credential", "relay"))
  <2>1. \A f \in SharedFiles : (f = "credential" => host.stored) => Needs[f] \subseteq Access(f, "relay")
    BY <1>3, <1>4 DEF Denied
  <2>2. Needs["dir"] = {"w", "x"} /\ Needs["toml"] = {"r"} /\ Needs["credential"] = {"r"}
    BY DEF Needs
  <2>3. "x" \in Access("dir", "relay") /\ "r" \in Access("toml", "relay")
    BY <2>1, <2>2 DEF SharedFiles
  <2>4. host.stored => "r" \in Access("credential", "relay")
    BY <2>1, <2>2 DEF SharedFiles
  <2> QED
    BY <2>3, <2>4 DEF Reads
<1>5. /\ host.upstream \in {"https", "ssh", "local"}
      /\ host.upstream = "local" => host.upstreamThere
  BY DEF DeliversPolicy, UpstreamLine
<1>6. host.upstream = "https" => host.stored /\ Reads("credential", host.runAs)
  BY DEF DeliversPolicy, DeliversStored, CredentialLine
<1>7. ASSUME host.upstream = "local" PROVE MayUse("git") /\ (RelayAccount = "relay" => MayUse("relay"))
  <2>1. \A who \in {"git", RelayAccount} \cap Services : MayUse(who)
    BY <1>5, <1>7 DEF DeliversPolicy, LocalLine
  <2> QED
    BY <2>1 DEF Services
<1>8. "relay" \in Carriers => CanDeliver("relay")
  BY <1>2, <1>4, <1>5, <1>6, <1>7 DEF CanDeliver, Remote, DeliversPolicy, PolicyPart
<1>9. ASSUME Reads("toml", "git"), host.upstream = "https" => Reads("credential", "git") PROVE CanDeliver("git")
  BY <1>5, <1>6, <1>7, <1>9 DEF CanDeliver, Remote, DeliversPolicy, PolicyPart
<1>10. Carriers \subseteq {"git", "relay"}
  BY DEF Carriers
<1>11. CASE host.runAs = "git"
  <2>1. Reads("toml", "git") /\ (host.upstream = "https" => Reads("credential", "git"))
    BY <1>6, <1>11 DEF DeliversPolicy, PolicyPart
  <2> QED
    BY <1>1, <1>8, <1>9, <1>10, <2>1 DEF Kept, DeliversBare
<1>12. CASE host.runAs = "root"
  <2>1. CASE Reads("toml", "git") /\ Reads("credential", "git")
    BY <1>1, <1>8, <1>9, <1>10, <2>1 DEF Kept, DeliversBare
  <2>2. CASE ~(Reads("toml", "git") /\ Reads("credential", "git")) /\ "git" \in Carriers
    BY <1>12, <2>2 DEF Overlooked
  <2>3. CASE "git" \notin Carriers
    BY <1>1, <1>8, <1>10, <2>3 DEF Kept, DeliversBare
  <2> QED
    BY <2>1, <2>2, <2>3
<1> QED
  BY <1>1, <1>11, <1>12

-----------------------------------------------------------------------------
(* The invariant.                                                          *)

Stages == {"none", "bare", "policy", "credential", "frames", "whitelist", "linters", "relay", "done"}

ReportSound ==
    /\ HostShape(host) /\ ReportShape(report) /\ RepairShape
    /\ report.pc \in Stages
    /\ report.complaints \subseteq ReportLines \X {"FAIL", "WARN"}
    /\ report.kept \subseteq Promises /\ report.unseen \subseteq Promises
    /\ report.since <= report.until /\ report.until <= hostEdits
    /\ hostEdits \in Nat /\ hostEdits <= MaxHostEdits
    /\ repair.wanted \subseteq SharedFiles

\* While a report is put together, what holds is written down.
Noted ==
    InProgress => \A p \in Promises : /\ Kept(p) => p \in report.kept
                                      /\ Overlooked(p) => p \in report.unseen

\* Of the parts of a promise, those the report has read hold until a fact changes.  After one
\* change either they still hold or, if the others do, all held before it.
Foreseen(p, seen, unread) ==
    /\ hostEdits = report.since => seen
    /\ hostEdits = report.since + 1 =>
          \/ seen
          \/ unread => p \in report.kept \cup report.unseen

Past(pcs) == InProgress /\ report.complaints = {} /\ report.pc \notin pcs

Foresight ==
    /\ Past({}) => "reach" \in report.kept /\ Foreseen("quiet", PushPart, StatusPart)
    /\ report.pc = "policy" /\ Past({}) => Foreseen("gated", host.active, RefsPart)
    /\ report.pc = "policy" /\ Past({}) => Foreseen("admits", host.active, PolicyPart /\ ListPart)
    /\ Past({"bare", "policy"}) => Foreseen("gated", host.active /\ RefsPart, TRUE)
    /\ Past({"bare", "policy", "linters", "relay"}) => Foreseen("admits", host.active /\ PolicyPart, ListPart)
    /\ Past({"bare", "policy", "credential", "frames"}) => "runs" \in report.kept \cup report.unseen
    /\ Past({"bare", "policy", "credential", "frames", "whitelist"}) =>
          Foreseen("admits", host.active /\ PolicyPart /\ ListPart, TRUE)
    /\ Past({"bare"}) /\ hostEdits = report.since => DeliversBare
    /\ Past({"bare", "policy"}) /\ hostEdits = report.since => DeliversPolicy
    /\ Past({"bare", "policy", "credential"}) /\ hostEdits = report.since => DeliversStored

\* The commands a finished report offers are for what is denied now, if nothing changed.
FixesFit ==
    report.fixes # {} /\ repair.st = "none" /\ report.since = hostEdits =>
       /\ report.account = "relay"
       /\ report.fixes = {[file |-> f, regroup |-> host.modes[f].group # "relay"] : f \in Denied("relay")}

DoctorInv == ReportSound /\ Noted /\ Foresight /\ FixesFit /\ CleanMeansServed /\ FixGrants

-----------------------------------------------------------------------------
(* What no step but an edit and a repair changes.                          *)

LEMMA SameHost ==
    ASSUME host' = host
    PROVE  /\ \A p \in Promises : (Kept(p)' <=> Kept(p)) /\ (Overlooked(p)' <=> Overlooked(p))
           /\ (RefsPart' <=> RefsPart) /\ (PolicyPart' <=> PolicyPart) /\ (ListPart' <=> ListPart)
           /\ (DeliversBare' <=> DeliversBare)
           /\ RelayAccount' = RelayAccount /\ Denied("relay")' = Denied("relay")
<1>1. \A f, who : Access(f, who)' = Access(f, who)
  BY DEF Access
<1>2. \A f, who : Reads(f, who)' <=> Reads(f, who)
  BY <1>1 DEF Reads
<1>3. \A b : IsGated(b)' <=> IsGated(b)
  BY DEF IsGated
<1>4. RefsLine' = RefsLine /\ WhitelistLine' = WhitelistLine /\ RelayAccount' = RelayAccount
  BY <1>3 DEF RefsLine, WhitelistLine, RelayAccount
<1>5. \A who : Denied(who)' = Denied(who)
  BY <1>1 DEF Denied
<1>6. AccessLine' = AccessLine
  BY <1>4, <1>5 DEF AccessLine
<1>7. \A who : MayUse(who)' <=> MayUse(who)
  BY DEF MayUse
<1>8. \A who : CanDeliver(who)' <=> CanDeliver(who)
  BY <1>2, <1>7 DEF CanDeliver
<1>9. Carriers' = Carriers /\ (Admits' <=> Admits) /\ (Recovered(host.push)' <=> Recovered(host.push))
  BY <1>2 DEF Carriers, Admits, Recovered
<1>10. \A p \in Promises : Kept(p)' <=> Kept(p)
  <2>1. /\ Kept("reach")' <=> Kept("reach")
        /\ Kept("gated")' <=> Kept("gated")
    BY <1>3 DEF Kept
  <2>2. /\ Kept("runs")' <=> Kept("runs")
        /\ Kept("admits")' <=> Kept("admits")
    BY <1>9 DEF Kept
  <2>3. Kept("delivers")' <=> Kept("delivers")
    BY <1>8, <1>9 DEF Kept
  <2>4. Kept("quiet")' <=> Kept("quiet")
    BY <1>9 DEF Kept
  <2> QED
    BY <2>1, <2>2, <2>3, <2>4 DEF Promises
<1>11. \A p \in Promises : Overlooked(p)' <=> Overlooked(p)
  <2>1. (Overlooked("gated")' <=> Overlooked("gated")) /\ (Overlooked("runs")' <=> Overlooked("runs"))
    BY DEF Overlooked
  <2>2. (Overlooked("admits")' <=> Overlooked("admits")) /\ (Overlooked("delivers")' <=> Overlooked("delivers"))
    BY <1>2, <1>9 DEF Overlooked
  <2>3. (Overlooked("reach")' <=> Overlooked("reach")) /\ (Overlooked("quiet")' <=> Overlooked("quiet"))
    BY DEF Overlooked
  <2> QED
    BY <2>1, <2>2, <2>3 DEF Promises
<1> QED
  BY <1>2, <1>4, <1>5, <1>6, <1>10, <1>11 DEF RefsPart, PolicyPart, ListPart, DeliversBare

LEMMA SamePush ==
    ASSUME host' = host, report'.push = report.push
    PROVE  (PushPart' <=> PushPart) /\ (StatusPart' <=> StatusPart)
BY DEF PushPart, StatusPart, RelayLine, Recovered

LEMMA SameUpstream ==
    ASSUME host' = host, report'.upstream = report.upstream
    PROVE  (DeliversPolicy' <=> DeliversPolicy) /\ (DeliversStored' <=> DeliversStored)
<1>1. (PolicyPart' <=> PolicyPart) /\ RelayAccount' = RelayAccount
  BY SameHost
<1>2. \A who : MayUse(who)' <=> MayUse(who)
  BY DEF MayUse
<1>3. UpstreamLine' = UpstreamLine /\ LocalLine' = LocalLine
  BY <1>1, <1>2 DEF UpstreamLine, LocalLine
<1>4. \A f, who : Reads(f, who)' <=> Reads(f, who)
  BY DEF Reads, Access
<1>5. CredentialLine' = CredentialLine
  BY <1>4 DEF CredentialLine
<1> QED
  BY <1>1, <1>3, <1>5 DEF DeliversPolicy, DeliversStored

-----------------------------------------------------------------------------
(* The lines.                                                              *)

LEMMA SaidOf ==
    ASSUME NEW n \in ReportLines, NEW v \in {"OK", "INFO", "WARN", "FAIL"}
    PROVE  /\ Said({<<n, v>>}) \subseteq ReportLines \X {"FAIL", "WARN"}
           /\ Said({<<n, v>>}) = {} => v \in {"OK", "INFO"}
<1> DEFINE line == <<n, v>>
<1>1. line[2] = v /\ (v \in {"FAIL", "WARN"} => line \in ReportLines \X {"FAIL", "WARN"})
  OBVIOUS
<1>2. Said({line}) = {l \in {line} : l[2] \in {"FAIL", "WARN"}}
  BY DEF Said
<1> HIDE DEF line
<1>3. Said({line}) \subseteq ReportLines \X {"FAIL", "WARN"}
  BY <1>1, <1>2
<1>4. v \in {"FAIL", "WARN"} => line \in Said({line})
  BY <1>1, <1>2
<1> QED
  BY <1>3, <1>4 DEF line

LEMMA SaidOfAll ==
    ASSUME NEW A, NEW B, Said(A \cup B) = {}
    PROVE  Said(A) = {} /\ Said(B) = {}
BY DEF Said

LEMMA LineValues ==
    /\ KeysLine \in {"OK", "INFO", "WARN", "FAIL"} /\ AccessLine \in {"OK", "INFO", "WARN", "FAIL"}
    /\ UpstreamLine \in {"OK", "INFO", "WARN", "FAIL"} /\ LocalLine \in {"OK", "INFO", "WARN", "FAIL"}
    /\ CredentialLine \in {"OK", "INFO", "WARN", "FAIL"} /\ RefsLine \in {"OK", "INFO", "WARN", "FAIL"}
    /\ FramesLine \in {"OK", "INFO", "WARN", "FAIL"} /\ WhitelistLine \in {"OK", "INFO", "WARN", "FAIL"}
    /\ LintersLine \in {"OK", "INFO", "WARN", "FAIL"} /\ RelayLine(report.push) \in {"OK", "INFO", "WARN", "FAIL"}
BY DEF KeysLine, AccessLine, UpstreamLine, LocalLine, CredentialLine, RefsLine, FramesLine, WhitelistLine, LintersLine, RelayLine

LEMMA ReadOnFields ==
    ASSUME ReportShape(report), hostEdits \in Nat, NEW from, NEW next, NEW told, ReadOn(from, next, told)
    PROVE  /\ ReportShape(report') /\ report'.pc = next
           /\ report'.complaints = report.complaints \cup Said(told)
           /\ report'.until = hostEdits /\ report'.since = report.since
           /\ report'.push = report.push /\ report'.upstream = report.upstream
           /\ report'.kept = report.kept /\ report'.unseen = report.unseen
           /\ report'.fixes = report.fixes /\ report'.account = report.account
           /\ report.pc = from
           /\ host' = host /\ repair' = repair /\ hostEdits' = hostEdits /\ reports' = reports
BY DEF ReadOn, ReportShape

-----------------------------------------------------------------------------
(* Every step keeps the invariant.                                         *)

LEMMA DoctorStart == ASSUME DoctorAssumption, DoctorInit PROVE DoctorInv
<1>1. ReportSound
  BY DEF DoctorAssumption, DoctorInit, ReportSound, HostShape, ReportShape, RepairShape, NoReport, NoRepair, Stages
<1>2. report.pc = "none" /\ report.fixes = {} /\ repair.st = "none"
  BY DEF DoctorInit, NoReport, NoRepair
<1> QED
  BY <1>1, <1>2 DEF DoctorInv, Noted, InProgress, Foresight, Past, FixesFit, CleanMeansServed, NoComplaint, FixGrants

LEMMA NotedStays ==
    ASSUME Noted, InProgress, host' = host, report'.kept = report.kept, report'.unseen = report.unseen
    PROVE  Noted'
BY SameHost DEF Noted

LEMMA FixesStay ==
    ASSUME FixesFit, FixGrants, host' = host, repair' = repair, hostEdits' = hostEdits,
           report'.fixes = report.fixes, report'.account = report.account, report'.since = report.since
    PROVE  FixesFit' /\ FixGrants'
<1>1. \A f, who : Access(f, who)' = Access(f, who)
  BY DEF Access
<1>2. Denied("relay")' = Denied("relay")
  BY SameHost
<1>3. FixGrants'
  <2> SUFFICES ASSUME repair.st = "followed", NEW f \in repair.wanted \ repair.hopeless
               PROVE  Needs[f] \subseteq Access(f, repair.account)'
    BY DEF FixGrants, Needs
  <2> QED
    BY <1>1 DEF FixGrants
<1> QED
  BY <1>2, <1>3 DEF FixesFit

LEMMA SoundStays ==
    ASSUME ReportSound, host' = host, repair' = repair, hostEdits' = hostEdits, ReportShape(report'),
           report'.pc \in Stages, NEW said \in SUBSET (ReportLines \X {"FAIL", "WARN"}),
           report'.complaints = report.complaints \cup said,
           report'.until = hostEdits, report'.since = report.since,
           report'.kept = report.kept, report'.unseen = report.unseen
    PROVE  ReportSound'
<1>1. report.since \in Nat /\ report.until \in Nat /\ hostEdits \in Nat
  BY DEF ReportSound, ReportShape
<1>2. report'.since <= report'.until /\ report'.until <= hostEdits'
  BY <1>1 DEF ReportSound
<1>3. HostShape(host')
  BY DEF ReportSound
<1>4. RepairShape'
  BY DEF ReportSound, RepairShape
<1> QED
  BY <1>2, <1>3, <1>4 DEF ReportSound

LEMMA BeginReportKeeps == ASSUME DoctorInv, BeginReport PROVE DoctorInv'
<1> USE DEF DoctorInv
<1>1. /\ report' = [pc |-> "bare", complaints |-> Said({<<"keys", KeysLine>>}), upstream |-> "none",
                    push |-> host.push, fixes |-> {}, account |-> "nobody",
                    kept |-> {p \in Promises : Kept(p)}, unseen |-> {p \in Promises : Overlooked(p)},
                    since |-> hostEdits, until |-> hostEdits]
      /\ repair' = NoRepair /\ host' = host /\ hostEdits' = hostEdits
  BY DEF BeginReport, NoReport
<1>2. ReportSound'
  <2>1. Said({<<"keys", KeysLine>>}) \subseteq ReportLines \X {"FAIL", "WARN"}
    BY SaidOf, LineValues DEF ReportLines
  <2>2. ReportShape(report') /\ RepairShape'
    BY <1>1 DEF ReportSound, ReportShape, RepairShape, NoRepair
  <2>3. /\ report'.pc \in Stages /\ repair'.wanted \subseteq SharedFiles
        /\ report'.complaints = Said({<<"keys", KeysLine>>})
        /\ report'.kept \subseteq Promises /\ report'.unseen \subseteq Promises
        /\ report'.since = hostEdits /\ report'.until = hostEdits
    BY <1>1 DEF Stages, NoRepair
  <2>4. /\ HostShape(host') /\ hostEdits' \in Nat /\ hostEdits' <= MaxHostEdits
        /\ report'.since <= report'.until /\ report'.until <= hostEdits'
    BY <1>1, <2>3 DEF ReportSound
  <2> QED
    BY <2>1, <2>2, <2>3, <2>4 DEF ReportSound
<1>3. Noted'
  BY <1>1, SameHost DEF Noted
<1>4. Foresight'
  <2>1. ASSUME Past({})' PROVE "reach" \in report'.kept /\ Foreseen("quiet", PushPart, StatusPart)'
    <3>1. KeysLine \in {"OK", "INFO"}
      BY <1>1, <2>1, SaidOf, LineValues DEF Past, ReportLines
    <3>2. Kept("reach")
      BY <3>1 DEF KeysLine, Kept
    <3> QED
      BY <1>1, <3>2 DEF Promises, Foreseen, PushPart, ReportSound
  <2>2. report'.pc = "bare"
    BY <1>1
  <2> QED
    BY <2>1, <2>2 DEF Foresight, Past
<1>5. FixesFit' /\ CleanMeansServed' /\ FixGrants'
  BY <1>1 DEF FixesFit, CleanMeansServed, NoComplaint, FixGrants, NoRepair
<1> QED
  BY <1>2, <1>3, <1>4, <1>5

LEMMA CheckBareKeeps == ASSUME DoctorInv, CheckBare PROVE DoctorInv'
<1> USE DEF DoctorInv
<1>1. PICK said, account, fixes :
        /\ report' = [report EXCEPT !.pc = "policy", !.until = hostEdits, !.complaints = @ \cup said,
                                    !.account = account, !.fixes = fixes]
        /\ said = IF host.active
                  THEN Said({<<"access", AccessLine>>, <<"objects", IF host.fsck THEN "OK" ELSE "WARN">>})
                  ELSE {<<"bare", "FAIL">>}
        /\ account = IF host.active THEN RelayAccount ELSE report.account
        /\ fixes = IF host.active /\ RelayAccount = "relay"
                   THEN {[file |-> f, regroup |-> host.modes[f].group # "relay"] : f \in Denied("relay")}
                   ELSE {}
  BY DEF CheckBare
<1>2. /\ report.pc = "bare" /\ host' = host /\ repair' = repair /\ hostEdits' = hostEdits
  BY DEF CheckBare
<1>3. /\ report'.pc = "policy" /\ report'.complaints = report.complaints \cup said /\ report'.until = hostEdits
      /\ report'.since = report.since /\ report'.push = report.push
      /\ report'.kept = report.kept /\ report'.unseen = report.unseen
      /\ report'.account = account /\ report'.fixes = fixes
      /\ ReportShape(report')
  BY <1>1 DEF ReportSound, ReportShape
<1>4. said \subseteq ReportLines \X {"FAIL", "WARN"}
  <2>1. Said({<<"access", AccessLine>>, <<"objects", IF host.fsck THEN "OK" ELSE "WARN">>})
          \subseteq ReportLines \X {"FAIL", "WARN"}
    BY LineValues DEF Said, ReportLines
  <2>2. {<<"bare", "FAIL">>} \subseteq ReportLines \X {"FAIL", "WARN"}
    BY DEF ReportLines
  <2>3. CASE host.active
    BY <1>1, <2>1, <2>3
  <2>4. CASE ~host.active
    BY <1>1, <2>2, <2>4
  <2> QED
    BY <2>3, <2>4
<1>5. ReportSound'
  BY <1>2, <1>3, <1>4, SoundStays DEF Stages
<1>6. Noted'
  BY <1>2, <1>3, NotedStays DEF InProgress
<1>7. Foresight'
  <2>1. ASSUME said = {} PROVE DeliversBare
    <3>1. host.active
      BY <1>1, <2>1
    <3>2. Said({<<"access", AccessLine>>} \cup {<<"objects", IF host.fsck THEN "OK" ELSE "WARN">>}) = {}
      <4>1. {<<"access", AccessLine>>} \cup {<<"objects", IF host.fsck THEN "OK" ELSE "WARN">>} =
              {<<"access", AccessLine>>, <<"objects", IF host.fsck THEN "OK" ELSE "WARN">>}
        OBVIOUS
      <4> QED
        BY <1>1, <2>1, <3>1, <4>1
    <3>3. Said({<<"access", AccessLine>>}) = {}
      BY <3>2, SaidOfAll
    <3>4. AccessLine \in {"OK", "INFO"}
      BY <3>3, SaidOf, LineValues DEF ReportLines
    <3> QED
      BY <3>1, <3>4 DEF DeliversBare, AccessLine
  <2>2. ASSUME Past({})'
        PROVE  /\ "reach" \in report'.kept /\ Foreseen("quiet", PushPart, StatusPart)'
               /\ Foreseen("gated", host.active, RefsPart)'
               /\ Foreseen("admits", host.active, PolicyPart /\ ListPart)'
               /\ DeliversBare'
    <3>1. report.complaints = {} /\ said = {}
      BY <1>3, <2>2 DEF Past
    <3>2. Past({})
      BY <1>2, <3>1 DEF Past, InProgress
    <3>3. "reach" \in report.kept /\ Foreseen("quiet", PushPart, StatusPart)
      BY <3>2 DEF Foresight
    <3>4. DeliversBare /\ DeliversBare'
      BY <1>2, <2>1, <3>1, SameHost
    <3>5. host'.active
      BY <3>4 DEF DeliversBare
    <3>6. Foreseen("quiet", PushPart, StatusPart)'
      BY <1>2, <1>3, <3>3, SamePush DEF Foreseen
    <3> QED
      BY <1>3, <3>3, <3>4, <3>5, <3>6 DEF Foreseen
  <2>3. report'.pc = "policy" 
    BY <1>3
  <2> QED
    BY <2>2, <2>3 DEF Foresight, Past
<1>8. FixesFit'
  <2>1. ASSUME fixes # {} PROVE host.active /\ RelayAccount = "relay"
    BY <1>1, <2>1
  <2>2. ASSUME fixes # {}
        PROVE  /\ account = "relay"
               /\ fixes = {[file |-> f, regroup |-> host'.modes[f].group # "relay"] : f \in Denied("relay")'}
    BY <1>1, <1>2, <2>1, <2>2, SameHost
  <2> QED
    BY <1>3, <2>2 DEF FixesFit
<1>9. FixGrants'
  <2>1. \A f, who : Access(f, who)' = Access(f, who)
    BY <1>2 DEF Access
  <2> QED
    BY <1>2, <2>1 DEF FixGrants
<1>10. CleanMeansServed'
  BY <1>3 DEF CleanMeansServed, NoComplaint
<1> QED
  BY <1>5, <1>6, <1>7, <1>8, <1>9, <1>10

\* A step that reads on, with what came of the promises so far.
LEMMA ReadOnStays ==
    ASSUME DoctorInv, ReportShape(report'), report'.pc \in Stages \ {"none", "bare"}, InProgress,
           NEW said \in SUBSET (ReportLines \X {"FAIL", "WARN"}),
           report'.complaints = report.complaints \cup said,
           report'.until = hostEdits, report'.since = report.since, report'.push = report.push,
           report'.kept = report.kept, report'.unseen = report.unseen,
           report'.fixes = report.fixes, report'.account = report.account,
           host' = host, repair' = repair, hostEdits' = hostEdits
    PROVE  /\ ReportSound' /\ Noted' /\ FixesFit' /\ FixGrants'
           /\ report'.complaints = {} => said = {} /\ Past({})
           /\ Past({}) => "reach" \in report'.kept /\ Foreseen("quiet", PushPart, StatusPart)'
<1> USE DEF DoctorInv
<1>1. ReportSound'
  BY SoundStays
<1>2. Noted' /\ FixesFit' /\ FixGrants'
  BY NotedStays, FixesStay
<1>3. report'.complaints = {} => said = {} /\ Past({})
  BY DEF Past
<1>4. ASSUME Past({}) PROVE "reach" \in report'.kept /\ Foreseen("quiet", PushPart, StatusPart)'
  BY <1>4, SamePush DEF Foresight, Foreseen
<1> QED
  BY <1>1, <1>2, <1>3, <1>4

LEMMA LoadPolicyLinesKeeps == ASSUME DoctorInv, LoadPolicyLines PROVE DoctorInv'
<1> USE DEF DoctorInv
<1>1. report.pc = "policy" /\ host' = host /\ repair' = repair /\ hostEdits' = hostEdits /\ InProgress
  BY DEF LoadPolicyLines, InProgress
<1>2. CASE ~(Reads("toml", host.runAs) /\ host.parses)
  <2>1. report' = [report EXCEPT !.pc = "done", !.until = hostEdits, !.complaints = @ \cup {<<"policy", "FAIL">>}]
    BY <1>2 DEF LoadPolicyLines
  <2>2. /\ ReportShape(report') /\ report'.pc = "done"
        /\ report'.complaints = report.complaints \cup {<<"policy", "FAIL">>}
        /\ report'.until = hostEdits /\ report'.since = report.since /\ report'.push = report.push
        /\ report'.kept = report.kept /\ report'.unseen = report.unseen
        /\ report'.fixes = report.fixes /\ report'.account = report.account
    BY <2>1 DEF ReportSound, ReportShape
  <2>3. {<<"policy", "FAIL">>} \in SUBSET (ReportLines \X {"FAIL", "WARN"}) /\ report'.pc \in Stages \ {"none", "bare"}
    BY <2>2 DEF ReportLines, Stages
  <2>4. ReportSound' /\ Noted' /\ FixesFit' /\ FixGrants'
    BY <1>1, <2>2, <2>3, ReadOnStays
  <2>5. Foresight' /\ CleanMeansServed'
    BY <2>2 DEF Foresight, Past, InProgress, CleanMeansServed, NoComplaint
  <2> QED
    BY <2>4, <2>5
<1>3. CASE Reads("toml", host.runAs) /\ host.parses
  <2> DEFINE said == Said({<<"upstream", UpstreamLine>>, <<"local", LocalLine>>, <<"refs", RefsLine>>})
  <2>1. report' = [report EXCEPT !.pc = "credential", !.until = hostEdits, !.upstream = host.upstream,
                                !.complaints = @ \cup said]
    BY <1>3 DEF LoadPolicyLines
  <2>2. said \in SUBSET (ReportLines \X {"FAIL", "WARN"})
    BY LineValues DEF Said, ReportLines
  <2>3. ASSUME said = {} PROVE UpstreamLine \in {"OK", "INFO"} /\ LocalLine \in {"OK", "INFO"} /\ RefsLine \in {"OK", "INFO"}
    <3>1. {<<"upstream", UpstreamLine>>, <<"local", LocalLine>>, <<"refs", RefsLine>>} =
            {<<"upstream", UpstreamLine>>} \cup ({<<"local", LocalLine>>} \cup {<<"refs", RefsLine>>})
      OBVIOUS
    <3>2. Said({<<"upstream", UpstreamLine>>} \cup ({<<"local", LocalLine>>} \cup {<<"refs", RefsLine>>})) = {}
      BY <2>3, <3>1
    <3>3. Said({<<"upstream", UpstreamLine>>}) = {} /\ Said({<<"local", LocalLine>>} \cup {<<"refs", RefsLine>>}) = {}
      BY <3>2, SaidOfAll
    <3>4. Said({<<"local", LocalLine>>}) = {} /\ Said({<<"refs", RefsLine>>}) = {}
      BY <3>3, SaidOfAll
    <3> QED
      BY <3>3, <3>4, SaidOf, LineValues DEF ReportLines
  <2> HIDE DEF said
  <2>4. /\ ReportShape(report') /\ report'.pc = "credential"
        /\ report'.complaints = report.complaints \cup said /\ report'.upstream = host.upstream
        /\ report'.until = hostEdits /\ report'.since = report.since /\ report'.push = report.push
        /\ report'.kept = report.kept /\ report'.unseen = report.unseen
        /\ report'.fixes = report.fixes /\ report'.account = report.account
    BY <2>1 DEF ReportSound, ReportShape
  <2>5. report'.pc \in Stages \ {"none", "bare"}
    BY <2>4 DEF Stages
  <2>6. /\ ReportSound' /\ Noted' /\ FixesFit' /\ FixGrants'
        /\ report'.complaints = {} => said = {} /\ Past({})
        /\ Past({}) => "reach" \in report'.kept /\ Foreseen("quiet", PushPart, StatusPart)'
    BY <1>1, <2>2, <2>4, <2>5, ReadOnStays
  <2>7. ASSUME report'.complaints = {}
        PROVE  /\ Foreseen("gated", host.active /\ RefsPart, TRUE)'
               /\ Foreseen("admits", host.active /\ PolicyPart, ListPart)'
               /\ hostEdits' = report'.since => DeliversBare' /\ DeliversPolicy'
    <3>1. said = {} /\ Past({})
      BY <2>6, <2>7
    <3>2. /\ Foreseen("gated", host.active, RefsPart)
          /\ Foreseen("admits", host.active, PolicyPart /\ ListPart)
          /\ hostEdits = report.since => DeliversBare
      BY <1>1, <3>1 DEF Foresight, Past
    <3>3. RefsPart /\ PolicyPart /\ UpstreamLine = "OK" /\ LocalLine = "OK"
      BY <1>3, <2>3, <3>1 DEF RefsPart, RefsLine, PolicyPart, UpstreamLine, LocalLine
    <3>4. (RefsPart' <=> RefsPart) /\ (PolicyPart' <=> PolicyPart) /\ (ListPart' <=> ListPart) /\ (DeliversBare' <=> DeliversBare)
      BY <1>1, SameHost
    <3>5. Foreseen("gated", host.active /\ RefsPart, TRUE)'
      BY <1>1, <2>4, <3>2, <3>3, <3>4 DEF Foreseen
    <3>6. Foreseen("admits", host.active /\ PolicyPart, ListPart)'
      BY <1>1, <2>4, <3>2, <3>3, <3>4 DEF Foreseen
    <3>7. DeliversPolicy'
      <4>1. \A who : MayUse(who)' <=> MayUse(who)
        BY <1>1 DEF MayUse
      <4>2. UpstreamLine' = UpstreamLine
        BY <1>1 DEF UpstreamLine
      <4>3. RelayAccount' = RelayAccount
        BY <1>1, SameHost
      <4>4. LocalLine' = LocalLine
        BY <1>1, <4>1, <4>3 DEF LocalLine
      <4> QED
        BY <1>1, <2>4, <3>3, <3>4, <4>2, <4>4 DEF DeliversPolicy
    <3> QED
      BY <1>1, <2>4, <3>2, <3>4, <3>5, <3>6, <3>7
  <2>8. Foresight'
    BY <2>4, <2>6, <2>7 DEF Foresight, Past, InProgress
  <2>9. CleanMeansServed'
    BY <2>4 DEF CleanMeansServed, NoComplaint
  <2> QED
    BY <2>6, <2>8, <2>9
<1> QED
  BY <1>2, <1>3

LEMMA LoadCredentialLineKeeps == ASSUME DoctorInv, LoadCredentialLine PROVE DoctorInv'
<1> USE DEF DoctorInv
<1> DEFINE said == Said({<<"credential", CredentialLine>>})
<1>1. ReadOn("credential", "frames", {<<"credential", CredentialLine>>})
  BY DEF LoadCredentialLine
<1>2. /\ said \in SUBSET (ReportLines \X {"FAIL", "WARN"})
      /\ said = {} => CredentialLine \in {"OK", "INFO"}
  BY SaidOf, LineValues DEF ReportLines
<1>3. ReportShape(report) /\ hostEdits \in Nat
  BY DEF ReportSound
<1>4. /\ ReportShape(report') /\ report'.pc = "frames"
      /\ report'.complaints = report.complaints \cup said
      /\ report'.until = hostEdits /\ report'.since = report.since
      /\ report'.push = report.push /\ report'.upstream = report.upstream
      /\ report'.kept = report.kept /\ report'.unseen = report.unseen
      /\ report'.fixes = report.fixes /\ report'.account = report.account
      /\ report.pc = "credential"
      /\ host' = host /\ repair' = repair /\ hostEdits' = hostEdits
  BY <1>1, <1>3, ReadOnFields
<1> HIDE DEF said
<1>5. InProgress /\ report'.pc \in Stages \ {"none", "bare"}
  BY <1>4 DEF InProgress, Stages
<1>6. /\ ReportSound' /\ Noted' /\ FixesFit' /\ FixGrants'
      /\ report'.complaints = {} => said = {} /\ Past({})
      /\ Past({}) => "reach" \in report'.kept /\ Foreseen("quiet", PushPart, StatusPart)'
  BY <1>2, <1>4, <1>5, ReadOnStays
<1>7. /\ RefsPart' <=> RefsPart
      /\ PolicyPart' <=> PolicyPart
      /\ ListPart' <=> ListPart
      /\ DeliversBare' <=> DeliversBare
      /\ DeliversPolicy' <=> DeliversPolicy
      /\ DeliversStored' <=> DeliversStored
  BY <1>4, SameHost, SameUpstream
<1>8. ASSUME report'.complaints = {}
      PROVE  /\ Foreseen("gated", host.active /\ RefsPart, TRUE)'
             /\ Foreseen("admits", host.active /\ PolicyPart, ListPart)'
             /\ hostEdits' = report'.since => DeliversBare' /\ DeliversPolicy' /\ DeliversStored'
  <2>1. /\ said = {} /\ Past({})
        /\ CredentialLine \in {"OK", "INFO"}
    BY <1>2, <1>6, <1>8
  <2>2. /\ Foreseen("gated", host.active /\ RefsPart, TRUE)
        /\ Foreseen("admits", host.active /\ PolicyPart, ListPart)
        /\ hostEdits = report.since => DeliversBare /\ DeliversPolicy
    BY <1>4, <2>1 DEF Foresight, Past
  <2>3. DeliversStored
    BY <2>1 DEF DeliversStored
  <2> QED
    BY <1>4, <1>7, <2>2, <2>3 DEF Foreseen
<1>9. Foresight'
  BY <1>4, <1>6, <1>8 DEF Foresight, Past, InProgress
<1>10. CleanMeansServed'
  BY <1>4 DEF CleanMeansServed, NoComplaint
<1> QED
  BY <1>6, <1>9, <1>10

LEMMA LoadSelectionLineKeeps == ASSUME DoctorInv, LoadSelectionLine PROVE DoctorInv'
<1> USE DEF DoctorInv
<1> DEFINE said == Said({<<"frames", FramesLine>>})
<1>1. ReadOn("frames", "whitelist", {<<"frames", FramesLine>>})
  BY DEF LoadSelectionLine
<1>2. /\ said \in SUBSET (ReportLines \X {"FAIL", "WARN"})
      /\ said = {} => FramesLine \in {"OK", "INFO"}
  BY SaidOf, LineValues DEF ReportLines
<1>3. ReportShape(report) /\ hostEdits \in Nat
  BY DEF ReportSound
<1>4. /\ ReportShape(report') /\ report'.pc = "whitelist"
      /\ report'.complaints = report.complaints \cup said
      /\ report'.until = hostEdits /\ report'.since = report.since
      /\ report'.push = report.push /\ report'.upstream = report.upstream
      /\ report'.kept = report.kept /\ report'.unseen = report.unseen
      /\ report'.fixes = report.fixes /\ report'.account = report.account
      /\ report.pc = "frames"
      /\ host' = host /\ repair' = repair /\ hostEdits' = hostEdits
  BY <1>1, <1>3, ReadOnFields
<1> HIDE DEF said
<1>5. InProgress /\ report'.pc \in Stages \ {"none", "bare"}
  BY <1>4 DEF InProgress, Stages
<1>6. /\ ReportSound' /\ Noted' /\ FixesFit' /\ FixGrants'
      /\ report'.complaints = {} => said = {} /\ Past({})
      /\ Past({}) => "reach" \in report'.kept /\ Foreseen("quiet", PushPart, StatusPart)'
  BY <1>2, <1>4, <1>5, ReadOnStays
<1>7. /\ RefsPart' <=> RefsPart
      /\ PolicyPart' <=> PolicyPart
      /\ ListPart' <=> ListPart
      /\ DeliversBare' <=> DeliversBare
      /\ DeliversPolicy' <=> DeliversPolicy
      /\ DeliversStored' <=> DeliversStored
  BY <1>4, SameHost, SameUpstream
<1>8. ASSUME report'.complaints = {}
      PROVE  /\ Foreseen("gated", host.active /\ RefsPart, TRUE)'
             /\ Foreseen("admits", host.active /\ PolicyPart, ListPart)'
             /\ hostEdits' = report'.since => DeliversBare' /\ DeliversPolicy' /\ DeliversStored'
             /\ "runs" \in report'.kept \cup report'.unseen
  <2>1. /\ said = {} /\ Past({})
        /\ FramesLine \in {"OK", "INFO"}
    BY <1>2, <1>6, <1>8
  <2>2. /\ Foreseen("gated", host.active /\ RefsPart, TRUE)
        /\ Foreseen("admits", host.active /\ PolicyPart, ListPart)
        /\ hostEdits = report.since => DeliversBare /\ DeliversPolicy /\ DeliversStored
    BY <1>4, <2>1 DEF Foresight, Past
  <2>3. Kept("runs") \/ Overlooked("runs")
    BY <2>1, RunsPart DEF FramesLine
  <2>4. "runs" \in report'.kept \cup report'.unseen
    BY <1>4, <1>5, <2>3 DEF Noted, Promises
  <2> QED
    BY <1>4, <1>7, <2>2, <2>4 DEF Foreseen
<1>9. Foresight'
  BY <1>4, <1>6, <1>8 DEF Foresight, Past, InProgress
<1>10. CleanMeansServed'
  BY <1>4 DEF CleanMeansServed, NoComplaint
<1> QED
  BY <1>6, <1>9, <1>10

LEMMA LoadWhitelistLineKeeps == ASSUME DoctorInv, LoadWhitelistLine PROVE DoctorInv'
<1> USE DEF DoctorInv
<1> DEFINE said == Said({<<"whitelist", WhitelistLine>>})
<1>1. ReadOn("whitelist", "linters", {<<"whitelist", WhitelistLine>>})
  BY DEF LoadWhitelistLine
<1>2. /\ said \in SUBSET (ReportLines \X {"FAIL", "WARN"})
      /\ said = {} => WhitelistLine \in {"OK", "INFO"}
  BY SaidOf, LineValues DEF ReportLines
<1>3. ReportShape(report) /\ hostEdits \in Nat
  BY DEF ReportSound
<1>4. /\ ReportShape(report') /\ report'.pc = "linters"
      /\ report'.complaints = report.complaints \cup said
      /\ report'.until = hostEdits /\ report'.since = report.since
      /\ report'.push = report.push /\ report'.upstream = report.upstream
      /\ report'.kept = report.kept /\ report'.unseen = report.unseen
      /\ report'.fixes = report.fixes /\ report'.account = report.account
      /\ report.pc = "whitelist"
      /\ host' = host /\ repair' = repair /\ hostEdits' = hostEdits
  BY <1>1, <1>3, ReadOnFields
<1> HIDE DEF said
<1>5. InProgress /\ report'.pc \in Stages \ {"none", "bare"}
  BY <1>4 DEF InProgress, Stages
<1>6. /\ ReportSound' /\ Noted' /\ FixesFit' /\ FixGrants'
      /\ report'.complaints = {} => said = {} /\ Past({})
      /\ Past({}) => "reach" \in report'.kept /\ Foreseen("quiet", PushPart, StatusPart)'
  BY <1>2, <1>4, <1>5, ReadOnStays
<1>7. /\ RefsPart' <=> RefsPart
      /\ PolicyPart' <=> PolicyPart
      /\ ListPart' <=> ListPart
      /\ DeliversBare' <=> DeliversBare
      /\ DeliversPolicy' <=> DeliversPolicy
      /\ DeliversStored' <=> DeliversStored
  BY <1>4, SameHost, SameUpstream
<1>8. ASSUME report'.complaints = {}
      PROVE  /\ Foreseen("gated", host.active /\ RefsPart, TRUE)'
             /\ Foreseen("admits", host.active /\ PolicyPart /\ ListPart, TRUE)'
             /\ hostEdits' = report'.since => DeliversBare' /\ DeliversPolicy' /\ DeliversStored'
             /\ "runs" \in report'.kept \cup report'.unseen
  <2>1. /\ said = {} /\ Past({})
        /\ WhitelistLine \in {"OK", "INFO"}
    BY <1>2, <1>6, <1>8
  <2>2. /\ Foreseen("gated", host.active /\ RefsPart, TRUE)
        /\ Foreseen("admits", host.active /\ PolicyPart, ListPart)
        /\ hostEdits = report.since => DeliversBare /\ DeliversPolicy /\ DeliversStored
        /\ "runs" \in report.kept \cup report.unseen
    BY <1>4, <2>1 DEF Foresight, Past
  <2>3. ListPart
    BY <2>1 DEF ListPart
  <2> QED
    BY <1>4, <1>7, <2>2, <2>3 DEF Foreseen
<1>9. Foresight'
  BY <1>4, <1>6, <1>8 DEF Foresight, Past, InProgress
<1>10. CleanMeansServed'
  BY <1>4 DEF CleanMeansServed, NoComplaint
<1> QED
  BY <1>6, <1>9, <1>10

LEMMA LoadLintersLineKeeps == ASSUME DoctorInv, LoadLintersLine PROVE DoctorInv'
<1> USE DEF DoctorInv
<1> DEFINE said == Said({<<"linters", LintersLine>>})
<1>1. ReadOn("linters", "relay", {<<"linters", LintersLine>>})
  BY DEF LoadLintersLine
<1>2. /\ said \in SUBSET (ReportLines \X {"FAIL", "WARN"})
      /\ said = {} => LintersLine \in {"OK", "INFO"}
  BY SaidOf, LineValues DEF ReportLines
<1>3. ReportShape(report) /\ hostEdits \in Nat
  BY DEF ReportSound
<1>4. /\ ReportShape(report') /\ report'.pc = "relay"
      /\ report'.complaints = report.complaints \cup said
      /\ report'.until = hostEdits /\ report'.since = report.since
      /\ report'.push = report.push /\ report'.upstream = report.upstream
      /\ report'.kept = report.kept /\ report'.unseen = report.unseen
      /\ report'.fixes = report.fixes /\ report'.account = report.account
      /\ report.pc = "linters"
      /\ host' = host /\ repair' = repair /\ hostEdits' = hostEdits
  BY <1>1, <1>3, ReadOnFields
<1> HIDE DEF said
<1>5. InProgress /\ report'.pc \in Stages \ {"none", "bare"}
  BY <1>4 DEF InProgress, Stages
<1>6. /\ ReportSound' /\ Noted' /\ FixesFit' /\ FixGrants'
      /\ report'.complaints = {} => said = {} /\ Past({})
      /\ Past({}) => "reach" \in report'.kept /\ Foreseen("quiet", PushPart, StatusPart)'
  BY <1>2, <1>4, <1>5, ReadOnStays
<1>7. /\ RefsPart' <=> RefsPart
      /\ PolicyPart' <=> PolicyPart
      /\ ListPart' <=> ListPart
      /\ DeliversBare' <=> DeliversBare
      /\ DeliversPolicy' <=> DeliversPolicy
      /\ DeliversStored' <=> DeliversStored
  BY <1>4, SameHost, SameUpstream
<1>8. ASSUME report'.complaints = {}
      PROVE  /\ Foreseen("gated", host.active /\ RefsPart, TRUE)'
             /\ Foreseen("admits", host.active /\ PolicyPart /\ ListPart, TRUE)'
             /\ hostEdits' = report'.since => DeliversBare' /\ DeliversPolicy' /\ DeliversStored'
             /\ "runs" \in report'.kept \cup report'.unseen
  <2>1. /\ said = {} /\ Past({})
        /\ LintersLine \in {"OK", "INFO"}
    BY <1>2, <1>6, <1>8
  <2>2. /\ Foreseen("gated", host.active /\ RefsPart, TRUE)
        /\ Foreseen("admits", host.active /\ PolicyPart /\ ListPart, TRUE)
        /\ hostEdits = report.since => DeliversBare /\ DeliversPolicy /\ DeliversStored
        /\ "runs" \in report.kept \cup report.unseen
    BY <1>4, <2>1 DEF Foresight, Past
  <2> QED
    BY <1>4, <1>7, <2>2 DEF Foreseen
<1>9. Foresight'
  BY <1>4, <1>6, <1>8 DEF Foresight, Past, InProgress
<1>10. CleanMeansServed'
  BY <1>4 DEF CleanMeansServed, NoComplaint
<1> QED
  BY <1>6, <1>9, <1>10

LEMMA LoadRelayLineKeeps == ASSUME DoctorInv, LoadRelayLine PROVE DoctorInv'
<1> USE DEF DoctorInv
<1> DEFINE said == Said({<<"relay", RelayLine(report.push)>>})
<1>1. ReadOn("relay", "done", {<<"relay", RelayLine(report.push)>>})
  BY DEF LoadRelayLine
<1>2. /\ said \in SUBSET (ReportLines \X {"FAIL", "WARN"})
      /\ said = {} => RelayLine(report.push) \in {"OK", "INFO"}
  BY SaidOf, LineValues DEF ReportLines
<1>3. ReportShape(report) /\ hostEdits \in Nat
  BY DEF ReportSound
<1>4. /\ ReportShape(report') /\ report'.pc = "done"
      /\ report'.complaints = report.complaints \cup said
      /\ report'.until = hostEdits /\ report'.since = report.since
      /\ report'.push = report.push /\ report'.upstream = report.upstream
      /\ report'.kept = report.kept /\ report'.unseen = report.unseen
      /\ report'.fixes = report.fixes /\ report'.account = report.account
      /\ report.pc = "relay"
      /\ host' = host /\ repair' = repair /\ hostEdits' = hostEdits
  BY <1>1, <1>3, ReadOnFields
<1> HIDE DEF said
<1>5. InProgress /\ report'.pc \in Stages \ {"none", "bare"}
  BY <1>4 DEF InProgress, Stages
<1>6. /\ ReportSound' /\ Noted' /\ FixesFit' /\ FixGrants'
      /\ report'.complaints = {} => said = {} /\ Past({})
      /\ Past({}) => "reach" \in report'.kept /\ Foreseen("quiet", PushPart, StatusPart)'
  BY <1>2, <1>4, <1>5, ReadOnStays
<1>7. /\ RefsPart' <=> RefsPart
      /\ PolicyPart' <=> PolicyPart
      /\ ListPart' <=> ListPart
      /\ DeliversBare' <=> DeliversBare
      /\ DeliversPolicy' <=> DeliversPolicy
      /\ DeliversStored' <=> DeliversStored
  BY <1>4, SameHost, SameUpstream
<1>8. ASSUME report'.complaints = {}, NEW p \in Promises
      PROVE  p \in report.kept \cup report.unseen \/ hostEdits - report.since > Survives(p)
  <2>1. /\ said = {} /\ Past({})
        /\ RelayLine(report.push) \in {"OK", "INFO"}
    BY <1>2, <1>6, <1>8
  <2>2. /\ "reach" \in report.kept /\ Foreseen("quiet", PushPart, StatusPart)
        /\ Foreseen("gated", host.active /\ RefsPart, TRUE)
        /\ Foreseen("admits", host.active /\ PolicyPart /\ ListPart, TRUE)
        /\ "runs" \in report.kept \cup report.unseen
        /\ hostEdits = report.since => DeliversBare /\ DeliversPolicy /\ DeliversStored
    BY <1>4, <2>1 DEF Foresight, Past
  <2>3. ASSUME NEW q \in Promises, Kept(q) \/ Overlooked(q) PROVE q \in report.kept \cup report.unseen
    BY <1>5, <2>3 DEF Noted
  <2>4. /\ hostEdits \in Nat /\ report.since \in Nat /\ report.since <= hostEdits /\ HostShape(host)
        /\ hostEdits - report.since \in Nat
    BY DEF ReportSound, ReportShape
  <2>5. CASE p = "reach"
    BY <2>2, <2>5
  <2>6. CASE p = "runs"
    BY <2>2, <2>6
  <2>7. CASE p = "gated"
    <3>1. Survives(p) = 1
      BY <2>7 DEF Survives
    <3>2. host.active /\ RefsPart => p \in report.kept \cup report.unseen
      BY <2>3, <2>4, <2>7, GatedParts
    <3> QED
      BY <2>2, <2>4, <2>7, <3>1, <3>2 DEF Foreseen
  <2>8. CASE p = "admits"
    <3>1. Survives(p) = 1
      BY <2>8 DEF Survives
    <3>2. host.active /\ PolicyPart /\ ListPart => p \in report.kept \cup report.unseen
      BY <2>3, <2>4, <2>8, AdmitsParts
    <3> QED
      BY <2>2, <2>4, <2>8, <3>1, <3>2 DEF Foreseen
  <2>9. CASE p = "quiet"
    <3>1. Survives(p) = 1 /\ StatusPart
      BY <2>1, <2>9 DEF Survives, StatusPart
    <3>2. PushPart => p \in report.kept \cup report.unseen
      BY <2>3, <2>9, <3>1, QuietParts
    <3> QED
      BY <2>2, <2>4, <2>9, <3>1, <3>2 DEF Foreseen
  <2>10. CASE p = "delivers"
    <3>1. Survives(p) = 0
      BY <2>10 DEF Survives
    <3>2. hostEdits = report.since => p \in report.kept \cup report.unseen
      BY <2>2, <2>3, <2>4, <2>10, DeliversParts
    <3> QED
      BY <2>4, <3>1, <3>2
  <2> QED
    BY <2>5, <2>6, <2>7, <2>8, <2>9, <2>10 DEF Promises
<1>9. Foresight'
  BY <1>4 DEF Foresight, Past, InProgress
<1>10. CleanMeansServed'
  BY <1>4, <1>8 DEF CleanMeansServed, NoComplaint, Survives
<1> QED
  BY <1>6, <1>9, <1>10

AddedTo(s, r, K, U) ==
    /\ ReportShape(s) /\ s.pc = r.pc /\ s.complaints = r.complaints
    /\ s.push = r.push /\ s.upstream = r.upstream /\ s.since = r.since /\ s.until = r.until
    /\ s.fixes = r.fixes /\ s.account = r.account
    /\ s.kept = r.kept \cup K /\ s.unseen = r.unseen \cup U

LEMMA NotesAdded ==
    ASSUME NEW r, ReportShape(r), NEW K, NEW U, NEW s, s = [r EXCEPT !.kept = r.kept \cup K, !.unseen = r.unseen \cup U]
    PROVE  AddedTo(s, r, K, U)
BY DEF ReportShape, AddedTo

LEMMA EditHostKeeps ==
    ASSUME DoctorAssumption, DoctorInv, NEW fact \in DOMAIN Alternatives,
           NEW value \in Alternatives[fact], EditHost(fact, value)
    PROVE  DoctorInv'
<1> USE DEF DoctorInv
<1> DEFINE served == {p \in Promises : Kept(p)'}
           missed == {p \in Promises : Overlooked(p)'}
<1>1. /\ hostEdits' = hostEdits + 1 /\ repair' = NoRepair /\ hostEdits < MaxHostEdits
      /\ InProgress => report' = [report EXCEPT !.kept = @ \cup served, !.unseen = @ \cup missed]
      /\ ~InProgress => report' = report
  BY DEF EditHost
<1>2. served \subseteq Promises /\ missed \subseteq Promises
  OBVIOUS
<1>3. InProgress => \A p \in Promises : (Kept(p)' => p \in served) /\ (Overlooked(p)' => p \in missed)
  OBVIOUS
<1> HIDE DEF served, missed
<1>4. ReportShape(report) /\ hostEdits \in Nat /\ report.since \in Nat /\ report.since <= hostEdits /\ MaxHostEdits \in Nat
  BY DEF ReportSound, ReportShape, DoctorAssumption
<1>5. /\ ReportShape(report') /\ report'.pc = report.pc /\ report'.complaints = report.complaints
      /\ report'.push = report.push /\ report'.upstream = report.upstream
      /\ report'.since = report.since /\ report'.until = report.until
      /\ report'.fixes = report.fixes /\ report'.account = report.account
      /\ report.kept \subseteq report'.kept /\ report.unseen \subseteq report'.unseen
      /\ report'.kept \subseteq Promises /\ report'.unseen \subseteq Promises
      /\ InProgress => report'.kept = report.kept \cup served /\ report'.unseen = report.unseen \cup missed
      /\ ~InProgress => report'.kept = report.kept /\ report'.unseen = report.unseen
  <2>1. CASE InProgress
    <3>1. report' = [report EXCEPT !.kept = report.kept \cup served, !.unseen = report.unseen \cup missed]
      BY <1>1, <2>1
    <3>2. AddedTo(report', report, served, missed)
      BY <1>4, <3>1, NotesAdded
    <3> QED
      BY <1>2, <2>1, <3>2 DEF ReportSound, AddedTo
  <2>2. CASE ~InProgress
    BY <1>1, <1>4, <2>2 DEF ReportSound
  <2> QED
    BY <2>1, <2>2
<1>6. ReportSound'
  <2>1. HostShape(host')
    BY EditFacts DEF ReportSound
  <2>2. /\ RepairShape' /\ repair'.wanted \subseteq SharedFiles
    BY <1>1 DEF RepairShape, NoRepair
  <2>3. /\ hostEdits' \in Nat /\ hostEdits' <= MaxHostEdits
        /\ report'.since <= report'.until /\ report'.until <= hostEdits'
    BY <1>1, <1>4, <1>5 DEF ReportSound, ReportShape
  <2> QED
    BY <1>5, <2>1, <2>2, <2>3 DEF ReportSound
<1>7. Noted'
  BY <1>3, <1>5 DEF Noted, InProgress
<1>8. Foresight'
  <2>1. ~(hostEdits' = report'.since) /\ (hostEdits' = report'.since + 1 => hostEdits = report.since)
    BY <1>1, <1>4, <1>5
  <2>2. HostShape(host)
    BY DEF ReportSound
  <2>3. /\ fact \notin {"refs", "gateAll"} => (RefsPart' <=> RefsPart)
        /\ fact \notin {"parses", "modes"} => (PolicyPart' <=> PolicyPart)
        /\ fact \notin {"whitelist", "frames"} => (ListPart' <=> ListPart)
        /\ fact # "status" => (StatusPart' <=> StatusPart)
        /\ fact # "active" => (host'.active <=> host.active)
        /\ fact # "push" => (PushPart' <=> PushPart)
    BY <1>5, <2>2, PartsRest
  <2>4. ASSUME InProgress, NEW q \in Promises, Kept(q) \/ Overlooked(q)
        PROVE  q \in report'.kept \cup report'.unseen
    BY <1>5, <2>4 DEF Noted
  <2>5. Past({})' => "reach" \in report'.kept /\ Foreseen("quiet", PushPart, StatusPart)'
    <3> SUFFICES ASSUME Past({}) PROVE "reach" \in report'.kept /\ Foreseen("quiet", PushPart, StatusPart)'
      BY <1>5 DEF Past, InProgress
    <3>1. InProgress /\ "reach" \in report.kept /\ Foreseen("quiet", PushPart, StatusPart)
      BY DEF Past, Foresight
    <3>2. ASSUME hostEdits = report.since, StatusPart', ~PushPart' PROVE "quiet" \in report'.kept \cup report'.unseen
      <4>1. PushPart /\ fact = "push"
        BY <2>3, <3>1, <3>2 DEF Foreseen
      <4>2. StatusPart
        BY <2>3, <3>2, <4>1
      <4> QED
        BY <2>4, <3>1, <4>1, <4>2, QuietParts DEF Promises
    <3> QED
      BY <1>5, <2>1, <3>1, <3>2 DEF Foreseen
  <2>6. (report.pc = "policy" /\ Past({}))' =>
           Foreseen("gated", host.active, RefsPart)' /\ Foreseen("admits", host.active, PolicyPart /\ ListPart)'
    <3> SUFFICES ASSUME report.pc = "policy", Past({})
                 PROVE  Foreseen("gated", host.active, RefsPart)' /\ Foreseen("admits", host.active, PolicyPart /\ ListPart)'
      BY <1>5 DEF Past, InProgress
    <3>1. InProgress /\ Foreseen("gated", host.active, RefsPart)
      BY DEF Past, Foresight
    <3>2. ASSUME hostEdits = report.since, ~host'.active
          PROVE  /\ RefsPart' => "gated" \in report'.kept \cup report'.unseen
                 /\ PolicyPart' /\ ListPart' => "admits" \in report'.kept \cup report'.unseen
      <4>1. host.active /\ fact = "active"
        BY <2>3, <3>1, <3>2 DEF Foreseen
      <4>2. (RefsPart' <=> RefsPart) /\ (PolicyPart' <=> PolicyPart) /\ (ListPart' <=> ListPart)
        BY <2>3, <4>1
      <4> QED
        BY <2>2, <2>4, <3>1, <4>1, <4>2, GatedParts, AdmitsParts DEF Promises
    <3> QED
      BY <2>1, <3>2 DEF Foreseen
  <2>7. Past({"bare", "policy"})' => Foreseen("gated", host.active /\ RefsPart, TRUE)'
    <3> SUFFICES ASSUME Past({"bare", "policy"}) PROVE Foreseen("gated", host.active /\ RefsPart, TRUE)'
      BY <1>5 DEF Past, InProgress
    <3>1. InProgress /\ Foreseen("gated", host.active /\ RefsPart, TRUE)
      BY DEF Past, Foresight
    <3>2. hostEdits = report.since => "gated" \in report'.kept \cup report'.unseen
      BY <2>2, <2>4, <3>1, GatedParts DEF Foreseen, Promises
    <3> QED
      BY <2>1, <3>2 DEF Foreseen
  <2>8. Past({"bare", "policy", "linters", "relay"})' => Foreseen("admits", host.active /\ PolicyPart, ListPart)'
    <3> SUFFICES ASSUME Past({"bare", "policy", "linters", "relay"})
                 PROVE  Foreseen("admits", host.active /\ PolicyPart, ListPart)'
      BY <1>5 DEF Past, InProgress
    <3>1. InProgress /\ Foreseen("admits", host.active /\ PolicyPart, ListPart)
      BY DEF Past, Foresight
    <3>2. ASSUME hostEdits = report.since, ListPart', ~(host'.active /\ PolicyPart')
          PROVE  "admits" \in report'.kept \cup report'.unseen
      <4>1. host.active /\ PolicyPart
        BY <3>1, <3>2 DEF Foreseen
      <4>2. ListPart
        BY <2>3, <3>2, <4>1
      <4> QED
        BY <2>2, <2>4, <3>1, <4>1, <4>2, AdmitsParts DEF Promises
    <3> QED
      BY <2>1, <3>2 DEF Foreseen
  <2>9. Past({"bare", "policy", "credential", "frames", "whitelist"})' =>
           Foreseen("admits", host.active /\ PolicyPart /\ ListPart, TRUE)'
    <3> SUFFICES ASSUME Past({"bare", "policy", "credential", "frames", "whitelist"})
                 PROVE  Foreseen("admits", host.active /\ PolicyPart /\ ListPart, TRUE)'
      BY <1>5 DEF Past, InProgress
    <3>1. InProgress /\ Foreseen("admits", host.active /\ PolicyPart /\ ListPart, TRUE)
      BY DEF Past, Foresight
    <3>2. hostEdits = report.since => "admits" \in report'.kept \cup report'.unseen
      BY <2>2, <2>4, <3>1, AdmitsParts DEF Foreseen, Promises
    <3> QED
      BY <2>1, <3>2 DEF Foreseen
  <2>10. Past({"bare", "policy", "credential", "frames"})' => "runs" \in report'.kept \cup report'.unseen
    BY <1>5 DEF Past, InProgress, Foresight
  <2> QED
    BY <2>1, <2>5, <2>6, <2>7, <2>8, <2>9, <2>10 DEF Foresight
<1>9. FixesFit' /\ FixGrants'
  BY <1>1, <1>4, <1>5 DEF FixesFit, FixGrants, NoRepair
<1>10. CleanMeansServed'
  <2>1. \A p : Survives(p)' = Survives(p)
    BY DEF Survives
  <2> QED
    BY <1>5, <2>1 DEF CleanMeansServed, NoComplaint, InProgress
<1> QED
  BY <1>6, <1>7, <1>8, <1>9, <1>10

-----------------------------------------------------------------------------
(* The operator follows the commands.                                      *)

GivenMode(m, more, g) ==
    [owner |-> m.owner, group |-> g, user |-> m.user, member |-> m.member \cup more, other |-> m.other]

LEMMA ModeChanged ==
    ASSUME NEW m \in Modes, NEW more, NEW g, NEW n, n = [m EXCEPT !.member = m.member \cup more, !.group = g]
    PROVE  n = GivenMode(m, more, g)
BY DEF Modes, GivenMode

LEMMA FixedModeIs ==
    ASSUME NEW m \in Modes, NEW f, NEW regroup
    PROVE  FixedMode(m, f, regroup) =
             GivenMode(m, IF f = "dir" THEN {"w"} ELSE {"r"}, IF regroup THEN "relay" ELSE m.group)
<1> DEFINE more == IF f = "dir" THEN {"w"} ELSE {"r"}
           g == IF regroup THEN "relay" ELSE m.group
<1>1. FixedMode(m, f, regroup) = [m EXCEPT !.member = m.member \cup more, !.group = g]
  BY DEF FixedMode
<1> HIDE DEF more, g
<1>2. FixedMode(m, f, regroup) = GivenMode(m, more, g)
  BY <1>1, ModeChanged
<1> QED
  BY <1>2 DEF more, g

LEMMA FixGives ==
    ASSUME NEW m \in Modes, NEW f \in SharedFiles, m.owner # "relay", f = "dir" => "x" \in m.member,
           NEW n, n = FixedMode(m, f, m.group # "relay")
    PROVE  n.owner # "relay" /\ n.group = "relay" /\ Needs[f] \subseteq n.member
<1>1. n = GivenMode(m, IF f = "dir" THEN {"w"} ELSE {"r"}, IF m.group # "relay" THEN "relay" ELSE m.group)
  BY FixedModeIs
<1>2. n.owner = m.owner /\ n.group = "relay" /\ n.member = m.member \cup (IF f = "dir" THEN {"w"} ELSE {"r"})
  BY <1>1 DEF GivenMode
<1>3. Needs["dir"] = {"w", "x"} /\ Needs["toml"] = {"r"} /\ Needs["credential"] = {"r"}
  BY DEF Needs
<1> QED
  BY <1>2, <1>3 DEF SharedFiles

LEMMA FixedIsMode ==
    ASSUME NEW m \in Modes, NEW f \in SharedFiles, NEW regroup \in BOOLEAN
    PROVE  FixedMode(m, f, regroup) \in Modes
<1>1. FixedMode(m, f, regroup) =
        GivenMode(m, IF f = "dir" THEN {"w"} ELSE {"r"}, IF regroup THEN "relay" ELSE m.group)
  BY FixedModeIs
<1>2. /\ m.owner \in Owners /\ m.user \in SUBSET Bits /\ m.member \in SUBSET Bits /\ m.other \in SUBSET Bits
      /\ m.group \in Owners
  BY DEF Modes
<1>3. /\ (IF regroup THEN "relay" ELSE m.group) \in Owners
      /\ (IF f = "dir" THEN {"w"} ELSE {"r"}) \in SUBSET Bits
  <2>0. "relay" \in Owners
    BY DEF Owners
  <2>1. {"w"} \in SUBSET Bits /\ {"r"} \in SUBSET Bits
    BY DEF Bits
  <2>2. CASE f = "dir"
    BY <1>2, <2>0, <2>1, <2>2
  <2>3. CASE f # "dir"
    BY <1>2, <2>0, <2>1, <2>3
  <2> QED
    BY <2>2, <2>3
<1>4. m.member \cup (IF f = "dir" THEN {"w"} ELSE {"r"}) \in SUBSET Bits
  BY <1>2, <1>3
<1> QED
  BY <1>1, <1>2, <1>3, <1>4 DEF Modes, GivenMode

LEMMA FollowFixesKeeps == ASSUME DoctorInv, FollowFixes PROVE DoctorInv'
<1> USE DEF DoctorInv
<1> DEFINE broken == {x.file : x \in report.fixes}
           Fix(f) == CHOOSE y \in report.fixes : y.file = f
           modes == [f \in SharedFiles |-> IF f \in broken THEN FixedMode(host.modes[f], f, Fix(f).regroup)
                                           ELSE host.modes[f]]
<1>1. /\ report.pc = "done" /\ report.fixes # {} /\ repair.st = "none" /\ report.since = hostEdits
      /\ host' = [host EXCEPT !.modes = modes]
      /\ repair' = [st |-> "followed", account |-> report.account, wanted |-> broken,
                   hopeless |-> {f \in broken : \/ host.modes[f].owner = report.account
                                                \/ f = "dir" /\ "x" \notin host.modes[f].member}]
      /\ report' = report /\ hostEdits' = hostEdits
  BY DEF FollowFixes
<1>2. /\ report.account = "relay"
      /\ report.fixes = {[file |-> f, regroup |-> host.modes[f].group # "relay"] : f \in Denied("relay")}
  BY <1>1 DEF FixesFit
<1>3. broken = Denied("relay") /\ broken \subseteq SharedFiles
  <2>1. ASSUME NEW x \in report.fixes PROVE x.file \in Denied("relay")
    <3>1. PICK f \in Denied("relay") : x = [file |-> f, regroup |-> host.modes[f].group # "relay"]
      BY <1>2, <2>1
    <3> QED
      BY <3>1
  <2>2. ASSUME NEW f \in Denied("relay") PROVE \E x \in report.fixes : x.file = f
    <3>1. [file |-> f, regroup |-> host.modes[f].group # "relay"] \in report.fixes
      BY <1>2, <2>2
    <3> QED
      BY <3>1
  <2>3. Denied("relay") \subseteq SharedFiles
    BY DEF Denied
  <2> QED
    BY <2>1, <2>2, <2>3
<1>4. \A f \in broken : Fix(f).regroup = (host.modes[f].group # "relay")
  <2> SUFFICES ASSUME NEW f \in broken PROVE Fix(f).regroup = (host.modes[f].group # "relay")
    OBVIOUS
  <2>1. [file |-> f, regroup |-> host.modes[f].group # "relay"] \in report.fixes
    BY <1>2, <1>3
  <2>2. Fix(f) \in report.fixes /\ Fix(f).file = f
    BY <2>1
  <2> DEFINE y == Fix(f)
  <2> HIDE DEF Fix
  <2>3. \E g \in Denied("relay") : y = [file |-> g, regroup |-> host.modes[g].group # "relay"]
    BY <1>2, <2>2
  <2> HIDE DEF y
  <2>4. PICK g \in Denied("relay") : y = [file |-> g, regroup |-> host.modes[g].group # "relay"]
    BY <2>3
  <2>5. y.file = g /\ y.regroup = (host.modes[g].group # "relay")
    BY <2>4
  <2> QED
    BY <2>2, <2>5 DEF y
<1>5. host.modes \in [SharedFiles -> Modes] /\ HostShape(host)
  BY DEF ReportSound, HostShape
<1>6. modes \in [SharedFiles -> Modes]
  BY <1>3, <1>4, <1>5, FixedIsMode
<1>7. HostShape(host') /\ host'.modes = modes
  <2> HIDE DEF modes
  <2> QED
    BY <1>1, <1>5, <1>6 DEF HostShape, HostFacts
<1>8. ReportSound'
  BY <1>1, <1>3, <1>7 DEF ReportSound, RepairShape
<1>9. FixGrants'
  <2> SUFFICES ASSUME NEW f \in broken, host.modes[f].owner # "relay", f = "dir" => "x" \in host.modes[f].member
               PROVE  Needs[f] \subseteq Access(f, "relay")'
    BY <1>1, <1>2 DEF FixGrants, Needs
  <2>1. f \in SharedFiles /\ host.modes[f] \in Modes
    BY <1>3, <1>5
  <2>2. host'.modes[f] = FixedMode(host.modes[f], f, host.modes[f].group # "relay")
    BY <1>4, <1>7, <2>1
  <2>3. /\ host'.modes[f].owner # "relay" /\ host'.modes[f].group = "relay"
        /\ Needs[f] \subseteq host'.modes[f].member
    BY <2>1, <2>2, FixGives
  <2> QED
    BY <2>3 DEF Access
<1>10. Noted' /\ Foresight' /\ FixesFit' /\ CleanMeansServed'
  BY <1>1 DEF Noted, InProgress, Foresight, Past, FixesFit, CleanMeansServed, NoComplaint, Survives
<1> QED
  BY <1>8, <1>9, <1>10

-----------------------------------------------------------------------------
\* The invariant, for any host, any facts that change and any reports.
THEOREM DoctorInductive == DoctorSpec => []DoctorInv
<1>1. DoctorInit => DoctorInv
  BY DoctorStart, DoctorAssumption
<1>2. DoctorInv /\ [DoctorNext]_doctorVars => DoctorInv'
  <2> SUFFICES ASSUME DoctorInv, [DoctorNext]_doctorVars PROVE DoctorInv'
    OBVIOUS
  <2>1. CASE UNCHANGED doctorVars
    <3>1. host' = host /\ report' = report /\ repair' = repair /\ hostEdits' = hostEdits
      BY <2>1 DEF doctorVars
    <3> USE DEF DoctorInv
    <3>2. ReportSound' /\ FixesFit' /\ FixGrants'
      BY <3>1, FixesStay DEF ReportSound, RepairShape
    <3>3. CleanMeansServed'
      BY <3>1 DEF CleanMeansServed, NoComplaint, Survives
    <3>4. Noted'
      BY <3>1, SameHost DEF Noted, InProgress
    <3>5. Foresight'
      BY <3>1, SameHost, SamePush, SameUpstream DEF Foresight, Past, InProgress, Foreseen
    <3> QED
      BY <3>2, <3>3, <3>4, <3>5
  <2> QED
    BY <2>1, DoctorAssumption, BeginReportKeeps, CheckBareKeeps, LoadPolicyLinesKeeps, LoadCredentialLineKeeps,
       LoadSelectionLineKeeps, LoadWhitelistLineKeeps, LoadLintersLineKeeps, LoadRelayLineKeeps,
       EditHostKeeps, FollowFixesKeeps DEF DoctorNext
<1> QED
  BY <1>1, <1>2, PTL DEF DoctorSpec

\* A report under way, and the commands it printed, keep their shape: complaints are about lines
\* there are, and what a report says was read before the last change that is counted.
THEOREM DoctorTypeCorrect == DoctorSpec => []DoctorTypeOK
<1>1. DoctorInv => DoctorTypeOK
  BY DEF DoctorInv, ReportSound, DoctorTypeOK, Stages
<1> QED
  BY <1>1, DoctorInductive, PTL

\* A report without a complaint promises nothing that was not so while it was put together, up to
\* what it does not look at and to as many changes as a promise survives (gateway doctor).
THEOREM CleanMeansServedCorrect == DoctorSpec => []CleanMeansServed
<1>1. DoctorInv => CleanMeansServed
  BY DEF DoctorInv
<1> QED
  BY <1>1, DoctorInductive, PTL

\* Whoever owns the files and whatever their groups, the commands of a report give the relay's
\* account what it missed, but for the two cases the property names (relayAccessFix).
THEOREM FixGrantsCorrect == DoctorSpec => []FixGrants
<1>1. DoctorInv => FixGrants
  BY DEF DoctorInv
<1> QED
  BY <1>1, DoctorInductive, PTL

-----------------------------------------------------------------------------
(* What is pushed: the scan of a tree.                                     *)

\* A tree's checks report on files or on the tree, never on both.
Apart(tree) == \A h \in tree.hits : h[1] \notin tree.whole

\* What the hook has copied was in force at some time of the scan; the push's own settings
\* are gone; and the verdict follows from the copies.
Copied ==
    /\ scan.at # "none" => Apart(scan.tree)
    /\ scan.at \in {"settings", "listed", "whitelist", "copied"} =>
          scan.settings \in selections /\ ~scan.tree.own
    /\ scan.at \in {"whitelist", "copied"} => scan.list \in exempts
    /\ scan.at \notin {"none", "done"} => ~scan.accepted /\ scan.fault = "none"

Verdict ==
    Decided =>
        /\ scan.fault # "none" => ~scan.accepted
        /\ scan.fault = "none" =>
              \E k \in selections, L \in exempts :
                 /\ ~scan.tree.own
                 /\ scan.accepted <=> Loads(L, k) /\ Clean(k, L, scan.tree)

ScanInv == PushScanTypeOK /\ Copied /\ Verdict

-----------------------------------------------------------------------------
(* What the settings and the whitelist make of a tree.                     *)

\* A check that is on, can run and finds something has a result.
LEMMA FindingHasResult ==
    ASSUME NEW k \in Settings, NEW tree \in TreesOf, NEW c \in ScanChecks,
           SwitchedOn(c, k), CanRun(c, tree), ~Warns(c, k),
           Found(c, k, tree) # {} \/ c \in tree.whole
    PROVE  [check |-> c, files |-> Found(c, k, tree), outcome |-> "BLOCK"] \in Results(k, tree)
  BY DEF Results

\* A clean verdict leaves no finding in a file that nothing excuses.
LEMMA CleanLeavesNoHit ==
    ASSUME NEW k \in Settings, NEW L, NEW tree \in TreesOf, ~tree.own, Clean(k, L, tree),
           NEW h \in tree.hits, CanRun(h[1], tree), ~LenientAt(h, k)
    PROVE  SparedBy(h, L)
<1> DEFINE c == h[1]
           f == h[2]
           r == [check |-> c, files |-> Found(c, k, tree), outcome |-> "BLOCK"]
           kept == {x \in Found(c, k, tree) : \A e \in L : ~Spares(e, c, x)}
<1>1. c \in ScanChecks /\ f \in TreeFiles /\ h = <<c, f>>
  BY DEF TreesOf
<1>2. SwitchedOn(c, k) /\ ~Warns(c, k)
  BY DEF LenientAt, Lenient
<1>3. f \notin Unseen(c, k, tree)
  BY <1>1 DEF Unseen, LenientAt, ScanChecks
<1>4. f \in Found(c, k, tree)
  BY <1>1, <1>3 DEF Found
<1>5. r \in Results(k, tree)
  BY <1>1, <1>2, <1>4, FindingHasResult
<1>6. ApplyWhitelist(r, L).outcome # "BLOCK"
  BY <1>5 DEF Clean
<1>7. kept = {}
  BY <1>6 DEF ApplyWhitelist
<1> QED BY <1>4, <1>7 DEF SparedBy

\* A clean verdict leaves no report on the whole tree that the settings do not excuse.
LEMMA CleanLeavesNoReport ==
    ASSUME NEW k \in Settings, NEW L, NEW tree \in TreesOf, Apart(tree), Clean(k, L, tree),
           NEW c \in tree.whole
    PROVE  Lenient(c, k)
<1> SUFFICES ASSUME ~Lenient(c, k) PROVE FALSE OBVIOUS
<1> DEFINE r == [check |-> c, files |-> Found(c, k, tree), outcome |-> "BLOCK"]
<1>1. c \in ScanFrames /\ c \in ScanChecks
  BY DEF TreesOf, ScanChecks
<1>2. Found(c, k, tree) = {}
  BY DEF Found, Apart
<1>3. r \in Results(k, tree)
  BY <1>1, FindingHasResult DEF Lenient, CanRun
<1>4. ApplyWhitelist(r, L).outcome = "BLOCK"
  BY <1>2 DEF ApplyWhitelist
<1> QED BY <1>3, <1>4 DEF Clean

\* When every finding and every report is excused the verdict is clean.
LEMMA ExcusedIsClean ==
    ASSUME NEW k \in Settings, NEW L, NEW tree \in TreesOf, ~tree.own,
           \A h \in tree.hits : LenientAt(h, k) \/ SparedBy(h, L),
           \A c \in tree.whole : Lenient(c, k)
    PROVE  Clean(k, L, tree)
<1> SUFFICES ASSUME NEW r \in Results(k, tree), ApplyWhitelist(r, L).outcome = "BLOCK"
             PROVE  FALSE
  BY DEF Clean
<1>1. PICK c \in ScanChecks :
         /\ SwitchedOn(c, k)
         /\ Found(c, k, tree) # {} \/ c \in tree.whole
         /\ r = [check |-> c, files |-> Found(c, k, tree),
                 outcome |-> IF Warns(c, k) THEN "WARN" ELSE "BLOCK"]
  BY DEF Results
<1> DEFINE kept == {x \in r.files : \A e \in L : ~Spares(e, r.check, x)}
<1>2. ApplyWhitelist(r, L) =
        [check |-> r.check, files |-> kept,
         outcome |-> IF r.files # {} /\ kept = {} THEN "PASS" ELSE r.outcome]
  BY DEF ApplyWhitelist
<1>3. r.outcome = "BLOCK" /\ (r.files = {} \/ kept # {})
  BY <1>1, <1>2
<1>4. ~Lenient(c, k)
  BY <1>1, <1>3 DEF Lenient
<1>5. PICK f \in Found(c, k, tree) : \A e \in L : ~Spares(e, c, f)
  BY <1>1, <1>3, <1>4
<1>6. <<c, f>> \in tree.hits /\ f \notin Unseen(c, k, tree)
  BY <1>5 DEF Found
<1>7. ~LenientAt(<<c, f>>, k)
  BY <1>4, <1>6, PushScanAssumption DEF LenientAt, Unseen
<1> QED BY <1>5, <1>6, <1>7 DEF SparedBy

\* A whitelist whose entries name something that lasted loads.
LEMMA LastingLoads ==
    ASSUME NEW k \in selections, selections \subseteq Settings, NEW L \in SUBSET Exemptions,
           \A e \in L : Lasting(e.spec)
    PROVE  Loads(L, k)
<1> SUFFICES ASSUME NEW e \in L PROVE Known(e.spec, k)
  BY DEF Loads
<1>1. CASE e.spec[1] = "any"
  BY <1>1 DEF Known
<1>2. CASE e.spec[1] # "any"
  <2>1. PICK c \in ScanChecks : Selects(e.spec, c) /\ c \in ScanFrames \cup k.linters
    BY <1>2 DEF Lasting
  <2> QED BY <1>2, <2>1 DEF Selects, Known
<1> QED BY <1>1, <1>2

-----------------------------------------------------------------------------
(* The invariant.                                                          *)

LEMMA ScanInitInv == PushScanInit => ScanInv
<1> SUFFICES ASSUME PushScanInit PROVE ScanInv OBVIOUS
<1> USE DEF PushScanInit
<1>1. PushScanTypeOK
  <2>1. selection \in Settings /\ exempt \subseteq Exemptions
    BY PushScanAssumption
  <2>2. form \in [WhitelistForms -> [at : {"idle", "write", "rename"}, list : SUBSET Exemptions]]
    BY DEF IdleForm
  <2>3. scanEdits \in 0 .. MaxScanEdits
    BY PushScanAssumption
  <2> QED BY <2>1, <2>2, <2>3 DEF PushScanTypeOK, NoTmp, Scanning
<1> QED BY <1>1 DEF ScanInv, Copied, Verdict, Decided

\* The push arrives.
LEMMA ArrivalInv ==
    ASSUME ScanInv, NEW t \in Trees, PushArrives(t)
    PROVE  ScanInv'
<1> USE DEF ScanInv, PushArrives
<1>1. t \in TreesOf /\ Apart(t)
  BY PushScanAssumption DEF Apart
<1>2. scan' = IdleScan(t) /\ scan' \in Scans
  BY <1>1 DEF IdleScan, Scans, PushScanTypeOK
<1>3. PushScanTypeOK'
  BY <1>2 DEF PushScanTypeOK, Scanning
<1>4. Copied' /\ Verdict'
  BY <1>1, <1>2 DEF Copied, Verdict, Decided, IdleScan, Apart
<1> QED BY <1>3, <1>4

\* Every later step of the hook works on a well-typed scan.
LEMMA ScanTyped == ASSUME PushScanTypeOK, scan.at # "none" PROVE scan \in Scans
  BY DEF PushScanTypeOK

\* A failed step rejects the push.
LEMMA FaultInv ==
    ASSUME ScanInv, Scanning, NEW fault \in {"staging", "overlay", "deadline"}, Rejected(fault),
           UNCHANGED <<selection, exempt, exemptTmp, form, selections, exempts, scanEdits>>
    PROVE  ScanInv'
<1> USE DEF ScanInv, Rejected, Scanning
<1>1. scan \in Scans
  BY ScanTyped
<1>2. scan' \in Scans /\ scan'.at = "done" /\ scan'.fault = fault /\ scan'.tree = scan.tree
      /\ scan'.accepted = scan.accepted
  BY <1>1 DEF Scans
<1>3. PushScanTypeOK'
  BY <1>2 DEF PushScanTypeOK
<1>4. Copied' /\ Verdict'
  BY <1>2 DEF Copied, Verdict, Decided, Apart
<1> QED BY <1>3, <1>4

\* The copies.
LEMMA CopyInv ==
    ASSUME ScanInv, CopySettings \/ ListKept \/ CopyWhitelist \/ CopyTmp
    PROVE  ScanInv'
<1> USE DEF ScanInv
<1>1. scan \in Scans /\ scan.at \notin {"none", "done"}
  BY ScanTyped DEF CopySettings, ListKept, CopyWhitelist, CopyTmp
<1>2. CASE CopySettings
  <2>1. Stripped(scan.tree) \in TreesOf /\ ~Stripped(scan.tree).own
        /\ (Apart(scan.tree) => Apart(Stripped(scan.tree)))
    BY <1>1 DEF Stripped, TreesOf, Scans, Apart
  <2>2. scan' \in Scans /\ scan'.at = "settings" /\ scan'.tree = Stripped(scan.tree)
        /\ scan'.settings = selection /\ scan'.fault = scan.fault /\ scan'.accepted = scan.accepted
    BY <1>1, <1>2, <2>1 DEF CopySettings, Scans, PushScanTypeOK
  <2>3. PushScanTypeOK'
    BY <1>1, <1>2, <2>2 DEF CopySettings, PushScanTypeOK, Scanning
  <2>4. Copied' /\ Verdict'
    BY <1>1, <1>2, <2>1, <2>2 DEF CopySettings, PushScanTypeOK, Scanning, Copied, Verdict, Decided, Apart
  <2> QED BY <2>3, <2>4
<1>3. CASE ListKept
  <2>1. scan' \in Scans /\ scan'.at = "listed" /\ scan'.tree = scan.tree
        /\ scan'.settings = scan.settings /\ scan'.fault = scan.fault
        /\ scan'.accepted = scan.accepted
    BY <1>1, <1>3 DEF ListKept, Scans, PushScanTypeOK, NoTmp
  <2> QED BY <1>1, <1>3, <2>1 DEF ListKept, PushScanTypeOK, Scanning, Copied, Verdict, Decided, Apart
<1>4. CASE CopyWhitelist
  <2>1. scan' \in Scans /\ scan'.at = "whitelist" /\ scan'.tree = scan.tree
        /\ scan'.settings = scan.settings /\ scan'.list = exempt /\ scan'.fault = scan.fault
        /\ scan'.accepted = scan.accepted
    BY <1>1, <1>4 DEF CopyWhitelist, Scans, PushScanTypeOK
  <2> QED BY <1>1, <1>4, <2>1 DEF CopyWhitelist, PushScanTypeOK, Scanning, Copied, Verdict, Decided, Apart
<1>5. CASE CopyTmp /\ ~(scan.sawTmp /\ ~exemptTmp.there)
  <2>1. scan' \in Scans /\ scan'.at = "copied" /\ scan'.tree = scan.tree
        /\ scan'.settings = scan.settings /\ scan'.list = scan.list /\ scan'.fault = scan.fault
        /\ scan'.accepted = scan.accepted
    BY <1>1, <1>5 DEF CopyTmp, Scans
  <2> QED BY <1>1, <1>5, <2>1 DEF CopyTmp, PushScanTypeOK, Scanning, Copied, Verdict, Decided, Apart
<1>6. CASE CopyTmp /\ scan.sawTmp /\ ~exemptTmp.there
  BY <1>1, <1>6, FaultInv DEF CopyTmp, Scanning
<1> QED BY <1>2, <1>3, <1>4, <1>5, <1>6

\* The verdict.
LEMMA VerdictInv ==
    ASSUME ScanInv, RunChecks
    PROVE  ScanInv'
<1> USE DEF ScanInv, RunChecks
<1>1. scan \in Scans
  BY ScanTyped
<1> DEFINE clean == Loads(scan.list, scan.settings)
                    /\ Clean(scan.settings, scan.list, scan.tree)
<1>2. clean \in BOOLEAN
  BY DEF Loads, Clean
<1>3. scan' \in Scans /\ scan'.at = "done" /\ scan'.tree = scan.tree /\ scan'.fault = scan.fault
      /\ scan'.accepted = clean
  BY <1>1, <1>2 DEF Scans
<1>4. PushScanTypeOK' /\ Copied'
  BY <1>3 DEF PushScanTypeOK, Scanning, Copied, Apart
<1>5. scan.settings \in selections /\ scan.list \in exempts /\ ~scan.tree.own /\ scan.fault = "none"
  BY <1>1 DEF Copied
<1>6. Verdict'
  BY <1>3, <1>5 DEF Verdict, Decided
<1> QED BY <1>4, <1>6

\* The operator's changes leave the scan alone and stay in the histories.
LEMMA OperatorInv ==
    ASSUME ScanInv, UNCHANGED scan,
           selection' \in Settings, exempt' \subseteq Exemptions,
           form' \in [WhitelistForms -> [at : {"idle", "write", "rename"}, list : SUBSET Exemptions]],
           exemptTmp' \in [there : BOOLEAN, list : SUBSET Exemptions],
           ~exemptTmp'.there => exemptTmp' = NoTmp,
           selections' = IF Scanning THEN selections \cup {selection'} ELSE selections,
           exempts' = IF Scanning THEN exempts \cup {exempt'} ELSE exempts,
           scanEdits' \in 0 .. MaxScanEdits
    PROVE  ScanInv'
<1>1. PushScanTypeOK'
  BY DEF ScanInv, PushScanTypeOK, Scanning
<1>2. Copied' /\ Verdict'
  BY DEF ScanInv, Copied, Verdict, Decided, Scanning, Apart
<1> QED BY <1>1, <1>2 DEF ScanInv

\* The operator changes the settings.
LEMMA SettingsInv ==
    ASSUME ScanInv, NEW k \in Settings, ChangeSettings(k)
    PROVE  ScanInv'
<1>1. scanEdits' \in 0 .. MaxScanEdits
  BY PushScanAssumption DEF ScanInv, PushScanTypeOK, ChangeSettings, Counted
<1> QED BY <1>1, OperatorInv DEF ScanInv, PushScanTypeOK, ChangeSettings, Counted

\* The operator's requests about the whitelist.
LEMMA RequestInv ==
    ASSUME ScanInv, NEW f \in WhitelistForms, NEW e \in Exemptions,
           BeginAdd(f, e) \/ BeginRemove(f, e)
    PROVE  ScanInv'
<1> DEFINE list == IF BeginAdd(f, e) THEN exempt \cup {e} ELSE {d \in exempt : ~SameKey(d, e)}
<1>1. list \in SUBSET Exemptions
  BY DEF ScanInv, PushScanTypeOK
<1>2. form' = [form EXCEPT ![f] = [at |-> "write", list |-> list]]
  BY DEF BeginAdd, BeginRemove
<1>3. form' \in [WhitelistForms -> [at : {"idle", "write", "rename"}, list : SUBSET Exemptions]]
  BY <1>1, <1>2 DEF ScanInv, PushScanTypeOK
<1>4. scanEdits' \in 0 .. MaxScanEdits
  BY PushScanAssumption DEF ScanInv, PushScanTypeOK, BeginAdd, BeginRemove, Counted
<1>5. UNCHANGED <<selection, exempt, exemptTmp, scan, selections, exempts>>
  BY DEF BeginAdd, BeginRemove
<1>6. Scanning => selection \in selections /\ exempt \in exempts
  BY DEF ScanInv, PushScanTypeOK
<1>7. /\ selection' \in Settings /\ exempt' \subseteq Exemptions
      /\ exemptTmp' \in [there : BOOLEAN, list : SUBSET Exemptions]
      /\ ~exemptTmp'.there => exemptTmp' = NoTmp
  BY <1>5 DEF ScanInv, PushScanTypeOK
<1>8. /\ selections' = IF Scanning THEN selections \cup {selection'} ELSE selections
      /\ exempts' = IF Scanning THEN exempts \cup {exempt'} ELSE exempts
  BY <1>5, <1>6
<1> QED BY <1>3, <1>4, <1>5, <1>7, <1>8, OperatorInv

\* The file is replaced, or lost to another request.
LEMMA ReplaceInv ==
    ASSUME ScanInv, NEW f \in WhitelistForms, WriteTmp(f) \/ RenameTmp(f)
    PROVE  ScanInv'
<1> USE DEF ScanInv, PushScanTypeOK
<1> DEFINE TmpTyped == /\ exemptTmp \in [there : BOOLEAN, list : SUBSET Exemptions]
                       /\ ~exemptTmp.there => exemptTmp = NoTmp
<1>1. form[f] \in [at : {"idle", "write", "rename"}, list : SUBSET Exemptions]
  OBVIOUS
<1>2. Scanning => selections \cup {selection} = selections /\ exempts \cup {exempt} = exempts
  <2>1. Scanning => selection \in selections /\ exempt \in exempts
    OBVIOUS
  <2> QED BY <2>1
<1>3. CASE WriteTmp(f)
  <2>1. form' \in [WhitelistForms -> [at : {"idle", "write", "rename"}, list : SUBSET Exemptions]]
    BY <1>1, <1>3 DEF WriteTmp
  <2>2. TmpTyped'
    BY <1>1, <1>3 DEF WriteTmp
  <2>3. UNCHANGED <<selection, exempt, scan, selections, exempts, scanEdits>>
    BY <1>3 DEF WriteTmp
  <2>4. /\ selections' = IF Scanning THEN selections \cup {selection'} ELSE selections
        /\ exempts' = IF Scanning THEN exempts \cup {exempt'} ELSE exempts
    BY <1>2, <2>3
  <2> QED BY <2>1, <2>2, <2>3, <2>4, OperatorInv
<1>4. CASE RenameTmp(f)
  <2>1. form' \in [WhitelistForms -> [at : {"idle", "write", "rename"}, list : SUBSET Exemptions]]
    BY <1>4 DEF RenameTmp, IdleForm
  <2>2. UNCHANGED <<selection, scan, selections, scanEdits>>
    BY <1>4 DEF RenameTmp
  <2>3. selections' = IF Scanning THEN selections \cup {selection'} ELSE selections
    BY <1>2, <2>2
  <2>4. CASE exemptTmp.there
    <3>1. exempt' = exemptTmp.list /\ exemptTmp' = NoTmp
          /\ exempts' = IF Scanning THEN exempts \cup {exempt'} ELSE exempts
      BY <1>4, <2>4 DEF RenameTmp
    <3>2. TmpTyped' /\ exempt' \subseteq Exemptions
      BY <3>1 DEF NoTmp
    <3> QED BY <2>1, <2>2, <2>3, <3>1, <3>2, OperatorInv
  <2>5. CASE ~exemptTmp.there
    <3>1. exempt' = exempt /\ exemptTmp' = exemptTmp /\ exempts' = exempts
      BY <1>4, <2>5 DEF RenameTmp
    <3>2. TmpTyped' /\ exempt' \subseteq Exemptions
      BY <3>1
    <3>3. exempts' = IF Scanning THEN exempts \cup {exempt'} ELSE exempts
      BY <1>2, <3>1
    <3> QED BY <2>1, <2>2, <2>3, <3>2, <3>3, OperatorInv
  <2> QED BY <2>4, <2>5
<1> QED BY <1>3, <1>4

\* Every step keeps the invariant.
LEMMA ScanNextInv == ScanInv /\ [PushScanNext]_scanVars => ScanInv'
<1> SUFFICES ASSUME ScanInv, [PushScanNext]_scanVars PROVE ScanInv' OBVIOUS
<1>1. CASE \E t \in Trees : PushArrives(t)
  BY <1>1, ArrivalInv
<1>2. CASE StagingFails
  BY <1>2, FaultInv DEF StagingFails, Scanning
<1>3. CASE CopySettings \/ ListKept \/ CopyWhitelist \/ CopyTmp
  BY <1>3, CopyInv
<1>4. CASE RunChecks
  BY <1>4, VerdictInv
<1>5. CASE ScanTimesOut
  BY <1>5, FaultInv DEF ScanTimesOut, Scanning
<1>6. CASE \E s \in Selections : SelectFrames(s)
  <2>1. PICK s \in Selections : SelectFrames(s)
    BY <1>6
  <2>2. [selection EXCEPT !.frames = s] \in Settings
    BY DEF ScanInv, PushScanTypeOK, Settings
  <2> QED BY <2>1, <2>2, SettingsInv DEF SelectFrames
<1>7. CASE \E l \in ScanLinters : ToggleLinter(l)
  <2>1. PICK l \in ScanLinters : ToggleLinter(l)
    BY <1>7
  <2>2. [selection EXCEPT !.linters = (@ \cup {l}) \ (@ \cap {l})] \in Settings
    BY DEF ScanInv, PushScanTypeOK, Settings
  <2> QED BY <2>1, <2>2, SettingsInv DEF ToggleLinter
<1>8. CASE \E c \in ScanChecks : FlipSeverity(c)
  <2>1. PICK c \in ScanChecks : FlipSeverity(c)
    BY <1>8
  <2>2. [selection EXCEPT !.flipped = (@ \cup {c}) \ (@ \cap {c})] \in Settings
    BY DEF ScanInv, PushScanTypeOK, Settings
  <2> QED BY <2>1, <2>2, SettingsInv DEF FlipSeverity
<1>9. CASE \E p \in SUBSET TreeFiles : ExcludePaths(p)
  <2>1. PICK p \in SUBSET TreeFiles : ExcludePaths(p)
    BY <1>9
  <2>2. [selection EXCEPT !.excluded = p] \in Settings
    BY DEF ScanInv, PushScanTypeOK, Settings
  <2> QED BY <2>1, <2>2, SettingsInv DEF ExcludePaths
<1>10. CASE \E f \in WhitelistForms, e \in Exemptions : BeginAdd(f, e) \/ BeginRemove(f, e)
  BY <1>10, RequestInv
<1>11. CASE \E f \in WhitelistForms : WriteTmp(f) \/ RenameTmp(f)
  BY <1>11, ReplaceInv
<1>12. CASE UNCHANGED scanVars
  BY <1>12 DEF scanVars, ScanInv, PushScanTypeOK, Copied, Verdict, Decided, Scanning, Apart
<1> QED
  BY <1>1, <1>2, <1>3, <1>4, <1>5, <1>6, <1>7, <1>8, <1>9, <1>10, <1>11, <1>12 DEF PushScanNext

LEMMA ScanInvariant == PushScanSpec => []ScanInv
  BY ScanInitInv, ScanNextInv, PTL DEF PushScanSpec

-----------------------------------------------------------------------------
(* The theorems.                                                           *)

\* The settings, the whitelist files and the scan keep their types, and what is in force
\* is on the record of what was.
THEOREM ScanTypeCorrect == PushScanSpec => []PushScanTypeOK
<1>1. ScanInv => PushScanTypeOK
  BY DEF ScanInv
<1> QED BY <1>1, ScanInvariant, PTL

\* In an accepted push nothing is left that was on and blocking, in a file scanned, for as
\* long as the scan lasted, and that no whitelist of that time exempted.
THEOREM NothingSlipsCorrect == PushScanSpec => []NothingSlips
<1>1. ScanInv => NothingSlips
  <2> SUFFICES ASSUME ScanInv, Decided, scan.accepted
               PROVE  /\ \A h \in scan.tree.hits :
                            \/ ~CanRun(h[1], scan.tree)
                            \/ \E k \in selections : LenientAt(h, k)
                            \/ \E L \in exempts : SparedBy(h, L)
                      /\ \A c \in scan.tree.whole : \E k \in selections : Lenient(c, k)
    BY DEF NothingSlips
  <2>1. PICK k \in selections, L \in exempts : ~scan.tree.own /\ Clean(k, L, scan.tree)
    BY DEF ScanInv, Verdict
  <2>2. scan.tree \in TreesOf /\ Apart(scan.tree) /\ k \in Settings
    BY ScanTyped DEF ScanInv, PushScanTypeOK, Copied, Decided, Scans
  <2>3. \A h \in scan.tree.hits : ~CanRun(h[1], scan.tree) \/ LenientAt(h, k) \/ SparedBy(h, L)
    BY <2>1, <2>2, CleanLeavesNoHit
  <2>4. \A c \in scan.tree.whole : Lenient(c, k)
    BY <2>1, <2>2, CleanLeavesNoReport
  <2> QED BY <2>3, <2>4
<1> QED BY <1>1, ScanInvariant, PTL

\* A push whose findings are all excused all the while the scan lasts is accepted, as long
\* as the hook can stage, copy and finish and the whitelist names what stays known.
THEOREM CleanAcceptedCorrect == PushScanSpec => []CleanAccepted
<1>1. ScanInv => CleanAccepted
  <2> SUFFICES ASSUME ScanInv, Decided, scan.fault = "none",
                      \A L \in exempts : \A e \in L : Lasting(e.spec),
                      \A h \in scan.tree.hits :
                         \/ \A k \in selections : LenientAt(h, k)
                         \/ \A L \in exempts : SparedBy(h, L),
                      \A c \in scan.tree.whole : \A k \in selections : Lenient(c, k)
               PROVE  scan.accepted
    BY DEF CleanAccepted
  <2>1. PICK k \in selections, L \in exempts :
           ~scan.tree.own /\ (scan.accepted <=> Loads(L, k) /\ Clean(k, L, scan.tree))
    BY DEF ScanInv, Verdict
  <2>2. scan.tree \in TreesOf /\ selections \subseteq Settings /\ L \in SUBSET Exemptions
    BY ScanTyped DEF ScanInv, PushScanTypeOK, Decided, Scans
  <2>3. Loads(L, k)
    BY <2>2, LastingLoads
  <2>4. Clean(k, L, scan.tree)
    BY <2>1, <2>2, ExcusedIsClean
  <2> QED BY <2>1, <2>3, <2>4
<1> QED BY <1>1, ScanInvariant, PTL

-----------------------------------------------------------------------------
(* Staged trees.                                                           *)

DirNames == {"", "chosen"}
TreeStates ==
    [st : {"none", "held", "orphan", "gone", "lost"}, kind : {"gate", "first", "preview"},
     place : StagingPlaces \cup {"tmp"}, asked : DirNames, born : Nat, deadline : BOOLEAN]
Sweepers == [up : BOOLEAN, place : StagingPlaces \cup {"none"}, asked : DirNames, since : Nat,
             next : Nat, last : Nat, failed : SUBSET Tasks]

StagingTypes ==
    /\ conf \in Confs /\ usable \subseteq StagingPlaces
    /\ staged \in [Stagers -> TreeStates]
    /\ sweeper \in Sweepers
    /\ tick \in Nat

Present(s) == staged[s].st \in {"held", "orphan"}

\* A tree is where its configuration says, or in $TMPDIR; one under a scan with a deadline is
\* of now; one that is lost was scanned without.
TreesStand ==
    \A s \in Stagers :
        /\ staged[s].born <= tick
        /\ Present(s) /\ staged[s].place # "tmp" => staged[s].place = Wanted(staged[s].asked, "root")
        /\ staged[s].st = "held" /\ staged[s].deadline => staged[s].born = tick
        /\ staged[s].st = "lost" => ~staged[s].deadline

\* The sweeper is on time, and looks where its configuration says, or nowhere.
SweeperStands ==
    sweeper.up =>
        /\ tick <= sweeper.next /\ sweeper.next <= tick + SweepEvery
        /\ sweeper.place # "none" => sweeper.place = Wanted(sweeper.asked, "root")

\* Its last sweep, if there was one and it did not fail, left no tree in its place that was
\* old: those that are there came since, or were young.
LeftYoung(s) ==
    /\ Present(s) /\ staged[s].place # "tmp"
    /\ sweeper.up /\ sweeper.asked = staged[s].asked /\ sweeper.place # "none"
    => \/ sweeper.next <= staged[s].born + SweepEvery
       \/ sweeper.next <= sweeper.since + SweepEvery
       \/ "orphans" \in sweeper.failed

StagingInv ==
    StagingTypes /\ TreesStand /\ SweeperStands /\ \A s \in Stagers : LeftYoung(s)

LEMMA SweepEveryPositive == SweepEvery \in Nat /\ SweepEvery >= 1
BY ScanStagingAssumption DEF ScanStagingAssumption

LEMMA FirstTree ==
    /\ NoTree \in TreeStates /\ NoTree.st = "none" /\ NoTree.born = 0
    /\ [NoTree EXCEPT !.st = "gone"] \in TreeStates
    /\ [NoTree EXCEPT !.st = "gone"].st = "gone" /\ [NoTree EXCEPT !.st = "gone"].born = 0
<1>1. NoTree \in TreeStates
  BY DEF NoTree, TreeStates, DirNames, StagingPlaces
<1>2. [NoTree EXCEPT !.st = "gone"] \in TreeStates
  BY <1>1 DEF TreeStates
<1> QED BY <1>1, <1>2 DEF NoTree

LEMMA ConfigTypes ==
    ASSUME StagingTypes
    PROVE  GatewayConfig.dir \in DirNames /\ GatewayConfig.deadline \in BOOLEAN
<1>1. conf.dir \in DirNames /\ conf.deadline \in BOOLEAN
  BY DEF StagingTypes, Confs, DirNames
<1>2. CASE conf.kind = "ok"
  BY <1>1, <1>2 DEF GatewayConfig
<1>3. CASE conf.kind = "badNumber"
  BY <1>1, <1>3 DEF GatewayConfig
<1>4. CASE conf.kind \notin {"ok", "badNumber"}
  BY <1>4 DEF GatewayConfig, DirNames
<1> QED BY <1>2, <1>3, <1>4

\* Whoever stages, and in whichever layout the repository is found, comes to the same place.
LEMMA ResolveTypes ==
    ASSUME StagingTypes, NEW dir \in DirNames, NEW root
    PROVE  /\ Resolve(dir, root) \in StagingPlaces \cup {"none"}
           /\ Resolve(dir, root) # "none" => Resolve(dir, root) = Wanted(dir, "root")
           /\ "none" \notin StagingPlaces /\ "tmp" \notin StagingPlaces
BY DEF Resolve, Wanted, DefaultDir, StagingTypes, StagingPlaces, DirNames

LEMMA StagingByStage ==
    ASSUME StagingInv, NEW s \in Stagers, NEW root, NEW kind \in {"gate", "first", "preview"},
           Stage(s, kind, root), UNCHANGED <<conf, usable, sweeper, tick>>
    PROVE  StagingInv'
<1> DEFINE dir == Resolve(GatewayConfig.dir, root)
           limit == kind = "gate" /\ GatewayConfig.deadline
           new == [st |-> "held", kind |-> kind, place |-> IF dir = "none" THEN "tmp" ELSE dir,
                   asked |-> GatewayConfig.dir, born |-> tick, deadline |-> limit]
<1>1. limit \in BOOLEAN
  OBVIOUS
<1>2. staged' = [staged EXCEPT ![s] = new]
  BY DEF Stage
<1>3. new \in TreeStates
  BY <1>1, ConfigTypes, ResolveTypes DEF StagingInv, StagingTypes, TreeStates
<1>4. new.place # "tmp" => new.place = Wanted(new.asked, "root")
  BY ConfigTypes, ResolveTypes DEF StagingInv
<1>5. new.st = "held" /\ new.born = tick
  OBVIOUS
<1> HIDE DEF new
<1>6. staged'[s] = new /\ \A t \in Stagers : t # s => staged'[t] = staged[t]
  BY <1>2 DEF StagingInv, StagingTypes
<1>7. StagingTypes'
  BY <1>2, <1>3 DEF StagingInv, StagingTypes
<1>8. TreesStand'
  BY <1>4, <1>5, <1>6 DEF StagingInv, StagingTypes, TreesStand, Present
<1>9. SweeperStands'
  BY DEF StagingInv, SweeperStands
<1>10. \A t \in Stagers : LeftYoung(t)'
  BY <1>5, <1>6, SweepEveryPositive
     DEF StagingInv, StagingTypes, SweeperStands, LeftYoung, Present
<1> QED BY <1>7, <1>8, <1>9, <1>10 DEF StagingInv

LEMMA StagingByEnd ==
    ASSUME StagingInv, NEW s \in Stagers, Unstage(s) \/ StagerDies(s)
    PROVE  StagingInv'
<1>1. /\ UNCHANGED <<conf, usable, sweeper, tick>>
      /\ \A t \in Stagers : t # s => staged'[t] = staged[t]
  BY DEF Unstage, StagerDies, StagingInv, StagingTypes
<1>2. \/ staged'[s] = [NoTree EXCEPT !.st = "gone"]
      \/ staged[s].st = "held" /\ staged'[s] = [staged[s] EXCEPT !.st = "orphan"]
  BY DEF Unstage, StagerDies, StagingInv, StagingTypes
<1>3. staged'[s] \in TreeStates
  <2>1. staged[s] \in TreeStates
    BY DEF StagingInv, StagingTypes
  <2>2. ASSUME NEW r \in TreeStates
        PROVE  [r EXCEPT !.st = "orphan"] \in TreeStates
    BY DEF TreeStates
  <2> QED BY <1>2, <2>1, <2>2, FirstTree
<1>4. /\ staged'[s].st \in {"gone", "orphan"}
      /\ staged'[s].st = "gone" => staged'[s].born = 0
      /\ staged'[s].st = "orphan" =>
            /\ staged[s].st = "held" /\ staged'[s].place = staged[s].place
            /\ staged'[s].asked = staged[s].asked /\ staged'[s].born = staged[s].born
  BY <1>2 DEF NoTree, StagingInv, StagingTypes, TreeStates
<1>5. StagingTypes'
  <2>1. staged' \in [Stagers -> TreeStates]
    BY <1>1, <1>3 DEF Unstage, StagerDies, StagingInv, StagingTypes
  <2> QED BY <1>1, <2>1 DEF StagingInv, StagingTypes
<1>6. TreesStand'
  BY <1>1, <1>4 DEF StagingInv, StagingTypes, TreesStand, Present
<1>7. SweeperStands'
  BY <1>1 DEF StagingInv, SweeperStands
<1>8. \A t \in Stagers : LeftYoung(t)'
  BY <1>1, <1>4 DEF StagingInv, LeftYoung, Present
<1> QED BY <1>5, <1>6, <1>7, <1>8 DEF StagingInv

\* A sweep that does not fail removes what is old in its place; what is under scan there and
\* old had no deadline.
LEMMA StagingBySweep ==
    ASSUME StagingInv, Sweep
    PROVE  StagingInv'
<1> DEFINE here == {s \in Old : staged[s].place = sweeper.place}
<1>1. PICK failed \in {{}, {"audit"}, {"orphans"}} :
          /\ \E removed \in IF "orphans" \in failed THEN SUBSET here ELSE {here} :
                staged' = [s \in Stagers |->
                    IF s \notin removed THEN staged[s]
                    ELSE IF staged[s].st = "held" THEN [staged[s] EXCEPT !.st = "lost"]
                    ELSE [NoTree EXCEPT !.st = "gone"]]
          /\ sweeper' = [sweeper EXCEPT !.next = tick + SweepEvery, !.last = tick,
                                        !.failed = failed]
  BY DEF Sweep
<1>2. PICK removed \in SUBSET here :
          /\ "orphans" \notin failed => removed = here
          /\ staged' = [s \in Stagers |->
                    IF s \notin removed THEN staged[s]
                    ELSE IF staged[s].st = "held" THEN [staged[s] EXCEPT !.st = "lost"]
                    ELSE [NoTree EXCEPT !.st = "gone"]]
  BY <1>1
<1>3. UNCHANGED <<conf, usable, tick>> /\ sweeper.up /\ tick \in Nat
  BY DEF Sweep, StagingInv, StagingTypes
<1>4. /\ sweeper'.up /\ sweeper'.place = sweeper.place /\ sweeper'.asked = sweeper.asked
      /\ sweeper'.since = sweeper.since /\ sweeper'.next = tick + SweepEvery
      /\ sweeper'.failed = failed
  BY <1>1, <1>3 DEF StagingInv, StagingTypes, Sweepers
<1>5. sweeper' \in Sweepers
  <2>1. failed \in SUBSET Tasks /\ tick + SweepEvery \in Nat
    BY <1>3, SweepEveryPositive DEF Tasks
  <2> QED BY <1>1, <1>3, <2>1 DEF StagingInv, StagingTypes, Sweepers
<1>6. \A s \in Stagers \ removed : staged'[s] = staged[s]
  BY <1>2
<1>7. \A s \in removed : /\ s \in Stagers /\ Present(s) /\ tick - staged[s].born >= 1
                         /\ staged[s].place = sweeper.place
  BY DEF Old, Present
<1>8. \A s \in removed : /\ staged'[s] \in TreeStates
                         /\ staged'[s].st = "lost" => staged[s].st = "held"
                         /\ staged'[s].st \in {"lost", "gone"}
                         /\ staged'[s].st = "lost" => /\ staged'[s].deadline = staged[s].deadline
                                                      /\ staged'[s].born = staged[s].born
                         /\ staged'[s].st = "gone" => staged'[s].born = 0
  <2> SUFFICES ASSUME NEW s \in removed
               PROVE  /\ staged'[s] \in TreeStates
                      /\ staged'[s].st = "lost" => staged[s].st = "held"
                      /\ staged'[s].st \in {"lost", "gone"}
                      /\ staged'[s].st = "lost" => /\ staged'[s].deadline = staged[s].deadline
                                                   /\ staged'[s].born = staged[s].born
                      /\ staged'[s].st = "gone" => staged'[s].born = 0
    OBVIOUS
  <2>1. s \in Stagers /\ staged[s] \in TreeStates
    BY <1>7 DEF StagingInv, StagingTypes
  <2>2. CASE staged[s].st = "held"
    <3>1. staged'[s] = [staged[s] EXCEPT !.st = "lost"]
      BY <1>2, <2>1, <2>2
    <3> QED BY <2>1, <2>2, <3>1 DEF TreeStates
  <2>3. CASE staged[s].st # "held"
    <3>1. staged'[s] = [NoTree EXCEPT !.st = "gone"]
      BY <1>2, <2>1, <2>3
    <3> QED BY <3>1, FirstTree
  <2> QED BY <2>2, <2>3
<1>9. StagingTypes'
  <2>1. staged' \in [Stagers -> TreeStates]
    <3>1. \A s \in Stagers : staged'[s] \in TreeStates
      BY <1>6, <1>8 DEF StagingInv, StagingTypes
    <3> QED BY <1>2, <3>1
  <2> QED BY <1>3, <1>5, <2>1 DEF StagingInv, StagingTypes
<1>10. TreesStand'
  <2> SUFFICES ASSUME NEW s \in Stagers
               PROVE  /\ staged'[s].born <= tick'
                      /\ Present(s)' /\ staged'[s].place # "tmp"
                            => staged'[s].place = Wanted(staged'[s].asked, "root")
                      /\ staged'[s].st = "held" /\ staged'[s].deadline => staged'[s].born = tick'
                      /\ staged'[s].st = "lost" => ~staged'[s].deadline
    BY DEF TreesStand, Wanted, DefaultDir
  <2>1. CASE s \notin removed
    BY <1>3, <1>6, <2>1 DEF StagingInv, TreesStand, Present
  <2>2. CASE s \in removed
    <3>1. staged[s].born \in Nat
      BY DEF StagingInv, StagingTypes, TreeStates
    <3>2. staged[s].st = "held" => ~staged[s].deadline
      BY <1>3, <1>7, <2>2, <3>1 DEF StagingInv, TreesStand
    <3> QED BY <1>3, <1>8, <2>2, <3>1, <3>2 DEF StagingInv, TreesStand, Present
  <2> QED BY <2>1, <2>2
<1>11. SweeperStands'
  BY <1>3, <1>4, SweepEveryPositive DEF StagingInv, SweeperStands
<1>12. \A s \in Stagers : LeftYoung(s)'
  <2> SUFFICES ASSUME NEW s \in Stagers, Present(s)', staged'[s].place # "tmp",
                      sweeper'.asked = staged'[s].asked, sweeper'.place # "none",
                      "orphans" \notin sweeper'.failed
               PROVE  sweeper'.next <= staged'[s].born + SweepEvery
    BY DEF LeftYoung
  <2>1. s \notin removed
    BY <1>8 DEF Present
  <2>2. staged'[s] = staged[s] /\ s \notin here
    BY <1>2, <1>4, <1>6, <2>1
  <2>3. staged[s].place = sweeper.place
    <3>1. Present(s) /\ staged[s].place # "tmp" /\ sweeper.asked = staged[s].asked
          /\ sweeper.place # "none"
      BY <1>4, <2>2 DEF Present
    <3>2. staged[s].place = Wanted(staged[s].asked, "root")
      BY <3>1 DEF StagingInv, TreesStand
    <3>3. sweeper.place = Wanted(sweeper.asked, "root")
      BY <1>3, <3>1 DEF StagingInv, SweeperStands
    <3> QED BY <3>1, <3>2, <3>3
  <2>4. s \notin Old
    BY <2>2, <2>3
  <2>5. ~(tick - staged[s].born >= 1) /\ staged[s].born \in Nat
    BY <2>2, <2>4 DEF Old, Present, StagingInv, StagingTypes, TreeStates
  <2> QED BY <1>3, <1>4, <2>2, <2>5, SweepEveryPositive
<1> QED BY <1>9, <1>10, <1>11, <1>12 DEF StagingInv

LEMMA StagingBySweeper ==
    ASSUME StagingInv, SweeperStarts \/ SweeperStops
    PROVE  StagingInv'
<1>1. UNCHANGED <<conf, usable, staged, tick>> /\ tick \in Nat
  BY DEF SweeperStarts, SweeperStops, StagingInv, StagingTypes
<1>2. SweeperDown \in Sweepers /\ ~SweeperDown.up
  BY DEF SweeperDown, Sweepers, DirNames
<1>3. CASE SweeperStops
  BY <1>1, <1>2, <1>3
     DEF SweeperStops, StagingInv, StagingTypes, TreesStand, Present, SweeperStands, LeftYoung
<1>4. CASE SweeperStarts
  <2> DEFINE dir == GatewayConfig.dir
             place == Resolve(GatewayConfig.dir, "root")
  <2>1. sweeper' = [SweeperDown EXCEPT !.up = TRUE, !.since = tick, !.next = tick + SweepEvery,
                                       !.asked = dir, !.place = place]
    BY <1>4 DEF SweeperStarts
  <2>2. /\ dir \in DirNames /\ place \in StagingPlaces \cup {"none"}
        /\ place # "none" => place = Wanted(dir, "root")
    BY ConfigTypes, ResolveTypes DEF StagingInv
  <2>3. tick + SweepEvery \in Nat
    BY <1>1, SweepEveryPositive
  <2> HIDE DEF dir, place
  <2>4. /\ sweeper' \in Sweepers /\ sweeper'.up /\ sweeper'.since = tick
        /\ sweeper'.next = tick + SweepEvery /\ sweeper'.asked = dir /\ sweeper'.place = place
    BY <1>1, <2>1, <2>2, <2>3 DEF SweeperDown, Sweepers
  <2>5. SweeperStands'
    BY <1>1, <2>2, <2>4, SweepEveryPositive DEF SweeperStands
  <2>6. \A s \in Stagers : LeftYoung(s)'
    BY <1>1, <2>3, <2>4, SweepEveryPositive DEF LeftYoung
  <2> QED BY <1>1, <2>4, <2>5, <2>6 DEF StagingInv, StagingTypes, TreesStand, Present
<1> QED BY <1>3, <1>4

LEMMA StagingByTick ==
    ASSUME StagingInv, Tick
    PROVE  StagingInv'
<1>1. /\ UNCHANGED <<conf, usable, staged, sweeper>> /\ tick \in Nat /\ tick' = tick + 1
      /\ sweeper.up => sweeper.next > tick
      /\ \A s \in Stagers : staged[s].st \in {"held", "lost"} => ~staged[s].deadline
      /\ sweeper.next \in Nat /\ \A s \in Stagers : staged[s].born \in Nat
  BY DEF Tick, StagingInv, StagingTypes, TreeStates, Sweepers
<1>2. TreesStand'
  BY <1>1 DEF StagingInv, TreesStand, Present
<1>3. SweeperStands'
  BY <1>1, SweepEveryPositive DEF StagingInv, SweeperStands
<1> QED BY <1>1, <1>2, <1>3 DEF StagingInv, StagingTypes, LeftYoung, Present

LEMMA StagingByStep ==
    ASSUME StagingInv, [ScanStagingNext]_stagingVars
    PROVE  StagingInv'
<1>1. ASSUME NEW s \in Stagers, NEW root, GateStages(s, root)
      PROVE  StagingInv'
  BY <1>1, StagingByStage DEF GateStages
<1>2. ASSUME NEW s \in Stagers, NEW root, NEW kind, OtherStages(s, kind, root)
      PROVE  StagingInv'
  BY <1>2, StagingByStage DEF OtherStages
<1>3. ASSUME NEW c \in Confs, EditGatewayConfig(c)
      PROVE  StagingInv'
  BY <1>3 DEF EditGatewayConfig, StagingInv, StagingTypes, TreesStand, SweeperStands, LeftYoung,
              Present
<1>4. ASSUME NEW place \in StagingPlaces, ChangeRights(place)
      PROVE  StagingInv'
  BY <1>4 DEF ChangeRights, StagingInv, StagingTypes, TreesStand, SweeperStands, LeftYoung,
              Present
<1>5. CASE UNCHANGED stagingVars
  BY <1>5 DEF stagingVars, StagingInv, StagingTypes, TreesStand, SweeperStands, LeftYoung, Present
<1> QED BY <1>1, <1>2, <1>3, <1>4, <1>5, StagingByEnd, StagingBySweep, StagingBySweeper,
           StagingByTick DEF ScanStagingNext

LEMMA StagingInvHolds == ScanStagingSpec => []StagingInv
<1>1. ScanStagingInit => StagingInv
  <2> SUFFICES ASSUME ScanStagingInit
               PROVE  StagingInv
    OBVIOUS
  <2>1. conf \in Confs
    <3>1. PICK dir \in {"", "chosen"} : conf = [kind |-> "ok", dir |-> dir, deadline |-> TRUE]
      BY DEF ScanStagingInit
    <3> QED BY <3>1 DEF Confs
  <2>2. SweeperDown \in Sweepers /\ ~SweeperDown.up
    BY DEF SweeperDown, Sweepers, DirNames
  <2>3. /\ usable \subseteq StagingPlaces /\ tick = 0 /\ sweeper = SweeperDown
        /\ staged = [s \in Stagers |-> NoTree]
    BY DEF ScanStagingInit
  <2> QED BY <2>1, <2>2, <2>3, FirstTree
          DEF StagingInv, StagingTypes, TreesStand, SweeperStands, LeftYoung, Present
<1>2. StagingInv /\ [ScanStagingNext]_stagingVars => StagingInv'
  BY StagingByStep
<1> QED BY <1>1, <1>2, PTL DEF ScanStagingSpec

\* The sweep takes a tree from under a scan only when that had no deadline, and takes what died
\* in time (SweptInTime), for any number of trees, any interval and any changes of the
\* configuration and the rights.
THEOREM SweptInTimeCorrect == ScanStagingSpec => []SweptInTime
<1>1. StagingInv => SweptInTime
  <2> SUFFICES ASSUME StagingInv, NEW s \in Stagers
               PROVE  /\ staged[s].st = "lost" => ~staged[s].deadline
                      /\ /\ staged[s].st = "orphan" /\ sweeper.up /\ sweeper.asked = staged[s].asked
                         /\ staged[s].place # "tmp" /\ sweeper.place # "none"
                         => \/ tick <= staged[s].born + 1 + SweepEvery
                            \/ tick <= sweeper.since + SweepEvery
                            \/ "orphans" \in sweeper.failed
    BY DEF SweptInTime
  <2>1. /\ staged[s].born \in Nat /\ sweeper.since \in Nat /\ sweeper.next \in Nat /\ tick \in Nat
        /\ LeftYoung(s) /\ (sweeper.up => tick <= sweeper.next)
        /\ staged[s].st = "lost" => ~staged[s].deadline
    BY DEF StagingInv, StagingTypes, TreeStates, Sweepers, SweeperStands, TreesStand
  <2> QED BY <2>1, SweepEveryPositive DEF LeftYoung, Present
<1> QED BY <1>1, StagingInvHolds, PTL

\* The configuration, the staged trees and the sweeper have their types; a fallback that is
\* recorded was at some time there was.
THEOREM StagingTypeCorrect == ScanStagingSpec => []ScanStagingTypeOK
<1> DEFINE Times == tick \in 0 .. MaxTicks /\ fallbacks \subseteq 0 .. MaxTicks
<1>1. ScanStagingInit => Times
  <2>1. MaxTicks \in Nat
    BY ScanStagingAssumption DEF ScanStagingAssumption
  <2>2. ScanStagingInit => tick = 0 /\ fallbacks = {}
    BY DEF ScanStagingInit
  <2> QED BY <2>1, <2>2
<1>2. Times /\ [ScanStagingNext]_stagingVars => Times'
  <2> SUFFICES ASSUME Times, [ScanStagingNext]_stagingVars PROVE Times'
    OBVIOUS
  <2>1. ASSUME NEW s \in Stagers, NEW root, GateStages(s, root)
        PROVE  Times'
    BY <2>1 DEF GateStages
  <2>2. ASSUME NEW s \in Stagers, NEW root, NEW kind, OtherStages(s, kind, root)
        PROVE  Times'
    BY <2>2 DEF OtherStages
  <2>3. ASSUME NEW s \in Stagers, Unstage(s) \/ StagerDies(s)
        PROVE  Times'
    BY <2>3 DEF Unstage, StagerDies
  <2>4. CASE SweeperStarts \/ SweeperStops \/ Sweep
    BY <2>4 DEF SweeperStarts, SweeperStops, Sweep
  <2>5. ASSUME NEW c, EditGatewayConfig(c)
        PROVE  Times'
    BY <2>5 DEF EditGatewayConfig
  <2>6. ASSUME NEW place, ChangeRights(place)
        PROVE  Times'
    BY <2>6 DEF ChangeRights
  <2>7. CASE Tick
    BY <2>7, ScanStagingAssumption DEF Tick, ScanStagingAssumption
  <2>8. CASE UNCHANGED stagingVars
    BY <2>8 DEF stagingVars
  <2> HIDE DEF Times
  <2> QED BY <2>1, <2>2, <2>3, <2>4, <2>5, <2>6, <2>7, <2>8 DEF ScanStagingNext
<1>3. StagingInv /\ Times => ScanStagingTypeOK
  BY DEF StagingInv, StagingTypes, TreeStates, Sweepers, ScanStagingTypeOK
<1> HIDE DEF Times
<1> QED BY <1>1, <1>2, <1>3, StagingInvHolds, PTL DEF ScanStagingSpec
=============================================================================
