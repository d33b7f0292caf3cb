------------------------------ MODULE Sessions ------------------------------
(***************************************************************************)
(* Logins, sessions and passwords: the pages of the club's browsers        *)
(* (Frontend/JS/authClient.js) with the cookie they share, the HTTP        *)
(* handlers of Backend/server.js, the queue per user of                    *)
(* Backend/postgresAuthService.js and the transactions of                  *)
(* Backend/db/repositories/identityRepository.js.                          *)
(*                                                                         *)
(* A password is a number: that of the change which set it.  What a page   *)
(* shows is represented by the session whose user and expiry it holds.     *)
(* Session names are reused once nothing refers to them.  Limits on        *)
(* attempts, and the sizes of delays, are left out.                        *)
(***************************************************************************)
EXTENDS Integers, Sequences, FiniteSets, FiniteSetsExt

CONSTANTS Scenes,           \* pages with their browsers, and what is asked, in each instance of a run
          Browsers,         \* browsers, whose pages share a cookie
          Accounts,         \* accounts, one per person
          Tokens, Requests, \* bounds: sessions and requests that something refers to (numbers)
          MaxSessions       \* SESSION_MAX_PER_USER
ASSUME BoundsAssumption == /\ Tokens \in SUBSET (Nat \ {0}) /\ Requests \in SUBSET (Nat \ {0})
                           /\ MaxSessions \in Nat \ {0} /\ 1..MaxSessions \subseteq Tokens
ASSUME NamesAssumption == /\ Accounts \in SUBSET (Nat \ {0}) /\ Accounts # {}
                          /\ \A s \in Scenes : /\ s.home \in [DOMAIN s.home -> Browsers]
                                               /\ DOMAIN s.home \subseteq Nat \ {0} /\ s.users \subseteq DOMAIN s.home
                                               /\ s.legacy \in BOOLEAN

VARIABLES scene,     \* home: the browser of each page; users: pages with a user; asks: what they and others do;
                     \* loaded: the pages know who is logged in; legacy: old hashes of the passwords;
                     \* bounds on mutations (logins, changes, acts of administrators) and on disturbances
                     \* (faults, late answers, events of the browser, expiries)
          acct,      \* rows of identity.user_accounts, credentials and password_authorizations
          tok,       \* rows of identity.sessions
          live,      \* the sessions that are not revoked
          newer,     \* of each of them, those with a later last_seen_at
          jar,       \* the session cookie of each browser
          page,      \* authClient.js on each page, and the session its socket was opened with
          req,       \* HTTP requests from send to answer
          queue,     \* userQueues: requests per account, the first one runs
          mutations, disturbed \* counters of the bounds
vars == <<scene, acct, tok, live, newer, jar, page, req, queue, mutations, disturbed>>
server == <<acct, tok, live, newer, queue>>

Nobody == 0       \* no session, no request, nobody logged in
Unknown == -1     \* the page has not learned yet who is logged in
Pages == DOMAIN scene.home
NoRequest == [kind |-> "none", page |-> Nobody, cookie |-> Nobody, acc |-> Nobody, pw |-> 0, pc |-> "none",
              rev |-> 0, ok |-> FALSE, shown |-> Nobody, set |-> Unknown, after |-> 0]
Disturb == disturbed < scene.disturbances /\ disturbed' = disturbed + 1
Mutate == mutations < scene.mutations /\ mutations' = mutations + 1
Free == {r \in Requests : req[r].kind = "none"}
Slot == Min(Free)

-----------------------------------------------------------------------------
(* The tables.                                                             *)

\* A session counts while it is not revoked and its account has not changed
Valid(t) == t \in live /\ acct[tok[t].acc].active /\ tok[t].rev = acct[tok[t].acc].rev
Principal(t) == IF Valid(t) THEN tok[t].acc ELSE Nobody
SessionsOf(a) == {t \in live : tok[t].acc = a}
\* Sessions are revoked, and one is seen
SessionsBecome(revoked, seen) ==
    /\ live' = (live \ revoked) \union seen
    /\ newer' = [t \in Tokens |-> IF t \in live \ revoked THEN (newer[t] \ revoked) \union seen ELSE {}]
Referenced == {jar[b] : b \in Browsers} \union {page[p].shown : p \in Pages} \union {page[p].prev : p \in Pages}
              \union {page[p].sock : p \in Pages} \union {req[r].cookie : r \in Requests}
              \union {req[r].shown : r \in Requests} \union {req[r].set : r \in Requests} \union live
NewToken == Min(Tokens \ Referenced)

\* The least recently used sessions beyond the limit, not counting the new one
TooMany(a) == {t \in SessionsOf(a) : Cardinality(newer[t] \intersect SessionsOf(a)) >= MaxSessions - 1}
\* createBoundedSession
CreateSession(a, pw) ==
    /\ tok' = [tok EXCEPT ![NewToken] = [acc |-> a, rev |-> acct[a].rev, pw |-> pw, old |-> FALSE]]
    /\ SessionsBecome(TooMany(a), {NewToken})
    /\ UNCHANGED acct
\* Only setting a password with an authorisation consumes it
Consumes(a, kind) == acct[a].open /\ kind = "setup"
\* replacePassword: a new secret, a new revision, and every session of the account revoked
ReplacePassword(a, kind, pw) ==
    /\ acct' = [acct EXCEPT ![a].pw = pw, ![a].rev = @ + 1, ![a].legacy = FALSE,
                            ![a].open = @ /\ ~Consumes(a, kind),
                            ![a].uses = IF kind = "setup" THEN @ + 1 ELSE @]
    /\ SessionsBecome(SessionsOf(a), {})
    /\ UNCHANGED tok
MayReplace(r) == LET a == req[r].acc IN
    /\ acct[a].active /\ acct[a].rev = req[r].rev
    /\ req[r].kind = "setup" => acct[a].open
FreshPassword(a) == acct[a].pw + 1

-----------------------------------------------------------------------------
(* The browser.                                                            *)

User(p) == IF page[p].shown > 0 THEN tok[page[p].shown].acc ELSE page[p].shown
Cookie(p) == jar[scene.home[p]]
\* refreshGeneration has been raised: the answer to an earlier refresh is ignored
NoRefresh(pg) == [pg EXCEPT !.fresh = Nobody, !.rec = "no", !.prev = Nobody]
SendGet(p, rec) ==
    /\ Free # {}
    /\ req' = [req EXCEPT ![Slot] = [NoRequest EXCEPT !.kind = "get", !.page = p, !.cookie = Cookie(p),
                                                      !.pc = "sent", !.after = page[p].done]]
    /\ page' = [page EXCEPT ![p].fresh = Slot, ![p].rec = rec, ![p].prev = page[p].shown,
                            ![p].told = @ /\ rec # "force", ![p].retry = @ /\ rec # "changed"]
    /\ UNCHANGED <<scene, jar, server, mutations>>

MutValidate(p) == page[p].fresh = Nobody /\ page[p].shown # Nobody /\ User(p) # Principal(Cookie(p))
                  /\ SendGet(p, "no") /\ UNCHANGED disturbed
\* The minute's validation, which does not reconnect the socket; when it has nothing to tell it counts as an Event
Validate(p) == page[p].fresh = Nobody /\ User(p) # Principal(Cookie(p)) /\ SendGet(p, "no") /\ UNCHANGED disturbed
\* The timer after a failed refresh, or after the expiry of the session
Retry(p) ==
    /\ page[p].retry \/ (page[p].shown > 0 /\ page[p].shown \notin live /\ page[p].fresh = Nobody)
    /\ SendGet(p, "changed") /\ UNCHANGED disturbed
\* A message of another page on the BroadcastChannel
Told(p) == page[p].told /\ SendGet(p, "force") /\ UNCHANGED disturbed
\* The page becomes visible, is shown again, hears AUTH_REQUIRED; or it is online again,
\* or the minute's validation comes while an answer is still awaited
Event(p) == Disturb /\ \E rec \in {"no", "changed"} : SendGet(p, rec)

\* runAuthMutation: one at a time on a page and, by a lock, in a browser
Unlocked(p) == \A q \in Pages : scene.home[q] = scene.home[p] => page[q].mut = Nobody
StartMutation(p, kind, a, pw) ==
    /\ kind \in scene.asks /\ Mutate /\ Free # {} /\ Unlocked(p)
    /\ req' = [req EXCEPT ![Slot] = [NoRequest EXCEPT !.kind = kind, !.page = p, !.cookie = Cookie(p),
                                                      !.acc = a, !.pw = pw, !.pc = "sent"]]
    /\ page' = [page EXCEPT ![p] = [IF kind = "change" THEN @ ELSE NoRefresh(@) EXCEPT !.mut = Slot]]
    /\ UNCHANGED <<scene, jar, server, disturbed>>
\* A login with the password or with an earlier one
Login(p) == \E a \in Accounts : \E pw \in 0..acct[a].pw : StartMutation(p, "login", a, pw)
Logout(p) == page[p].shown > 0 /\ StartMutation(p, "logout", Nobody, 0)
ChangePassword(p) == \E a \in Accounts : User(p) = a /\ \E pw \in 0..acct[a].pw : StartMutation(p, "change", Nobody, pw)
\* Requests of somebody else: setting the first password, an administrator setting one
SetPassword(kind, a) ==
    /\ kind \in scene.asks /\ Mutate /\ Free # {}
    /\ req' = [req EXCEPT ![Slot] = [NoRequest EXCEPT !.kind = kind, !.acc = a, !.pc = "sent"]]
    /\ UNCHANGED <<scene, jar, page, server, disturbed>>

Restarted(pg, p, cookie) == [pg EXCEPT ![p].sock = cookie]
TellOthers(pg, p) == [q \in Pages |-> IF q # p /\ scene.home[q] = scene.home[p] THEN [pg[q] EXCEPT !.told = TRUE] ELSE pg[q]]
MutSupersedes(p) == page[p].mut # Nobody /\ req[page[p].mut].kind = "logout"
\* Login and logout raise refreshGeneration again when they are answered; changePassword does not
Supersedes(p) == page[p].mut # Nobody /\ req[page[p].mut].kind # "change"
\* What the page does with an answer that concerns it; cookie is the browser's after the answer
Refreshed(r, cookie) ==
    LET p == req[r].page
        seen == IF req[r].ok THEN req[r].shown ELSE page[p].shown
        changed == page[p].prev = Unknown \/ page[p].prev # seen
        done == [page EXCEPT ![p] = [NoRefresh(@) EXCEPT !.shown = seen, !.retry = ~req[r].ok]]
    IN IF page[p].rec = "force" \/ (page[p].rec = "changed" /\ changed) THEN Restarted(done, p, cookie) ELSE done
Mutated(r, cookie) ==
    LET p == req[r].page
        next == IF Supersedes(p) THEN NoRefresh(page[p]) ELSE page[p]
        pg == [page EXCEPT ![p] = [next EXCEPT !.mut = Nobody, !.shown = req[r].shown, !.retry = FALSE,
                                               !.done = IF req[r].kind = "change" THEN @ ELSE @ + 1]]
    IN TellOthers(Restarted(pg, p, cookie), p)
CookiesAfter(r) == IF req[r].set = Unknown \/ req[r].page = Nobody THEN jar
                   ELSE [jar EXCEPT ![scene.home[req[r].page]] = req[r].set]
Answered(r) ==
    LET p == req[r].page
        cookie == CookiesAfter(r)
    IN /\ req[r].pc = "answered"
       /\ jar' = cookie
       /\ page' = IF p = Nobody \/ (req[r].kind = "get" /\ page[p].fresh # r) THEN page
                  ELSE IF req[r].kind = "get" THEN Refreshed(r, cookie[scene.home[p]])
                  ELSE IF req[r].ok THEN Mutated(r, cookie[scene.home[p]])
                  ELSE [page EXCEPT ![p].mut = Nobody]
       /\ req' = [req EXCEPT ![r] = NoRequest]
       /\ UNCHANGED <<scene, server, mutations, disturbed>>
\* The browser gives up, loses the answer (perhaps after its headers), or cannot send: the server may
\* still handle the request
GiveUp(r) ==
    LET p == req[r].page IN
    /\ Disturb /\ req[r].kind # "none" /\ p # Nobody
    /\ \/ req' = [req EXCEPT ![r].page = Nobody] /\ UNCHANGED jar
       \/ req[r].pc = "sent" /\ req' = [req EXCEPT ![r] = NoRequest] /\ UNCHANGED jar
       \/ req[r].pc = "answered" /\ req' = [req EXCEPT ![r] = NoRequest] /\ jar' = CookiesAfter(r)
    /\ page' = IF page[p].mut = r THEN [page EXCEPT ![p].mut = Nobody]
               ELSE IF page[p].fresh = r THEN [page EXCEPT ![p] = [NoRefresh(@) EXCEPT !.retry = TRUE]]
               ELSE page
    /\ UNCHANGED <<scene, server, mutations>>

-----------------------------------------------------------------------------
(* The server.                                                             *)

Reply(r, ok, shown, set) ==
    req' = [req EXCEPT ![r].pc = "answered", ![r].ok = ok, ![r].shown = shown, ![r].set = set]
Fails(r) == Reply(r, FALSE, Nobody, Unknown)
Leave(r) == queue' = [queue EXCEPT ![req[r].acc] = Tail(@)]
Goto(r, pc) == req' = [req EXCEPT ![r].pc = pc]
MutAtHead(r) == req[r].acc # Nobody /\ \E i \in DOMAIN queue[req[r].acc] : queue[req[r].acc][i] = r
AtHead(r) == req[r].acc # Nobody /\ queue[req[r].acc] # <<>> /\ Head(queue[req[r].acc]) = r
still == <<scene, jar, page, mutations, disturbed>>

Extend(t) == /\ tok' = [tok EXCEPT ![t].old = FALSE]
             /\ SessionsBecome({t}, {t})
RevokeSession(t) == SessionsBecome({t}, {}) /\ UNCHANGED tok
\* GET: the session is read and, once per interval, extended together with its cookie
GetSession(r) ==
    LET t == req[r].cookie IN
    /\ req[r].kind = "get" /\ req[r].pc = "sent"
    /\ IF ~Valid(t) THEN Reply(r, TRUE, Nobody, Unknown) /\ UNCHANGED <<tok, live, newer>>
       ELSE IF ~tok[t].old THEN Reply(r, TRUE, t, Unknown) /\ UNCHANGED <<tok, live, newer>>
       ELSE Reply(r, TRUE, t, t) /\ Extend(t)
    /\ UNCHANGED <<still, acct, queue>>
\* DELETE: the session is revoked and the cookie cleared
DeleteSession(r) ==
    /\ req[r].kind = "logout" /\ req[r].pc = "sent"
    /\ RevokeSession(req[r].cookie)
    /\ Reply(r, TRUE, Nobody, Nobody)
    /\ UNCHANGED <<still, acct, queue>>

\* Checks before the queue: an account, a session, an authorisation
Admitted(r) == CASE req[r].kind = "login"  -> acct[req[r].acc].active
                 [] req[r].kind = "change" -> Valid(req[r].cookie)
                 [] req[r].kind = "setup"  -> acct[req[r].acc].active /\ acct[req[r].acc].open
                 [] OTHER                  -> TRUE
\* runForUser: after everything that was asked for this user before
Enqueued(a, r) == [queue EXCEPT ![a] = Append(@, r)]
Enter(r) ==
    /\ req[r].kind \in {"login", "change", "setup", "set"} /\ req[r].pc = "sent"
    /\ IF Admitted(r)
       THEN LET a == IF req[r].kind = "change" THEN tok[req[r].cookie].acc ELSE req[r].acc IN
            /\ queue' = Enqueued(a, r)
            /\ req' = [req EXCEPT ![r].acc = a, ![r].pc = "queued"]
       ELSE Fails(r) /\ UNCHANGED queue
    /\ UNCHANGED <<still, acct, tok, live, newer>>
\* The first reads inside the queue, and the verification of the password given
Verified(r) == LET a == req[r].acc IN
    CASE req[r].kind = "login"  -> acct[a].active /\ req[r].pw = acct[a].pw
      [] req[r].kind = "change" -> Valid(req[r].cookie) /\ req[r].pw = acct[a].pw
      [] req[r].kind = "setup"  -> acct[a].open
      [] OTHER                  -> TRUE
Verify(r) ==
    LET a == req[r].acc IN
    /\ req[r].pc = "queued" /\ AtHead(r)
    /\ IF Verified(r)
       THEN /\ req' = [req EXCEPT ![r].rev = acct[a].rev,
                                  ![r].pc = IF req[r].kind = "login" /\ ~acct[a].legacy THEN "current" ELSE "replace"]
            /\ UNCHANGED queue
       ELSE Fails(r) /\ Leave(r)
    /\ UNCHANGED <<still, acct, tok, live, newer>>
\* A login replaces an old hash by one of the same password; the others set a new password
Replaces(r) == ReplacePassword(req[r].acc, req[r].kind, IF req[r].kind = "login" THEN req[r].pw ELSE FreshPassword(req[r].acc))
Replace(r) ==
    LET a == req[r].acc IN
    /\ req[r].pc = "replace" /\ AtHead(r)
    /\ \/ /\ MayReplace(r) /\ Replaces(r)
          /\ CASE req[r].kind = "login"  -> Goto(r, "current") /\ UNCHANGED queue
               [] req[r].kind = "change" -> /\ req' = [req EXCEPT ![r].pc = "create", ![r].rev = @ + 1,
                                                                  ![r].pw = FreshPassword(a)]
                                            /\ UNCHANGED queue
               [] OTHER                  -> Reply(r, TRUE, Nobody, Unknown) /\ Leave(r)
       \/ /\ ~MayReplace(r) /\ Fails(r) /\ Leave(r)
          /\ UNCHANGED <<acct, tok, live, newer>>
    /\ UNCHANGED still
\* login reads the account once more
ReadCurrent(r) ==
    /\ req[r].pc = "current" /\ AtHead(r)
    /\ req' = [req EXCEPT ![r].rev = acct[req[r].acc].rev, ![r].pc = "create"]
    /\ UNCHANGED <<still, server>>
MayCreate(r) == acct[req[r].acc].active /\ acct[req[r].acc].rev = req[r].rev
Create(r) ==
    LET a == req[r].acc IN
    /\ req[r].pc = "create" /\ AtHead(r)
    /\ IF MayCreate(r)
       THEN Tokens \ Referenced # {} /\ CreateSession(a, req[r].pw) /\ Reply(r, TRUE, NewToken, NewToken)
       ELSE Fails(r) /\ UNCHANGED <<acct, tok, live, newer>>
    /\ Leave(r) /\ UNCHANGED still
\* A step of the handler fails; a transaction may have been committed nevertheless
StepFails(r) ==
    /\ Disturb /\ req[r].pc \in {"sent", "queued", "current", "replace", "create"}
    /\ (req[r].pc # "sent" => AtHead(r))
    /\ Fails(r)
    /\ IF req[r].pc = "sent" THEN UNCHANGED queue ELSE Leave(r)
    /\ \/ UNCHANGED <<acct, tok, live, newer>>
       \/ (req[r].pc = "replace" /\ MayReplace(r) /\ Replaces(r))
       \/ (req[r].pc = "create" /\ MayCreate(r) /\ Tokens \ Referenced # {} /\ CreateSession(req[r].acc, req[r].pw))
    /\ UNCHANGED <<scene, jar, page, mutations>>
\* The process ends and is started again: what it was working on fails
Restart ==
    /\ Disturb
    /\ req' = [r \in Requests |-> IF req[r].pc \in {"none", "answered"} THEN req[r]
                                  ELSE [req[r] EXCEPT !.pc = "answered"]]
    /\ queue' = [a \in Accounts |-> <<>>]
    /\ UNCHANGED <<scene, acct, tok, live, newer, jar, page, mutations>>

\* An administrator grants or withdraws the authorisation to set a password
Authorise(a) ==
    /\ "authorise" \in scene.asks /\ Mutate
    /\ \E allowed \in BOOLEAN :
          acct' = [acct EXCEPT ![a].open = allowed, ![a].grants = IF allowed THEN @ + 1 ELSE @]
    /\ UNCHANGED <<scene, tok, live, newer, jar, page, req, queue, disturbed>>
\* An administrator closes the account of a person, or changes her roles: her sessions are revoked
PersonChanged(a) ==
    /\ Disturb /\ acct[a].active
    /\ \E closed \in BOOLEAN : acct' = IF closed THEN [acct EXCEPT ![a].active = FALSE, ![a].rev = @ + 1] ELSE acct
    /\ SessionsBecome(SessionsOf(a), {})
    /\ UNCHANGED <<scene, tok, jar, page, req, queue, mutations>>
Expire(t) ==
    /\ Disturb /\ t \in live
    /\ SessionsBecome({t}, {})
    /\ UNCHANGED <<scene, acct, tok, jar, page, req, queue, mutations>>

-----------------------------------------------------------------------------
NoToken == [acc |-> Nobody, rev |-> 0, pw |-> 0, old |-> FALSE]
\* One session of the first account, whose cookie the first browser has, and MaxSessions - 1 of other devices
Init ==
    /\ scene \in Scenes
    /\ acct = [a \in Accounts |-> [active |-> TRUE, pw |-> 0, legacy |-> scene.legacy, rev |-> 1, open |-> FALSE,
                                   grants |-> 0, uses |-> 0]]
    /\ tok = [t \in Tokens |-> IF t <= MaxSessions THEN [NoToken EXCEPT !.acc = Min(Accounts), !.rev = 1, !.old = TRUE]
                               ELSE NoToken]
    /\ live = 1..MaxSessions
    /\ newer = [t \in Tokens |-> (t + 1)..MaxSessions]
    /\ jar = [b \in Browsers |-> IF b = Min(Browsers) THEN MaxSessions ELSE Nobody]
    /\ req = [r \in Requests |-> NoRequest]
    /\ page = [p \in Pages |-> [shown |-> IF scene.loaded THEN Cookie(p) ELSE Unknown, fresh |-> Nobody, rec |-> "no", prev |-> Nobody, mut |-> Nobody,
                                sock |-> jar[scene.home[p]], told |-> FALSE, retry |-> FALSE, done |-> 0]]
    /\ queue = [a \in Accounts |-> <<>>]
    /\ mutations = 0 /\ disturbed = 0

PageNames == UNION {DOMAIN s.home : s \in Scenes}
PageSteps(p) == p \in Pages /\ (Validate(p) \/ Retry(p) \/ Told(p))
Browser == \E p \in Pages : PageSteps(p)
Serve(r) == \/ GetSession(r) \/ DeleteSession(r) \/ Enter(r) \/ Verify(r)
            \/ Replace(r) \/ ReadCurrent(r) \/ Create(r) \/ Answered(r)
Users == \/ \E p \in scene.users : Login(p) \/ Logout(p) \/ ChangePassword(p)
         \/ \E a \in Accounts : SetPassword("setup", a) \/ SetPassword("set", a) \/ Authorise(a)
Disturbance == \/ \E p \in Pages : Event(p)
               \/ \E r \in Requests : GiveUp(r) \/ StepFails(r)
               \/ \E a \in Accounts : PersonChanged(a)
               \/ \E t \in Tokens : Expire(t)
               \/ Restart
Next == Browser \/ (\E r \in Requests : Serve(r)) \/ Users \/ Disturbance
Spec == Init /\ [][Next]_vars /\ (\A r \in Requests : WF_vars(Serve(r))) /\ (\A p \in PageNames : WF_vars(PageSteps(p)))

-----------------------------------------------------------------------------
(* Properties.                                                             *)

Kinds == {"none", "get", "login", "logout", "change", "setup", "set"}
AccountRows == [active : BOOLEAN, pw : Nat, legacy : BOOLEAN, rev : Nat, open : BOOLEAN, grants : Nat, uses : Nat]
SessionRows == [acc : Accounts \union {Nobody}, rev : Nat, pw : Nat, old : BOOLEAN]
PageStates == [shown : Tokens \union {Nobody, Unknown}, fresh : Requests \union {Nobody},
               rec : {"no", "changed", "force"}, prev : Tokens \union {Nobody, Unknown},
               mut : Requests \union {Nobody}, sock : Tokens \union {Nobody},
               told : BOOLEAN, retry : BOOLEAN, done : Nat]
RequestStates == [kind : Kinds, page : Pages \union {Nobody}, cookie : Tokens \union {Nobody},
                  acc : Accounts \union {Nobody}, pw : Nat,
                  pc : {"none", "sent", "queued", "replace", "current", "create", "answered"},
                  rev : Nat, ok : BOOLEAN, shown : Tokens \union {Nobody},
                  set : Tokens \union {Nobody, Unknown}, after : Nat]
TypeOK ==
    /\ acct \in [Accounts -> AccountRows] /\ tok \in [Tokens -> SessionRows]
    /\ live \in SUBSET Tokens /\ newer \in [Tokens -> SUBSET Tokens]
    /\ jar \in [Browsers -> Tokens \union {Nobody}]
    /\ page \in [Pages -> PageStates] /\ req \in [Requests -> RequestStates]
    /\ queue \in [Accounts -> Seq(Requests)]

\* createBoundedSession: whatever is asked at the same time, an account never has more sessions than the limit
AtMostMaxSessions == \A a \in Accounts : Cardinality(SessionsOf(a)) <= MaxSessions

\* runForUser and auth_revision: a login that was verified with an old password does not overtake the change
\* of the password, so no session that counts was opened with another password than the account's
OldPasswordIsDead == \A t \in live : Valid(t) => tok[t].pw = acct[tok[t].acc].pw

\* replacePassword: each authorisation of an administrator lets one password be set, however many
\* requests use it at the same time, and none after it was withdrawn
SetupOncePerGrant == \A a \in Accounts : acct[a].uses <= acct[a].grants
SessionsSound == TypeOK /\ AtMostMaxSessions /\ OldPasswordIsDead /\ SetupOncePerGrant

\* refreshGeneration: the answer to a question asked before a login or logout was answered does not
\* change what the page shows afterwards
LoginNotOverwritten == \A p \in Pages : page[p].fresh # Nobody => req[page[p].fresh].after = page[p].done

\* The queues empty and, whatever was lost or came late, every page comes to show the user whose session the
\* browser's cookie stands for
PagesSettle == <>[](/\ \A p \in Pages : User(p) = Principal(Cookie(p)) /\ page[p].mut = Nobody
                    /\ \A a \in Accounts : queue[a] = <<>>)
=============================================================================
