----------------------------- MODULE RankingPage -----------------------------
(***************************************************************************)
(* The page of a ranking (Frontend/JS/rangliste.js): a pyramid put         *)
(* together from four answers of the server, each of its own moment and of *)
(* the server's cached tables. It marks the players who play, are          *)
(* protected or locked out, and those whom the person may challenge; it is *)
(* drawn again when the tables change, when somebody signs in or out and   *)
(* when the first of the marks it shows expires. A scene has two more      *)
(* fields: the person at the page, `viewer` (None without a page), and     *)
(* `unsteady`, whether he signs in and out and answers are lost.           *)
(***************************************************************************)
EXTENDS Ranking, SequencesExt

VARIABLES user,      \* who is signed in at the page: scene.viewer, or None
          told,      \* a change of the tables is on its way to the page
          listening, \* the page has subscribed; it does so when it has been drawn once
          queued,    \* rankingRefresh: another drawing will follow
          reading,   \* the drawing under way with the answers it has, or NotReading
          shown,     \* [offers, status, mode]: the page
          timer,     \* restrictionExpiryTimer: the tick it waits for, 0 without one
          missed     \* history: a drawing failed, or a mark expired while it was drawn

pageVars == <<user, told, listening, queued, reading, shown, timer, missed>>
tables == [entries |-> entries, matches |-> matches]

-----------------------------------------------------------------------------
(* The answers of the server.                                              *)

\* The lost entry whose boundary ends last binds a newcomer until it ends.
NoRestriction == [minimum |-> 0, expires |-> 0, active |-> FALSE]
Lost(ms, p) == {m \in Matches : /\ HasResult(ms, m) /\ ~ms[m].ignored /\ ms[m].ch = p
                                /\ ms[m].res.winner = 2 /\ ms[m].res.minimum # 0}
rankingEntryRestriction(ms, p) ==
  IF Lost(ms, p) = {} THEN NoRestriction
  ELSE LET m == CHOOSE m \in Lost(ms, p) : \A n \in Lost(ms, p) \ {m} :
                  \/ ms[n].res.expires < ms[m].res.expires
                  \/ ms[n].res.expires = ms[m].res.expires /\ m < n
       IN [minimum |-> ms[m].res.minimum, expires |-> ms[m].res.expires, active |-> clock < ms[m].res.expires]

Mode(v, p) == IF p \in Active(v.entries) THEN "ranked"
              ELSE IF Returning(v.entries, p) THEN "returning"
              ELSE IF p \in Eligible THEN "newcomer" ELSE "ineligible"
rankingChallengeState(v, p) ==
  [mode |-> Mode(v, p), rank |-> v.entries[p].rank, from |-> v.entries[p].last, ended |-> clock >= scene.end,
   restriction |-> IF Mode(v, p) = "newcomer" THEN rankingEntryRestriction(v.matches, p) ELSE NoRestriction]
Nobody == [mode |-> "guest", rank |-> 0, from |-> 0, ended |-> FALSE, restriction |-> NoRestriction]

\* Who is protected or locked out, and until when. A victory before a withdrawal protects nobody any more.
Until(ms, p) == ms[CHOOSE m \in Matches : DecidingMatch(ms, p, m)].res.captured + Lockout
readMatchRestrictions(v) ==
  LET locked(side) == {p \in Players : LockedAs(v.matches, p, side)}
  IN [protection |-> [p \in {q \in locked("winner") : Until(v.matches, q) - Lockout >= v.entries[q].at}
                        |-> Until(v.matches, p)],
      blocked |-> [p \in locked("loser") |-> Until(v.matches, p)]]

\* What the profile says of this ranking to its owner: an open challenge, the return and the entry it
\* announces, and the button to withdraw.
openChallenge(v, p) == {m \in Matches : Open(v.matches, m) /\ Playing(v.matches[m], p)}
profileRankings(v, p) ==
  LET e == v.entries[p]
      returns == e.status = "withdrawn" /\ clock <= e.at + Year
  IN [challenged |-> openChallenge(v, p) # {}, returns |-> returns,
      canWithdraw |-> e.status = "active" /\ openChallenge(v, p) = {},
      restriction |-> IF e.status = "active" \/ returns THEN NoRestriction ELSE rankingEntryRestriction(v.matches, p)]

-----------------------------------------------------------------------------
(* What the page makes of them.                                            *)

\* The active players by rank, and the pyramid of rows of one, two, three and so on.
loadRanking(es) == SetToSortSeq(Active(es), LAMBDA p, q : es[p].rank < es[q].rank)
Pyramid(list) ==
  [r \in {k \in 1..Len(list) : k * (k - 1) < 2 * Len(list)} |->
     SubSeq(list, (r * (r - 1)) \div 2 + 1,
            IF r * (r + 1) <= 2 * Len(list) THEN (r * (r + 1)) \div 2 ELSE Len(list))]

\* fetchBusyIds: the page looks for the open matches itself.
BusyIds(ms) == {p \in Players : \E m \in Matches : Open(ms, m) /\ Playing(ms[m], p)}

\* Who may be challenged by his place in the list alone: everybody left of the person in his row and from
\* his column on in the row above, and the first from the third place.
Reached(pyramid, ranks, mine) ==
  UNION {UNION {{pyramid[r][i] : i \in 1..(c - 1)} \cup (IF r = 1 THEN {} ELSE {pyramid[r - 1][i] : i \in c..(r - 1)}) :
                c \in {k \in DOMAIN pyramid[r] : ranks[pyramid[r][k]] = mine.rank}} : r \in DOMAIN pyramid}
challengeableIds(list, ranks, mine) ==
  CASE mine.mode = "newcomer"  -> {o \in ToSet(list) : mine.restriction.active => ranks[o] >= mine.restriction.minimum}
    [] mine.mode = "returning" -> {o \in ToSet(list) : ranks[o] >= mine.from}
    [] mine.mode = "ranked"    -> Reached(Pyramid(list), ranks, mine)
                                    \cup {o \in ToSet(list) : mine.rank = 3 /\ ranks[o] = 1}
    [] OTHER -> {}

\* rankingPlayerState: of several marks the first.
Marked(busy, limits) ==
  [p \in Players |-> IF p \in busy THEN "busy" ELSE IF p \in DOMAIN limits.protection THEN "protection"
                     ELSE IF p \in DOMAIN limits.blocked THEN "blocked" ELSE ""]

\* applyAllRules: the boxes to be challenged, of a person who is neither busy nor locked out.
Offers(me, list, ranks, busy, limits, mine) ==
  IF mine.ended \/ me \in busy \cup DOMAIN limits.blocked THEN {}
  ELSE {o \in challengeableIds(list, ranks, mine) : Marked(busy, limits)[o] \notin {"busy", "protection"} /\ o # me}

\* scheduleRestrictionExpiry: the moments at which the page will be wrong.
MutExpiries(limits, mine) ==
  {limits.protection[p] : p \in DOMAIN limits.protection} \cup {limits.blocked[p] : p \in DOMAIN limits.blocked}
    \cup (IF mine.mode = "guest" \/ mine.ended THEN {} ELSE {scene.end})
Expiries(limits, mine) ==
  {limits.protection[p] : p \in DOMAIN limits.protection} \cup {limits.blocked[p] : p \in DOMAIN limits.blocked}
    \cup (IF mine.mode = "guest" \/ mine.ended THEN {} ELSE {scene.end})
    \cup (IF mine.restriction.active THEN {mine.restriction.expires} ELSE {})

-----------------------------------------------------------------------------
Nothing == [offers |-> {}, status |-> [p \in {} |-> ""], mode |-> "guest"]
NoLimits == [protection |-> [p \in {} |-> 0], blocked |-> [p \in {} |-> 0]]
\* A part that is not there yet, or cannot be read, is empty, and without one of them nothing is offered.
Reading(step, me) ==
  [step |-> step, me |-> me, list |-> <<>>, ranks |-> [p \in Players |-> Absent], busy |-> {}, limits |-> NoLimits,
   mine |-> Nobody, left |-> {"busy", "limits", "mine"}, complete |-> TRUE]
NotReading == Reading("none", None)

\* A step of the server; a new projection is announced to every page that listens.
ServerStep ==
  /\ Next
  /\ told' = (told \/ (listening /\ cache' # cache))
  /\ UNCHANGED <<user, listening, queued, reading, shown, timer, missed>>

Hear ==
  /\ told /\ told' = FALSE /\ queued' = TRUE
  /\ UNCHANGED <<vars, user, listening, reading, shown, timer, missed>>

TimerFires ==
  /\ timer # 0 /\ clock >= timer
  /\ timer' = 0 /\ queued' = TRUE
  /\ UNCHANGED <<vars, user, told, listening, reading, shown, missed>>

\* Whoever signs out loses his marks at once; the page is drawn again once it has been drawn at all.
SwitchUser ==
  /\ scene.viewer # None /\ scene.unsteady
  /\ user' = IF user = None THEN scene.viewer ELSE None
  /\ shown' = IF user = None \/ ~listening THEN shown ELSE [shown EXCEPT !.offers = {}]
  /\ queued' = (queued \/ listening)
  /\ UNCHANGED <<vars, told, listening, reading, timer, missed>>

renderRanking ==
  /\ queued /\ reading.step = "none"
  /\ queued' = FALSE /\ reading' = Reading("list", user)
  /\ UNCHANGED <<vars, user, told, listening, shown, timer, missed>>

\* Without the list the page stays as it is. The first drawing is tried again when somebody has signed in or
\* out meanwhile, and else the page shows its error.
ReadList ==
  /\ reading.step = "list"
  /\ \/ /\ reading' = [reading EXCEPT !.step = "rules", !.list = loadRanking(cache.entries), !.ranks = RankView(cache.entries)]
        /\ UNCHANGED <<queued, missed>>
     \/ /\ scene.unsteady
        /\ reading' = NotReading /\ missed' = TRUE
        /\ queued' = (queued \/ (~listening /\ user # reading.me))
  /\ UNCHANGED <<vars, user, told, listening, shown, timer>>

\* The three parts of the rules, in any order.
Arrives(part, answer) ==
  /\ reading.step = "rules" /\ part \in reading.left
  /\ \/ reading' = [answer EXCEPT !.left = @ \ {part}]
     \/ scene.unsteady /\ reading' = [reading EXCEPT !.left = @ \ {part}, !.complete = FALSE]
  /\ UNCHANGED <<vars, user, told, listening, queued, shown, timer, missed>>
fetchBusyIds == Arrives("busy", [reading EXCEPT !.busy = BusyIds(cache.matches)])
fetchRestrictions == Arrives("limits", [reading EXCEPT !.limits = readMatchRestrictions(cache)])
fetchMyState ==
  Arrives("mine", [reading EXCEPT !.me = user, !.mine = IF user = None THEN Nobody ELSE rankingChallengeState(cache, user)])

\* The page is drawn, and its timer set for the first mark that will expire; the first time it now listens,
\* and is told the state of the tables at once.
applyAllRules ==
  LET r == reading
      ahead == {t \in Expiries(r.limits, r.mine) : t > clock}
  IN /\ r.step = "rules" /\ r.left = {}
     /\ shown' = [offers |-> IF r.complete THEN Offers(r.me, r.list, r.ranks, r.busy, r.limits, r.mine) ELSE {},
                  status |-> [p \in ToSet(r.list) |-> Marked(r.busy, r.limits)[p]], mode |-> r.mine.mode]
     /\ timer' = IF ahead = {} THEN 0 ELSE CHOOSE t \in ahead : \A u \in ahead : t <= u
     /\ missed' = (~r.complete \/ \E t \in Expiries(r.limits, r.mine) : t <= clock)
     /\ listening' = TRUE /\ told' = (told \/ ~listening)
     /\ reading' = NotReading
     /\ UNCHANGED <<vars, user, queued>>

PageInit ==
  /\ Init
  /\ user \in IF scene.unsteady THEN {None, scene.viewer} ELSE {scene.viewer}
  /\ told = FALSE /\ listening = FALSE /\ queued = (scene.viewer # None) /\ timer = 0 /\ missed = FALSE
  /\ reading = NotReading /\ shown = Nothing

PageNext ==
  \/ ServerStep \/ Hear \/ TimerFires \/ SwitchUser
  \/ renderRanking \/ ReadList \/ fetchBusyIds \/ fetchRestrictions \/ fetchMyState \/ applyAllRules

PageSpec == PageInit /\ [][PageNext]_<<vars, pageVars>>

-----------------------------------------------------------------------------
Still == ~told /\ ~queued /\ reading.step = "none" /\ cache = tables /\ (timer = 0 \/ clock < timer)
Status(p) == IF BusyIn(matches, p) THEN "busy" ELSE IF LockedAs(matches, p, "winner") THEN "protection"
             ELSE IF LockedAs(matches, p, "loser") THEN "blocked" ELSE ""

(***************************************************************************)
(* The page settles on what the server would decide: when no change is on  *)
(* its way, nothing is being drawn and no timer is due, it marks every     *)
(* player of the list as the tables do, and offers exactly the challenges  *)
(* that would be accepted now, although it was drawn from answers of       *)
(* different moments, and the clock has gone on since; the profile opened  *)
(* beside it says the same. The claim of a returning player is the one     *)
(* that ends without a timer.                                              *)
(***************************************************************************)
ProfileAgrees(own) ==
  /\ own.challenged => shown.offers = {}
  /\ own.canWithdraw = (user \in DOMAIN shown.status /\ shown.status[user] # "busy")
  /\ own.returns = (shown.mode = "returning")
  /\ own.restriction.active => \A o \in shown.offers : entries[o].rank >= own.restriction.minimum
OffersSettle ==
  scene.viewer # None /\ Still /\ ~missed /\ (shown.mode = "returning" => user # None /\ Returning(entries, user)) =>
    /\ shown.status = [p \in Active(entries) |-> Status(p)]
    /\ shown.offers = {o \in Players : user # None /\ ChallengeAllowed(tables, user, o)}
    /\ user # None => ProfileAgrees(profileRankings(cache, user))
=============================================================================
