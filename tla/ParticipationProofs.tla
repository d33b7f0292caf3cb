------------------------ MODULE ParticipationProofs ------------------------
(***************************************************************************)
(* Proofs about what the players take part in: the matches of a bracket or *)
(* group (Tournament), the list of entries (Entries), the hall times       *)
(* (Halls) and the scores (Scores).  Each part has its inductive           *)
(* invariant, a lemma for every action, and its theorems.                  *)
(***************************************************************************)
EXTENDS Scores, Tournament, Entries, Halls, FiniteSetTheorems, WellFoundedInduction, TLAPS

-----------------------------------------------------------------------------
(***************************************************************************)
(* The matches.  Types first; a decided match has a winner.                *)
(***************************************************************************)
Matches == DOMAIN competition.seats
Somebody == Players \cup {Open}
SeatTypes == [{1, 2} -> Somebody]
ResultTypes == [kind : {"none", "regular", "retirement", "walkover"}, losingSide : 0..2,
                sets : {<<>>} \cup {c.sets : c \in competition.completions}, winner : 0..2,
                end : {"none", "entered", "set"}]
RowTypes == [seats : SeatTypes, dated : BOOLEAN, result : ResultTypes, recent : BOOLEAN]
Actions == {"result", "appoint", "cancel", "clear", "end"}
DialogTypes == [action : Actions, match : Matches, seen : SeatTypes \X ResultTypes, regular : BOOLEAN,
                times : BOOLEAN, current : BOOLEAN]
HasWinner(row) == Completed(row) => row.result.winner \in {1, 2}

TournamentTypes ==
  /\ competition \in Brackets
  /\ rows \in [Matches -> RowTypes] /\ cache \in [Matches -> RowTypes]
  /\ \A m \in Matches : HasWinner(rows[m])
  /\ dialogs \in [Users -> DialogTypes \cup {None}]
  /\ blind \in BOOLEAN /\ displaced \in BOOLEAN

\* A dialog that is up to date was opened for a match with two sides, and no match hangs on what it may change.
Free(row) == ~Completed(row) /\ ~row.dated
Fits(dialog) ==
  /\ Seated(rows[dialog.match])
  /\ dialog.action \in {"result", "clear"} /\ Completed(rows[dialog.match]) => ~CorrectionBlocked(rows, dialog.match)
DialogsFit == \A u \in Users : dialogs[u] # None /\ dialogs[u].current => Fits(dialogs[u])

\* The place a match feeds, and who is to sit there.
Comer(row) == IF Completed(row) THEN Winner(row) ELSE Open
Fed(m) == rows[Target(m).match].seats[Target(m).side] = Comer(rows[m])
MatchesFit ==
  ~blind => /\ \A m \in Matches : Linked(m) => Fed(m)
            /\ \A m \in Matches : Free(rows[m]) \/ Seated(rows[m])
            /\ ~displaced
AdminsTold == \A m \in Matches : Completed(rows[m]) => m \in informed \/ ~MissingFollowUp(m)

BracketInv == TournamentTypes /\ DialogsFit /\ MatchesFit /\ AdminsTold
-----------------------------------------------------------------------------
\* The link of a match leads to another match, the only one at the place that follows; no other link leads there.
LEMMA LinkLeads ==
  ASSUME TournamentTypes, NEW m \in Matches, Linked(m)
  PROVE  /\ Target(m).match \in Matches \ {m} /\ Target(m).side \in {1, 2}
         /\ FollowUps(m) = {Target(m).match} /\ Cardinality(FollowUps(m)) = 1
         /\ \A n \in Matches : Linked(n) /\ Target(n).match = Target(m).match /\ Target(n).side = Target(m).side => n = m
<1> DEFINE next == Successor(competition.at[m].round, competition.at[m].slot)
<1>1. competition \in Brackets /\ m \in DOMAIN competition.feeds /\ DOMAIN rows = Matches
  BY DEF TournamentTypes, Linked
<1>2. /\ Target(m).match \in Matches \ {m} /\ Target(m).side \in {1, 2}
      /\ competition.at[m].round < competition.size /\ competition.at[m].round \in 0..competition.size
      /\ {f \in Matches : competition.at[f] = [round |-> next.round, slot |-> next.slot]} = {Target(m).match}
  BY <1>1, BracketsAssumption DEF Matches, Target
<1>3. \A n \in Matches : Linked(n) /\ Target(n).match = Target(m).match /\ Target(n).side = Target(m).side => n = m
  BY <1>1, BracketsAssumption DEF Matches, Target, Linked
<1>4. competition.size \in Nat
  BY <1>1, BracketsAssumption
<1>5. ~InGroups /\ competition.at[m].round # competition.size
  BY <1>2, <1>4 DEF InGroups
<1>6. FollowUps(m) = {Target(m).match}
  BY <1>1, <1>2, <1>5 DEF FollowUps
<1> QED BY <1>2, <1>3, <1>6, FS_Singleton

\* A completion that the rules accept has a winner.
LEMMA AcceptedHasWinner ==
  ASSUME NEW completion, completion.kind \in {"regular", "retirement", "walkover"}, completion.losingSide \in 0..2,
         ValidateCompletion(completion, Format).valid
  PROVE  ValidateCompletion(completion, Format).winnerSide \in {1, 2}
<1> DEFINE winners == MatchWonBy(completion.sets, Len(completion.sets), Format)
<1>1. CASE completion.kind = "walkover"
  <2>1. ValidateCompletion(completion, Format)
          = IF completion.losingSide \in {1, 2} /\ completion.sets = <<>> THEN Accepted(3 - completion.losingSide)
            ELSE Rejected
    BY <1>1 DEF ValidateCompletion
  <2> QED BY <2>1 DEF Accepted, Rejected
<1>2. CASE completion.kind = "retirement"
  <2>1. ValidateCompletion(completion, Format)
          = IF completion.losingSide \in {1, 2} /\ SetsFit("retirement", completion.sets, Format) /\ winners = {}
            THEN Accepted(3 - completion.losingSide) ELSE Rejected
    BY <1>2 DEF ValidateCompletion
  <2> QED BY <2>1 DEF Accepted, Rejected
<1>3. CASE completion.kind = "regular"
  <2> DEFINE chosen == CHOOSE side \in winners : TRUE
             fits == completion.sets # <<>> /\ SetsFit("regular", completion.sets, Format) /\ winners # {}
  <2>1. ValidateCompletion(completion, Format) = IF fits THEN Accepted(chosen) ELSE Rejected
    BY <1>3 DEF ValidateCompletion
  <2>2. winners \subseteq {1, 2}
    BY DEF MatchWonBy
  <2> HIDE DEF winners
  <2>3. fits => chosen \in {1, 2}
    BY <2>2
  <2> HIDE DEF chosen, fits
  <2> QED BY <2>1, <2>3 DEF Accepted, Rejected
<1> QED BY <1>1, <1>2, <1>3

\* A place that may be given to somebody else belongs to a match without appointment and result.
LEMMA NobodyWaits ==
  ASSUME BracketInv, ~blind, NEW m \in Matches, Linked(m),
         Completed(rows[m]) => ~CorrectionBlocked(rows, m)
  PROVE  Free(rows[Target(m).match])
<1>1. /\ Target(m).match \in Matches /\ Target(m).side \in {1, 2}
      /\ FollowUps(m) = {Target(m).match} /\ Cardinality(FollowUps(m)) = 1
  BY LinkLeads DEF BracketInv
<1>2. CASE Completed(rows[m])
  BY <1>1, <1>2 DEF CorrectionBlocked, Free
<1>3. CASE ~Completed(rows[m])
  <2>1. rows[Target(m).match].seats[Target(m).side] = Open
    BY <1>3 DEF BracketInv, MatchesFit, Fed, Comer
  <2> QED BY <1>1, <2>1 DEF BracketInv, MatchesFit, Seated
<1> QED BY <1>2, <1>3

\* The fed place is given to somebody, and nothing else changes.
LEMMA SeatGiven ==
  ASSUME TournamentTypes, NEW ms \in [Matches -> RowTypes], NEW m \in Matches, Linked(m), NEW person \in Somebody
  PROVE  LET t == Target(m)
             after == SeatedNext(ms, m, person)
         IN /\ after \in [Matches -> RowTypes]
            /\ \A n \in Matches \ {t.match} : after[n] = ms[n]
            /\ after[t.match].seats[t.side] = person
            /\ \A s \in {1, 2} \ {t.side} : after[t.match].seats[s] = ms[t.match].seats[s]
            /\ after[t.match].dated = ms[t.match].dated /\ after[t.match].result = ms[t.match].result
<1> DEFINE t == Target(m)
           seats == [ms[t.match].seats EXCEPT ![t.side] = person]
           row == [ms[t.match] EXCEPT !.seats = seats]
           after == SeatedNext(ms, m, person)
<1>1. t.match \in Matches \ {m} /\ t.side \in {1, 2}
  BY LinkLeads
<1>2. ms[t.match] \in RowTypes /\ ms[t.match].seats \in SeatTypes
  BY <1>1 DEF RowTypes
<1>3. /\ seats \in SeatTypes /\ seats[t.side] = person
      /\ \A s \in {1, 2} \ {t.side} : seats[s] = ms[t.match].seats[s]
  BY <1>1, <1>2 DEF SeatTypes
<1>4. after = [ms EXCEPT ![t.match] = row]
  BY DEF SeatedNext
<1> HIDE DEF seats
<1>5. row \in RowTypes /\ row.seats = seats /\ row.dated = ms[t.match].dated /\ row.result = ms[t.match].result
  BY <1>2, <1>3 DEF RowTypes
<1> HIDE DEF row
<1>6. after \in [Matches -> RowTypes] /\ after[t.match] = row /\ \A n \in Matches \ {t.match} : after[n] = ms[n]
  BY <1>1, <1>4, <1>5
<1> QED BY <1>3, <1>5, <1>6

\* The competition never changes, and neither do the sets it gives.
LEMMA CompetitionStays ==
  ASSUME competition' = competition
  PROVE  /\ Matches' = Matches /\ RowTypes' = RowTypes /\ DialogTypes' = DialogTypes
         /\ \A m : (Linked(m)' <=> Linked(m)) /\ Target(m)' = Target(m)
         /\ \A m : DOMAIN rows' = DOMAIN rows => FollowUps(m)' = FollowUps(m)
         /\ \A m : MissingFollowUp(m)' <=> MissingFollowUp(m)
BY DEF Matches, RowTypes, ResultTypes, DialogTypes, Linked, Target, FollowUps, InGroups, MissingFollowUp

\* What a committed transaction must show: with a dialog that is up to date, what is written fits.
LEMMA CommitKeeps ==
  ASSUME BracketInv, NEW user \in Users, dialogs[user] # None, NEW after \in [Matches -> RowTypes],
         Commit(user, after), \A m \in Matches : HasWinner(after[m]),
         ~blind /\ dialogs[user].current =>
           /\ \A m \in Matches : Linked(m) => after[Target(m).match].seats[Target(m).side] = Comer(after[m])
           /\ \A m \in Matches : Free(after[m]) \/ Seated(after[m])
           /\ \A m \in Matches : after[m].seats # rows[m].seats => Free(rows[m]),
         \A m \in Matches : Completed(after[m]) => m \in informed' \/ ~MissingFollowUp(m)
  PROVE  BracketInv'
<1>1. /\ rows' = after /\ competition' = competition /\ cache' = cache /\ blind' = (blind \/ ~dialogs[user].current)
      /\ displaced' = (displaced \/ \E m \in DOMAIN rows : rows[m].seats # after[m].seats
                                                           /\ (rows[m].dated \/ Completed(rows[m])))
      /\ dialogs' = [u \in Users |-> IF u = user \/ dialogs[u] = None THEN None
                                     ELSE [dialogs[u] EXCEPT !.current = FALSE]]
  BY DEF Commit
<1>2. dialogs[user] \in DialogTypes /\ dialogs[user].current \in BOOLEAN
  BY DEF BracketInv, TournamentTypes, DialogTypes
<1>3. \A d \in DialogTypes : [d EXCEPT !.current = FALSE] \in DialogTypes /\ [d EXCEPT !.current = FALSE].current = FALSE
  BY DEF DialogTypes
<1>4. /\ dialogs' \in [Users -> DialogTypes \cup {None}]
      /\ \A u \in Users : dialogs'[u] # None => dialogs'[u].current = FALSE
  BY <1>1, <1>3 DEF BracketInv, TournamentTypes
<1>5. blind' \in BOOLEAN /\ displaced' \in BOOLEAN
  BY <1>1, <1>2 DEF BracketInv, TournamentTypes
<1>6. TournamentTypes'
  BY <1>1, <1>4, <1>5, CompetitionStays DEF BracketInv, TournamentTypes, HasWinner, Completed
<1>7. DialogsFit'
  BY <1>4 DEF DialogsFit
<1>8. MatchesFit'
  <2>1. SUFFICES ASSUME ~blind, dialogs[user].current
                 PROVE  /\ \A m \in Matches : Linked(m) => Fed(m)'
                        /\ \A m \in Matches : Free(after[m]) \/ Seated(after[m])
                        /\ ~displaced'
    BY <1>1, <1>2, CompetitionStays DEF MatchesFit, Free, Seated, Completed
  <2>2. \A m \in Matches : Linked(m) => Fed(m)'
    BY <1>1, <2>1, CompetitionStays DEF Fed, Comer, Completed, Winner
  <2>3. ~displaced'
    <3>1. ~displaced /\ DOMAIN rows = Matches
      BY <2>1 DEF BracketInv, MatchesFit, TournamentTypes
    <3> QED BY <1>1, <2>1, <3>1 DEF Free
  <2> QED BY <2>1, <2>2, <2>3
<1>9. AdminsTold'
  BY <1>1, CompetitionStays DEF AdminsTold, Completed
<1> QED BY <1>6, <1>7, <1>8, <1>9 DEF BracketInv

\* A row is written that has the seats and the winner it had.
LEMMA SameComer ==
  ASSUME BracketInv, NEW user \in Users, dialogs[user] # None, NEW m \in Matches, m = dialogs[user].match,
         NEW r \in RowTypes, HasWinner(r), r.seats = rows[m].seats, Completed(r) => Completed(rows[m]),
         Comer(r) = Comer(rows[m]), Commit(user, [rows EXCEPT ![m] = r]), UNCHANGED informed
  PROVE  BracketInv'
<1> DEFINE after == [rows EXCEPT ![m] = r]
<1>1. /\ after \in [Matches -> RowTypes] /\ after[m] = r /\ \A n \in Matches \ {m} : after[n] = rows[n]
  BY DEF BracketInv, TournamentTypes
<1>2. Commit(user, after)
  OBVIOUS
<1> HIDE DEF after
<1>3. \A n \in Matches : HasWinner(after[n])
  BY <1>1 DEF BracketInv, TournamentTypes
<1>4. \A n \in Matches : Completed(after[n]) => n \in informed' \/ ~MissingFollowUp(n)
  BY <1>1 DEF BracketInv, AdminsTold
<1>5. \A n \in Matches : after[n].seats = rows[n].seats /\ Comer(after[n]) = Comer(rows[n])
  BY <1>1
<1>6. ASSUME ~blind, dialogs[user].current
      PROVE  /\ \A n \in Matches : Linked(n) => after[Target(n).match].seats[Target(n).side] = Comer(after[n])
             /\ \A n \in Matches : Free(after[n]) \/ Seated(after[n])
  <2>1. Seated(after[m])
    BY <1>5, <1>6 DEF BracketInv, DialogsFit, Fits, Seated
  <2>2. \A n \in Matches : Linked(n) => Target(n).match \in Matches
    BY LinkLeads DEF BracketInv
  <2> QED BY <1>1, <1>5, <1>6, <2>1, <2>2 DEF BracketInv, MatchesFit, Fed
<1> QED BY <1>1, <1>2, <1>3, <1>4, <1>5, <1>6, CommitKeeps

\* A row is written with another result or none, and who comes from it is given the fed place.
LEMMA OtherComer ==
  ASSUME BracketInv, NEW user \in Users, dialogs[user] # None, NEW m \in Matches, m = dialogs[user].match,
         NEW r \in RowTypes, HasWinner(r), r.seats = rows[m].seats, NEW person \in Somebody, person = Comer(r),
         dialogs[user].action \in {"result", "clear"},
         Commit(user, SeatedNext([rows EXCEPT ![m] = r], m, person)),
         informed \subseteq informed', Completed(r) => m \in informed' \/ ~MissingFollowUp(m)
  PROVE  BracketInv'
<1> DEFINE ms == [rows EXCEPT ![m] = r]
           t == Target(m)
           after == SeatedNext(ms, m, person)
<1>1. ms \in [Matches -> RowTypes] /\ ms[m] = r /\ \A n \in Matches \ {m} : ms[n] = rows[n]
  BY DEF BracketInv, TournamentTypes
<1>2. Commit(user, after)
  OBVIOUS
<1> HIDE DEF ms
<1>3. ASSUME Linked(m)
      PROVE  /\ t.match \in Matches \ {m} /\ t.side \in {1, 2} /\ after \in [Matches -> RowTypes]
             /\ \A n \in Matches \ {t.match} : after[n] = ms[n]
             /\ after[t.match].seats[t.side] = person
             /\ \A s \in {1, 2} \ {t.side} : after[t.match].seats[s] = rows[t.match].seats[s]
             /\ after[t.match].dated = rows[t.match].dated /\ after[t.match].result = rows[t.match].result
             /\ \A n \in Matches : Linked(n) /\ Target(n).match = t.match /\ Target(n).side = t.side => n = m
  BY <1>1, <1>3, LinkLeads, SeatGiven DEF BracketInv
<1>4. ~Linked(m) => after = ms
  BY DEF SeatedNext
<1> HIDE DEF after, t
<1>5. after \in [Matches -> RowTypes] /\ after[m] = r
  BY <1>1, <1>3, <1>4
<1>6. \A n \in Matches \ {m} : after[n].result = rows[n].result /\ after[n].dated = rows[n].dated
  BY <1>1, <1>3, <1>4
<1>7. \A n \in Matches : HasWinner(after[n])
  BY <1>5, <1>6 DEF BracketInv, TournamentTypes, HasWinner, Completed
<1>8. \A n \in Matches : Completed(after[n]) => n \in informed' \/ ~MissingFollowUp(n)
  BY <1>5, <1>6 DEF BracketInv, AdminsTold, Completed
<1>9. ASSUME ~blind, dialogs[user].current
      PROVE  /\ \A n \in Matches : Linked(n) => after[Target(n).match].seats[Target(n).side] = Comer(after[n])
             /\ \A n \in Matches : Free(after[n]) \/ Seated(after[n])
             /\ \A n \in Matches : after[n].seats # rows[n].seats => Free(rows[n])
  <2>1. Fits(dialogs[user])
    BY <1>9 DEF BracketInv, DialogsFit
  <2>2. Linked(m) => Free(rows[t.match])
    BY <1>9, <2>1, NobodyWaits DEF Fits, t
  <2>3. Seated(after[m])
    BY <1>5, <2>1 DEF Fits, Seated
  <2>4. \A n \in Matches : (Linked(m) /\ n = t.match) \/ after[n].seats = rows[n].seats
    BY <1>1, <1>3, <1>4
  <2>5. \A n \in Matches \ {m} : Comer(after[n]) = Comer(rows[n])
    <3>1. SUFFICES ASSUME NEW n \in Matches \ {m}
                   PROVE  Comer(after[n]) = Comer(rows[n])
      OBVIOUS
    <3>2. CASE after[n].seats = rows[n].seats
      BY <1>6, <3>2 DEF Comer, Winner, Completed
    <3>3. CASE after[n].seats # rows[n].seats
      <4>1. ~Completed(rows[n]) /\ ~Completed(after[n])
        BY <1>6, <2>2, <2>4, <3>3 DEF Free, Completed
      <4> QED BY <4>1 DEF Comer
    <3> QED BY <3>2, <3>3
  <2>6. \A n \in Matches : Free(after[n]) \/ Seated(after[n])
    BY <1>6, <1>9, <2>2, <2>3, <2>4 DEF BracketInv, MatchesFit, Free, Seated, Completed
  <2>7. ASSUME NEW n \in Matches, Linked(n)
        PROVE  after[Target(n).match].seats[Target(n).side] = Comer(after[n])
    <3>1. CASE n = m
      BY <1>3, <1>5, <2>7, <3>1 DEF t
    <3>2. CASE n # m
      <4>1. Target(n).match \in Matches /\ Target(n).side \in {1, 2}
        BY <2>7, LinkLeads DEF BracketInv
      <4>2. rows[Target(n).match].seats[Target(n).side] = Comer(after[n])
        BY <1>9, <2>5, <2>7, <3>2 DEF BracketInv, MatchesFit, Fed
      <4>3. CASE Linked(m) /\ Target(n).match = t.match
        BY <1>3, <2>7, <3>2, <4>1, <4>2, <4>3
      <4>4. CASE ~(Linked(m) /\ Target(n).match = t.match)
        BY <2>4, <4>1, <4>2, <4>4
      <4> QED BY <4>3, <4>4
    <3> QED BY <3>1, <3>2
  <2> QED BY <2>2, <2>4, <2>6, <2>7
<1> QED BY <1>2, <1>5, <1>7, <1>8, <1>9, CommitKeeps
-----------------------------------------------------------------------------
\* The transactions.  A dialog is what the profile offered.
LEMMA DialogIs ==
  ASSUME BracketInv, NEW user \in Users, dialogs[user] # None
  PROVE  dialogs[user] \in DialogTypes /\ dialogs[user].match \in Matches /\ rows[dialogs[user].match] \in RowTypes
BY DEF BracketInv, TournamentTypes, DialogTypes

LEMMA EnterKeeps ==
  ASSUME BracketInv, NEW user \in Users, dialogs[user] # None, dialogs[user].action = "result",
         NEW completion \in competition.completions, EnterResult(dialogs[user], user, completion)
  PROVE  BracketInv'
<1> DEFINE m == dialogs[user].match
           verdict == ValidateCompletion(completion, Format)
           result == [kind |-> completion.kind, losingSide |-> completion.losingSide, sets |-> completion.sets,
                      winner |-> verdict.winnerSide, end |-> EndOf(completion)]
           r == [rows[m] EXCEPT !.result = result, !.recent = TRUE]
           written == [rows EXCEPT ![m] = r]
           person == rows[m].seats[verdict.winnerSide]
<1>1. m \in Matches /\ rows[m] \in RowTypes
  BY DialogIs
<1>2. completion.kind \in {"regular", "retirement", "walkover"} /\ completion.losingSide \in 0..2
  BY BracketsAssumption DEF BracketInv, TournamentTypes
<1>3. verdict.winnerSide \in {1, 2}
  <2>1. verdict.valid
    BY DEF EnterResult, Accepts
  <2> QED BY <1>2, <2>1, AcceptedHasWinner
<1>4. result \in ResultTypes /\ result.winner = verdict.winnerSide /\ result.kind # "none"
  <2>1. EndOf(completion) \in {"none", "entered", "set"}
    BY DEF EndOf
  <2>2. completion.sets \in {<<>>} \cup {c.sets : c \in competition.completions}
    OBVIOUS
  <2> HIDE DEF verdict
  <2> QED BY <1>2, <1>3, <2>1, <2>2 DEF ResultTypes
<1>5. Commit(user, SeatedNext(written, m, written[m].seats[verdict.winnerSide]))
  BY DEF EnterResult, Entered
<1>6. informed' = IF MissingFollowUp(m) THEN informed \cup {m} ELSE informed
  BY DEF EnterResult
<1> HIDE DEF result, verdict
<1>7. /\ r \in RowTypes /\ HasWinner(r) /\ r.seats = rows[m].seats /\ Completed(r)
      /\ person \in Somebody /\ person = Comer(r)
  BY <1>1, <1>3, <1>4 DEF RowTypes, SeatTypes, HasWinner, Completed, Comer, Winner
<1>8. written[m].seats = rows[m].seats
  <2> HIDE DEF r
  <2> QED BY <1>1, <1>7 DEF BracketInv, TournamentTypes
<1>9. Commit(user, SeatedNext([rows EXCEPT ![m] = r], m, person))
  BY <1>5, <1>8
<1>10. informed \subseteq informed' /\ (m \in informed' \/ ~MissingFollowUp(m))
  BY <1>6
<1> HIDE DEF r, person
<1> QED BY <1>1, <1>7, <1>9, <1>10, OtherComer

LEMMA AppointmentKeeps ==
  ASSUME BracketInv, NEW user \in Users, dialogs[user] # None, SetAppointment(dialogs[user], user)
  PROVE  BracketInv'
<1> DEFINE m == dialogs[user].match
           dated == dialogs[user].action = "appoint"
           r == [rows[m] EXCEPT !.dated = dated]
<1>1. m \in Matches /\ rows[m] \in RowTypes /\ HasWinner(rows[m])
  BY DialogIs DEF BracketInv, TournamentTypes
<1>2. Commit(user, [rows EXCEPT ![m] = r]) /\ UNCHANGED informed
  BY DEF SetAppointment
<1>3. dated \in BOOLEAN
  OBVIOUS
<1> HIDE DEF dated
<1>4. r \in RowTypes /\ r.seats = rows[m].seats /\ r.result = rows[m].result
  BY <1>1, <1>3 DEF RowTypes
<1> HIDE DEF r
<1>5. HasWinner(r) /\ (Completed(r) => Completed(rows[m])) /\ Comer(r) = Comer(rows[m])
  BY <1>1, <1>4 DEF HasWinner, Completed, Comer, Winner
<1> QED BY <1>1, <1>2, <1>4, <1>5, SameComer

LEMMA ClearKeeps ==
  ASSUME BracketInv, NEW user \in Users, dialogs[user] # None, dialogs[user].action = "clear",
         ClearResult(dialogs[user], user)
  PROVE  BracketInv'
<1> DEFINE m == dialogs[user].match
           r == [rows[m] EXCEPT !.result = Undecided, !.recent = FALSE]
<1>1. m \in Matches /\ rows[m] \in RowTypes
  BY DialogIs
<1>2. Commit(user, SeatedNext([rows EXCEPT ![m] = r], m, Open)) /\ UNCHANGED informed
  BY DEF ClearResult
<1>3. r \in RowTypes /\ r.seats = rows[m].seats /\ ~Completed(r)
  <2>1. Undecided \in ResultTypes /\ Undecided.kind = "none"
    BY DEF ResultTypes, Undecided
  <2> QED BY <1>1, <2>1 DEF RowTypes, Completed
<1> HIDE DEF r
<1>4. HasWinner(r) /\ Open \in Somebody /\ Open = Comer(r)
  BY <1>3 DEF HasWinner, Somebody, Comer
<1> QED BY <1>1, <1>2, <1>3, <1>4, OtherComer

LEMMA MatchEndKeeps ==
  ASSUME BracketInv, NEW user \in Users, dialogs[user] # None, SetMatchEnd(dialogs[user], user)
  PROVE  BracketInv'
<1> DEFINE m == dialogs[user].match
           result == [rows[m].result EXCEPT !.end = "set"]
           r == [rows[m] EXCEPT !.result = result]
<1>1. m \in Matches /\ rows[m] \in RowTypes /\ rows[m].result \in ResultTypes /\ HasWinner(rows[m])
  BY DialogIs DEF BracketInv, TournamentTypes, RowTypes
<1>2. Commit(user, [rows EXCEPT ![m] = r]) /\ UNCHANGED informed
  BY DEF SetMatchEnd
<1>3. result \in ResultTypes /\ result.winner = rows[m].result.winner /\ result.kind = rows[m].result.kind
  BY <1>1 DEF ResultTypes
<1> HIDE DEF result
<1>4. r \in RowTypes /\ r.seats = rows[m].seats /\ r.result = result
  BY <1>1, <1>3 DEF RowTypes
<1> HIDE DEF r
<1>5. HasWinner(r) /\ (Completed(r) => Completed(rows[m])) /\ Comer(r) = Comer(rows[m])
  BY <1>1, <1>3, <1>4 DEF HasWinner, Completed, Comer, Winner
<1> QED BY <1>1, <1>2, <1>4, <1>5, SameComer
-----------------------------------------------------------------------------
\* Steps that write nothing.
LEMMA OpenKeeps ==
  ASSUME BracketInv, NEW user \in Users, OpenDialog(user)
  PROVE  BracketInv'
<1>0. PICK m \in DOMAIN rows : \E action \in Offered(cache, user, m) :
        dialogs' = [dialogs EXCEPT ![user] =
                      [action |-> action, match |-> m, seen |-> Fingerprint(cache[m]),
                       regular |-> OffersRegular(cache[m]), times |-> ~Completed(cache[m]), current |-> cache = rows]]
  BY DEF OpenDialog, DialogOf
<1>1. PICK action \in Offered(cache, user, m) :
        dialogs' = [dialogs EXCEPT ![user] =
                      [action |-> action, match |-> m, seen |-> Fingerprint(cache[m]),
                       regular |-> OffersRegular(cache[m]), times |-> ~Completed(cache[m]), current |-> cache = rows]]
  BY <1>0
<1> DEFINE d == [action |-> action, match |-> m, seen |-> Fingerprint(cache[m]),
                 regular |-> OffersRegular(cache[m]), times |-> ~Completed(cache[m]), current |-> cache = rows]
<1>2. m \in Matches /\ cache[m] \in RowTypes
  BY DEF BracketInv, TournamentTypes
<1>3. action \in Actions
  BY DEF Offered, Actions
<1>4. Fingerprint(cache[m]) \in SeatTypes \X ResultTypes
  BY <1>2 DEF Fingerprint, RowTypes
<1>5. OffersRegular(cache[m]) \in BOOLEAN /\ (~Completed(cache[m])) \in BOOLEAN /\ (cache = rows) \in BOOLEAN
  BY <1>2 DEF OffersRegular, Completed, RowTypes
<1>6. d \in DialogTypes
  BY <1>2, <1>3, <1>4, <1>5 DEF DialogTypes
<1>7. d.match = m /\ d.action = action /\ (d.current <=> cache = rows)
  OBVIOUS
<1>8. cache = rows => Seated(rows[m])
                      /\ (action \in {"result", "clear"} /\ Completed(rows[m]) => ~CorrectionBlocked(rows, m))
  <2>1. ASSUME action = "result" PROVE CanSetResult(cache, user, m)
    BY <2>1 DEF Offered
  <2>2. ASSUME action = "appoint" PROVE CanSetAppointment(cache, user, m)
    BY <2>2 DEF Offered
  <2>3. ASSUME action = "cancel" PROVE CanClearAppointment(cache, user, m)
    BY <2>3 DEF Offered
  <2>4. ASSUME action = "clear" PROVE CanAdminClear(cache, user, m)
    BY <2>4 DEF Offered
  <2>5. ASSUME action = "end" PROVE CanAdminSetMatchEnd(cache, user, m)
    BY <2>5 DEF Offered
  <2> QED BY <1>3, <2>1, <2>2, <2>3, <2>4, <2>5
          DEF Actions, CanSetResult, CanSetAppointment, CanClearAppointment, CanAdminClear, CanAdminSetMatchEnd
<1>9. dialogs' = [dialogs EXCEPT ![user] = d]
  BY <1>1
<1> HIDE DEF d
<1>10. UNCHANGED <<competition, rows, cache, informed, blind, displaced>>
  BY DEF OpenDialog
<1>11. /\ dialogs' \in [Users -> DialogTypes \cup {None}] /\ dialogs'[user] = d
       /\ \A u \in Users \ {user} : dialogs'[u] = dialogs[u]
  BY <1>6, <1>9 DEF BracketInv, TournamentTypes
<1>12. TournamentTypes'
  BY <1>10, <1>11, CompetitionStays DEF BracketInv, TournamentTypes, HasWinner, Completed
<1>13. DialogsFit'
  <2>1. \A x : CorrectionBlocked(rows, x)' <=> CorrectionBlocked(rows, x)
    BY <1>10 DEF CorrectionBlocked, FollowUps, InGroups, Completed
  <2> QED BY <1>7, <1>8, <1>10, <1>11, <2>1 DEF BracketInv, DialogsFit, Fits, Seated, Completed
<1>14. MatchesFit' /\ AdminsTold'
  BY <1>10, CompetitionStays
     DEF BracketInv, MatchesFit, AdminsTold, Fed, Comer, Winner, Free, Seated, Completed
<1> QED BY <1>12, <1>13, <1>14 DEF BracketInv

\* A step that changes no seat, appointment or result, no dialog and no history.
LEMMA NothingWritten ==
  ASSUME BracketInv, UNCHANGED <<competition, dialogs, informed, blind, displaced>>,
         rows' \in [Matches -> RowTypes], cache' \in [Matches -> RowTypes],
         \A m \in Matches : rows'[m].seats = rows[m].seats /\ rows'[m].dated = rows[m].dated
                            /\ rows'[m].result = rows[m].result
  PROVE  BracketInv'
<1>1. DOMAIN rows' = Matches /\ DOMAIN rows = Matches
  BY DEF BracketInv, TournamentTypes
<1>2. \A m \in Matches : /\ Completed(rows'[m]) <=> Completed(rows[m])
                         /\ Comer(rows'[m]) = Comer(rows[m])
                         /\ HasWinner(rows'[m]) <=> HasWinner(rows[m])
                         /\ Free(rows'[m]) <=> Free(rows[m])
                         /\ Seated(rows'[m]) <=> Seated(rows[m])
  BY DEF Completed, Comer, Winner, HasWinner, Free, Seated
<1>3. TournamentTypes'
  BY <1>2, CompetitionStays DEF BracketInv, TournamentTypes, HasWinner, Completed
<1>4. DialogsFit'
  <2>1. \A m \in Matches : CorrectionBlocked(rows, m)' <=> CorrectionBlocked(rows, m)
    <3>1. \A m : FollowUps(m) \subseteq Matches /\ FollowUps(m)' = FollowUps(m)
      BY <1>1, CompetitionStays DEF FollowUps
    <3> QED BY <1>2, <3>1 DEF CorrectionBlocked, Completed
  <2>2. SUFFICES ASSUME NEW u \in Users, dialogs[u] # None, dialogs[u].current
                 PROVE  Fits(dialogs[u])'
    BY DEF DialogsFit
  <2>3. dialogs[u].match \in Matches /\ Fits(dialogs[u])
    BY <2>2 DEF BracketInv, DialogsFit, TournamentTypes, DialogTypes
  <2> QED BY <1>2, <2>1, <2>3 DEF Fits, Seated, Completed
<1>5. MatchesFit'
  <2>1. \A m \in Matches : Linked(m) => Target(m).match \in Matches
    BY LinkLeads DEF BracketInv
  <2> QED BY <1>2, <2>1, CompetitionStays
         DEF BracketInv, MatchesFit, Fed, Comer, Winner, Free, Seated, Completed
<1>6. AdminsTold'
  BY <1>2, CompetitionStays DEF BracketInv, AdminsTold, Completed
<1> QED BY <1>3, <1>4, <1>5, <1>6 DEF BracketInv

LEMMA HourKeeps ==
  ASSUME BracketInv, NEW m \in Matches, HourPasses(m)
  PROVE  BracketInv' /\ Winners(cache)' = Winners(cache)
<1> DEFINE Past(row) == [row EXCEPT !.recent = FALSE]
<1>1. \A row \in RowTypes : /\ Past(row) \in RowTypes /\ Past(row).seats = row.seats
                            /\ Past(row).dated = row.dated /\ Past(row).result = row.result
  BY DEF RowTypes
<1>2. rows \in [Matches -> RowTypes] /\ rows' = [rows EXCEPT ![m] = Past(rows[m])]
  BY DEF BracketInv, TournamentTypes, HourPasses
<1>3. cache \in [Matches -> RowTypes] /\ cache' = [cache EXCEPT ![m] = Past(cache[m])]
  BY DEF BracketInv, TournamentTypes, HourPasses
<1> HIDE DEF Past
<1>4. /\ rows' \in [Matches -> RowTypes]
      /\ \A n \in Matches : rows'[n].seats = rows[n].seats /\ rows'[n].dated = rows[n].dated
                            /\ rows'[n].result = rows[n].result
  BY <1>1, <1>2
<1>5. /\ cache' \in [Matches -> RowTypes]
      /\ \A n \in Matches : cache'[n].seats = cache[n].seats /\ cache'[n].result = cache[n].result
  BY <1>1, <1>3
<1>6. BracketInv'
  BY <1>4, <1>5, NothingWritten DEF HourPasses
<1>7. Winners(cache)' = Winners(cache)
  <2>1. DOMAIN cache = Matches /\ DOMAIN cache' = Matches
    BY <1>3, <1>5
  <2> DEFINE Of(row) == IF ~Completed(row) THEN Open ELSE row.seats[GroupWinner(row.result)]
  <2>2. \A n \in Matches : Of(cache'[n]) = Of(cache[n])
    BY <1>5 DEF Completed
  <2>3. Winners(cache) = [n \in Matches |-> Of(cache[n])] /\ Winners(cache)' = [n \in Matches |-> Of(cache'[n])]
    BY <2>1 DEF Winners, Completed
  <2> HIDE DEF Of
  <2> QED BY <2>2, <2>3
<1> QED BY <1>6, <1>7

LEMMA SubmitKeeps ==
  ASSUME BracketInv, NEW user \in Users, Submit(user)
  PROVE  BracketInv'
BY EnterKeeps, AppointmentKeeps, ClearKeeps, MatchEndKeeps DEF Submit

LEMMA CloseKeeps ==
  ASSUME BracketInv, NEW user \in Users, CloseDialog(user)
  PROVE  BracketInv'
<1>1. /\ dialogs' \in [Users -> DialogTypes \cup {None}]
      /\ \A u \in Users : dialogs'[u] = None \/ dialogs'[u] = dialogs[u]
  BY DEF BracketInv, TournamentTypes, CloseDialog
<1>2. UNCHANGED <<competition, rows, cache, informed, blind, displaced>>
  BY DEF CloseDialog
<1>3. TournamentTypes' /\ MatchesFit' /\ AdminsTold'
  BY <1>1, <1>2, CompetitionStays
     DEF BracketInv, TournamentTypes, HasWinner, MatchesFit, AdminsTold, Fed, Comer, Winner, Free, Seated, Completed
<1>4. DialogsFit'
  <2>1. \A x : CorrectionBlocked(rows, x)' <=> CorrectionBlocked(rows, x)
    BY <1>2 DEF CorrectionBlocked, FollowUps, InGroups, Completed
  <2> QED BY <1>1, <1>2, <2>1 DEF BracketInv, DialogsFit, Fits, Seated, Completed
<1> QED BY <1>3, <1>4 DEF BracketInv

LEMMA BracketStep ==
  ASSUME BracketInv, [TournamentNext]_tournamentVars
  PROVE  BracketInv'
<1>1. \A u \in competition.users : u \in Users
  BY BracketsAssumption DEF BracketInv, TournamentTypes
<1>2. ASSUME NEW u \in competition.users, OpenDialog(u) \/ CloseDialog(u) \/ Submit(u)
      PROVE  BracketInv'
  BY <1>1, <1>2, OpenKeeps, CloseKeeps, SubmitKeeps
<1>3. ASSUME NEW m \in DOMAIN rows, HourPasses(m)
      PROVE  BracketInv'
  <2>1. m \in Matches
    BY DEF BracketInv, TournamentTypes
  <2> QED BY <1>3, <2>1, HourKeeps
<1>8. ASSUME NEW m \in DOMAIN rows, AppointmentPasses(m)
      PROVE  BracketInv'
  BY <1>8, NothingWritten DEF AppointmentPasses, BracketInv, TournamentTypes
<1>4. CASE Refresh
  BY <1>4, NothingWritten DEF Refresh, BracketInv, TournamentTypes
<1>5. CASE Switch
  BY <1>5, NothingWritten DEF Switch, BracketInv, TournamentTypes
<1>6. ASSUME NEW load, ReadMatches(load) \/ Show(load) \/ LoadFails(load)
      PROVE  BracketInv'
  BY <1>6, NothingWritten DEF ReadMatches, Show, LoadFails, BracketInv, TournamentTypes
<1>7. CASE UNCHANGED tournamentVars
  BY <1>7, NothingWritten DEF tournamentVars, BracketInv, TournamentTypes
<1> QED BY <1>2, <1>3, <1>4, <1>5, <1>6, <1>7, <1>8 DEF TournamentNext

LEMMA BracketStart ==
  ASSUME TournamentInit
  PROVE  BracketInv
<1>1. /\ competition \in Brackets /\ competition.seats \in [Matches -> SeatTypes]
      /\ \A m \in Matches : Linked(m) => /\ Target(m).match \in Matches
                                         /\ competition.seats[Target(m).match][Target(m).side] = Open
  BY BracketsAssumption DEF TournamentInit, Matches, SeatTypes, Somebody, Linked, Target
<1>2. Undecided \in ResultTypes /\ Undecided.kind = "none"
  BY DEF ResultTypes, Undecided
<1>3. \A m \in Matches : /\ rows[m] \in RowTypes /\ rows[m].seats = competition.seats[m] /\ ~rows[m].dated
                         /\ ~Completed(rows[m])
  BY <1>1, <1>2 DEF TournamentInit, Matches, RowTypes, Empty, Completed
<1>4. rows \in [Matches -> RowTypes] /\ cache \in [Matches -> RowTypes]
  <2>1. rows = [m \in Matches |-> Empty(competition.seats[m])] /\ cache = rows
    BY DEF TournamentInit, Matches
  <2>2. \A m \in Matches : Empty(competition.seats[m]) \in RowTypes
    BY <1>3, <2>1
  <2> QED BY <2>1, <2>2
<1>5. dialogs = [u \in Users |-> None] /\ ~blind /\ ~displaced /\ blind \in BOOLEAN /\ displaced \in BOOLEAN
  BY DEF TournamentInit
<1>6. TournamentTypes
  BY <1>1, <1>3, <1>4, <1>5 DEF TournamentTypes, HasWinner
<1>7. DialogsFit /\ AdminsTold
  BY <1>3, <1>5 DEF DialogsFit, AdminsTold
<1>8. MatchesFit
  BY <1>1, <1>3, <1>5 DEF MatchesFit, Fed, Comer, Free
<1> QED BY <1>6, <1>7, <1>8 DEF BracketInv

(***************************************************************************)
(* As long as every dialog that wrote was up to date, winners go on to the *)
(* place their match feeds and nobody is displaced from a match that is    *)
(* dated or decided (postgresPlayService.js:380 under the protection of    *)
(* dataProvider.js:534), for every bracket, every format and any number of *)
(* users and writes.                                                       *)
(***************************************************************************)
THEOREM BracketIsKept == TournamentSpec => []BracketKept
<1>1. BracketInv => BracketKept
  <2>1. ASSUME BracketInv, ~blind
        PROVE  WinnersGoOn /\ ~displaced
    <3>1. DOMAIN rows = Matches
      BY <2>1 DEF BracketInv, TournamentTypes
    <3>2. \A m \in Matches : competition.at[m].round \in 0..competition.size /\ competition.size \in Nat
      BY <2>1, BracketsAssumption DEF BracketInv, TournamentTypes, Matches
    <3> QED BY <2>1, <3>1, <3>2 DEF BracketInv, MatchesFit, AdminsTold, WinnersGoOn, Fed, Comer, MissingFollowUp
  <2> QED BY <2>1 DEF BracketKept, WinnersGoOn, NobodyDisplaced
<1> QED BY <1>1, BracketStart, BracketStep, PTL DEF TournamentSpec

-----------------------------------------------------------------------------
(***************************************************************************)
(* Nobody sits where the draw cannot bring them; hence no write that seats *)
(* a winner makes somebody play against themselves.                        *)
(***************************************************************************)
Comers(m, side) == competition.drawn[m][side] \cup {Open}
SeatedAsDrawn(ms) == \A m \in Matches, side \in {1, 2} : ms[m].seats[side] \in Comers(m, side)
SeatsDrawn == SeatedAsDrawn(rows)

LEMMA DrawnIsConsistent ==
  ASSUME TournamentTypes, NEW ms \in [Matches -> RowTypes], SeatedAsDrawn(ms)
  PROVE  Consistent(ms)
<1>1. \A m \in Matches : competition.drawn[m][1] \cap competition.drawn[m][2] = {}
  BY BracketsAssumption DEF TournamentTypes, Matches
<1>2. \A m \in Matches : ms[m].seats[1] \in Comers(m, 1) /\ ms[m].seats[2] \in Comers(m, 2)
  BY DEF SeatedAsDrawn
<1> QED BY <1>1, <1>2 DEF Consistent, Seated, Comers

LEMMA NextIsDrawn ==
  ASSUME TournamentTypes, NEW ms \in [Matches -> RowTypes], SeatedAsDrawn(ms), NEW m \in Matches,
         NEW person \in Somebody, person \in Comers(m, 1) \cup Comers(m, 2)
  PROVE  SeatedNext(ms, m, person) \in [Matches -> RowTypes] /\ SeatedAsDrawn(SeatedNext(ms, m, person))
<1>1. CASE Linked(m)
  <2> DEFINE t == Target(m)
             after == SeatedNext(ms, m, person)
  <2>1. t.match \in Matches /\ t.side \in {1, 2}
    BY <1>1, LinkLeads
  <2>2. /\ after \in [Matches -> RowTypes] /\ \A n \in Matches \ {t.match} : after[n] = ms[n]
        /\ after[t.match].seats[t.side] = person
        /\ \A s \in {1, 2} \ {t.side} : after[t.match].seats[s] = ms[t.match].seats[s]
    BY <1>1, SeatGiven
  <2>3. competition.drawn[m][1] \cup competition.drawn[m][2] \subseteq competition.drawn[t.match][t.side]
    BY <1>1, BracketsAssumption DEF TournamentTypes, Linked, Target
  <2>4. person \in Comers(t.match, t.side)
    BY <2>3 DEF Comers
  <2> HIDE DEF after, t
  <2>5. SeatedAsDrawn(after)
    BY <2>1, <2>2, <2>4 DEF SeatedAsDrawn
  <2> QED BY <2>2, <2>5 DEF after
<1>2. CASE ~Linked(m)
  BY <1>2 DEF SeatedNext
<1> QED BY <1>1, <1>2

\* A valid result leaves everybody where the draw can bring them.
LEMMA EnteredIsDrawn ==
  ASSUME BracketInv, SeatsDrawn, NEW m \in Matches, NEW completion \in competition.completions,
         ValidateCompletion(completion, Format).valid
  PROVE  /\ ValidateCompletion(completion, Format).winnerSide \in {1, 2}
         /\ Entered(rows, m, completion) \in [Matches -> RowTypes] /\ SeatedAsDrawn(Entered(rows, m, completion))
<1> DEFINE verdict == ValidateCompletion(completion, Format)
           result == [kind |-> completion.kind, losingSide |-> completion.losingSide, sets |-> completion.sets,
                      winner |-> verdict.winnerSide, end |-> EndOf(completion)]
           r == [rows[m] EXCEPT !.result = result, !.recent = TRUE]
           written == [rows EXCEPT ![m] = r]
           person == written[m].seats[result.winner]
<1>1. completion.kind \in {"regular", "retirement", "walkover"} /\ completion.losingSide \in 0..2
  BY BracketsAssumption DEF BracketInv, TournamentTypes
<1>2. verdict.winnerSide \in {1, 2}
  BY <1>1, AcceptedHasWinner
<1>3. result \in ResultTypes /\ result.winner = verdict.winnerSide
  <2>1. EndOf(completion) \in {"none", "entered", "set"}
    BY DEF EndOf
  <2>2. completion.sets \in {<<>>} \cup {c.sets : c \in competition.completions}
    OBVIOUS
  <2> HIDE DEF verdict
  <2> QED BY <1>1, <1>2, <2>1, <2>2 DEF ResultTypes
<1>4. Entered(rows, m, completion) = SeatedNext(written, m, person)
  BY DEF Entered
<1>5. rows \in [Matches -> RowTypes] /\ rows[m] \in RowTypes /\ TournamentTypes
  BY DEF BracketInv, TournamentTypes
<1> HIDE DEF result, verdict
<1>6. r \in RowTypes /\ r.seats = rows[m].seats
  BY <1>3, <1>5 DEF RowTypes
<1> HIDE DEF r
<1>7. /\ written \in [Matches -> RowTypes] /\ written[m].seats = rows[m].seats
      /\ \A n \in Matches : written[n].seats = rows[n].seats
  BY <1>5, <1>6
<1>8. SeatedAsDrawn(written)
  BY <1>7 DEF SeatsDrawn, SeatedAsDrawn
<1>9. person \in Somebody /\ person \in Comers(m, 1) \cup Comers(m, 2)
  <2>1. written[m].seats[1] \in Comers(m, 1) /\ written[m].seats[2] \in Comers(m, 2)
    BY <1>8 DEF SeatedAsDrawn
  <2>2. written[m].seats \in SeatTypes
    BY <1>7 DEF RowTypes
  <2> HIDE DEF written
  <2> QED BY <1>2, <1>3, <2>1, <2>2 DEF SeatTypes
<1> HIDE DEF written, person
<1>10. SeatedNext(written, m, person) \in [Matches -> RowTypes] /\ SeatedAsDrawn(SeatedNext(written, m, person))
  BY <1>5, <1>7, <1>8, <1>9, NextIsDrawn
<1> QED BY <1>2, <1>4, <1>10 DEF verdict

\* A step that changes no seat.
LEMMA SeatsStay ==
  ASSUME SeatsDrawn, competition' = competition, \A m \in Matches : rows'[m].seats = rows[m].seats
  PROVE  SeatsDrawn'
BY DEF SeatsDrawn, SeatedAsDrawn, Comers, Matches

LEMMA SubmitSeats ==
  ASSUME BracketInv, SeatsDrawn, NEW user \in Users, Submit(user)
  PROVE  SeatsDrawn'
<1> DEFINE dialog == dialogs[user]
           m == dialog.match
<1>1. /\ m \in Matches /\ rows[m] \in RowTypes /\ rows \in [Matches -> RowTypes] /\ TournamentTypes
  BY DialogIs DEF Submit, BracketInv, TournamentTypes
<1>2. ASSUME NEW after \in [Matches -> RowTypes], Commit(user, after), SeatedAsDrawn(after)
      PROVE  SeatsDrawn'
  <2>1. rows' = after /\ competition' = competition
    BY <1>2 DEF Commit
  <2> QED BY <1>2, <2>1 DEF SeatsDrawn, SeatedAsDrawn, Comers, Matches
<1>3. ASSUME NEW completion \in competition.completions, EnterResult(dialog, user, completion)
      PROVE  SeatsDrawn'
  <2>1. ValidateCompletion(completion, Format).valid /\ Commit(user, Entered(rows, m, completion))
    BY <1>3 DEF EnterResult, Accepts
  <2> QED BY <1>1, <1>2, <2>1, EnteredIsDrawn
<1>4. ASSUME SetAppointment(dialog, user)
      PROVE  SeatsDrawn'
  <2> DEFINE r == [rows[m] EXCEPT !.dated = dialog.action = "appoint"]
             after == [rows EXCEPT ![m] = r]
  <2>1. rows' = after /\ competition' = competition
    BY <1>4 DEF SetAppointment, Commit
  <2>2. r.seats = rows[m].seats
    BY <1>1 DEF RowTypes
  <2> HIDE DEF r
  <2>3. \A n \in Matches : rows'[n].seats = rows[n].seats
    BY <1>1, <2>1, <2>2
  <2> QED BY <2>1, <2>3, SeatsStay
<1>5. ASSUME ClearResult(dialog, user)
      PROVE  SeatsDrawn'
  <2> DEFINE r == [rows[m] EXCEPT !.result = Undecided, !.recent = FALSE]
             cleared == [rows EXCEPT ![m] = r]
  <2>1. Commit(user, SeatedNext(cleared, m, Open))
    BY <1>5 DEF ClearResult
  <2>2. Undecided \in ResultTypes
    BY DEF ResultTypes, Undecided
  <2>3. r \in RowTypes /\ r.seats = rows[m].seats
    BY <1>1, <2>2 DEF RowTypes
  <2> HIDE DEF r
  <2>4. cleared \in [Matches -> RowTypes] /\ \A n \in Matches : cleared[n].seats = rows[n].seats
    BY <1>1, <2>3
  <2> HIDE DEF cleared
  <2>5. SeatedAsDrawn(cleared)
    BY <2>4 DEF SeatsDrawn, SeatedAsDrawn
  <2>6. Open \in Somebody /\ Open \in Comers(m, 1) \cup Comers(m, 2)
    BY DEF Somebody, Comers
  <2>7. SeatedNext(cleared, m, Open) \in [Matches -> RowTypes] /\ SeatedAsDrawn(SeatedNext(cleared, m, Open))
    BY <1>1, <2>4, <2>5, <2>6, NextIsDrawn
  <2> QED BY <1>2, <2>1, <2>7
<1>6. ASSUME SetMatchEnd(dialog, user)
      PROVE  SeatsDrawn'
  <2> DEFINE result == [rows[m].result EXCEPT !.end = "set"]
             r == [rows[m] EXCEPT !.result = result]
             after == [rows EXCEPT ![m] = r]
  <2>1. rows' = after /\ competition' = competition
    BY <1>6 DEF SetMatchEnd, Commit
  <2> HIDE DEF result
  <2>2. r.seats = rows[m].seats
    BY <1>1 DEF RowTypes
  <2> HIDE DEF r
  <2>3. \A n \in Matches : rows'[n].seats = rows[n].seats
    BY <1>1, <2>1, <2>2
  <2> QED BY <2>1, <2>3, SeatsStay
<1> QED BY <1>3, <1>4, <1>5, <1>6 DEF Submit

LEMMA SeatsStep ==
  ASSUME BracketInv, SeatsDrawn, [TournamentNext]_tournamentVars
  PROVE  SeatsDrawn'
<1>1. ASSUME NEW u \in competition.users, OpenDialog(u) \/ CloseDialog(u) \/ Submit(u)
      PROVE  SeatsDrawn'
  <2>1. u \in Users
    BY <1>1, BracketsAssumption DEF BracketInv, TournamentTypes
  <2>2. CASE Submit(u)
    BY <2>1, <2>2, SubmitSeats
  <2>3. CASE OpenDialog(u) \/ CloseDialog(u)
    BY <2>3, SeatsStay DEF OpenDialog, CloseDialog
  <2> QED BY <1>1, <2>2, <2>3
<1>2. ASSUME NEW m \in DOMAIN rows, HourPasses(m) \/ AppointmentPasses(m)
      PROVE  SeatsDrawn'
  <2>1. CASE AppointmentPasses(m)
    BY <2>1, SeatsStay DEF AppointmentPasses
  <2>2. CASE HourPasses(m)
    <3> DEFINE r == [rows[m] EXCEPT !.recent = FALSE]
    <3>1. m \in Matches /\ rows[m] \in RowTypes /\ rows \in [Matches -> RowTypes]
      BY DEF BracketInv, TournamentTypes
    <3>2. rows' = [rows EXCEPT ![m] = r] /\ competition' = competition
      BY <2>2 DEF HourPasses
    <3>3. r.seats = rows[m].seats
      BY <3>1 DEF RowTypes
    <3> HIDE DEF r
    <3>4. \A n \in Matches : rows'[n].seats = rows[n].seats
      BY <3>1, <3>2, <3>3
    <3> QED BY <3>2, <3>4, SeatsStay
  <2> QED BY <1>2, <2>1, <2>2
<1>3. CASE Refresh \/ Switch
  BY <1>3, SeatsStay DEF Refresh, Switch
<1>4. ASSUME NEW load, ReadMatches(load) \/ Show(load) \/ LoadFails(load)
      PROVE  SeatsDrawn'
  BY <1>4, SeatsStay DEF ReadMatches, Show, LoadFails
<1>5. CASE UNCHANGED tournamentVars
  BY <1>5, SeatsStay DEF tournamentVars
<1> QED BY <1>1, <1>2, <1>3, <1>4, <1>5 DEF TournamentNext

LEMMA SeatsStart ==
  ASSUME TournamentInit
  PROVE  SeatsDrawn
<1>1. \A m \in Matches, side \in {1, 2} : competition.seats[m][side] \in Comers(m, side)
  BY BracketsAssumption DEF TournamentInit, Matches, Comers
<1>2. \A m \in Matches : rows[m].seats = competition.seats[m]
  BY DEF TournamentInit, Matches, Empty
<1> QED BY <1>1, <1>2 DEF SeatsDrawn, SeatedAsDrawn

(***************************************************************************)
(* What a current profile offers (dataProvider.js:700) the server and its  *)
(* database accept (postgresPlayService.js:331), but for the three         *)
(* exceptions named, in every reachable state, for every draw, person and  *)
(* completion: the winner's place is fed by the right match, and nobody    *)
(* comes to play against themselves.                                       *)
(***************************************************************************)
THEOREM WhatIsOfferedIsAccepted == TournamentSpec => []OfferedIsAccepted
<1>1. ASSUME BracketInv, SeatsDrawn
      PROVE  OfferedIsAccepted
  <2>1. SUFFICES ASSUME cache = rows, NEW user \in competition.users, NEW m \in DOMAIN rows,
                        NEW completion \in competition.completions,
                        CanSetResult(cache, user, m), ValidateCompletion(completion, Format).valid,
                        completion.kind = "regular" => OffersRegular(cache[m]),
                        ~(Completed(rows[m]) /\ user \in Admins /\ ~rows[m].recent),
                        ~(Completed(rows[m]) /\ completion.kind = "regular" /\ ~rows[m].dated),
                        ~(Completed(rows[m]) /\ completion.kind # "walkover" /\ rows[m].dated /\ elapsed[m] # "lately")
                 PROVE  Accepts(DialogOf(cache, "result", m), user, completion)
    BY DEF OfferedIsAccepted
  <2> DEFINE dialog == DialogOf(cache, "result", m)
  <2>2. m \in Matches /\ TournamentTypes
    BY <1>1 DEF BracketInv, TournamentTypes
  <2>3. dialog.match = m /\ dialog.seen = Fingerprint(cache[m]) /\ (dialog.times <=> ~Completed(rows[m]))
    BY <2>1 DEF DialogOf
  <2> HIDE DEF dialog
  <2>4. Current(dialog)
    BY <2>3 DEF Current
  <2>5. MayEnter(user, rows[m])
    BY <2>1 DEF CanSetResult, MayEnter
  <2>6. AppointmentKept(dialog.times, completion, rows[m])
    BY <2>1, <2>3 DEF AppointmentKept
  <2>7. DurationAllowed(dialog.times, completion, rows[m], elapsed[m])
    BY <2>1, <2>3 DEF DurationAllowed
  <2>8. /\ ValidateCompletion(completion, Format).winnerSide \in {1, 2}
        /\ Entered(rows, m, completion) \in [Matches -> RowTypes] /\ SeatedAsDrawn(Entered(rows, m, completion))
    BY <1>1, <2>1, <2>2, EnteredIsDrawn
  <2>9. rows[m].seats[ValidateCompletion(completion, Format).winnerSide] # Open
    BY <2>1, <2>8 DEF CanSetResult, Seated
  <2>10. Consistent(Entered(rows, m, completion))
    BY <2>2, <2>8, DrawnIsConsistent
  <2>11. Accepts(dialog, user, completion)
    BY <2>1, <2>3, <2>4, <2>5, <2>6, <2>7, <2>9, <2>10 DEF Accepts
  <2> QED BY <2>11 DEF dialog
<1> QED BY <1>1, BracketStart, BracketStep, SeatsStart, SeatsStep, PTL DEF TournamentSpec

-----------------------------------------------------------------------------
(***************************************************************************)
(* The page.  In the group view the newest load is the one that counts;    *)
(* what it has read is up to date, because a change of the projection      *)
(* starts another one.                                                     *)
(***************************************************************************)
Views == {"bracket", "group"}
LoadOf(l) == [view |-> l.view, id |-> l.id, data |-> l.data]
PageOf(p) == [view |-> p.view, shown |-> p.shown, loads |-> p.loads, last |-> p.last,
              generation |-> p.generation, failed |-> p.failed]
PageShape(p) ==
  /\ p = PageOf(p) /\ p.view \in Views /\ p.last \in Nat
  /\ \A l \in p.loads : l = LoadOf(l) /\ l.view \in Views /\ l.id \in 1..p.last
  /\ IF p.view = "group" THEN p.generation = p.last ELSE p.generation = 0

Newest(p) == {l \in p.loads : l.id = p.generation}
GroupFollows(p, shownWinners) ==
  p.view = "group" =>
    /\ competition.watched
    /\ \A l \in Newest(p) : l.view = "group" /\ (l.data # None => Winners(l.data) = shownWinners)
    /\ p.failed \/ Newest(p) # {} \/ p.shown = shownWinners

GroupInv == PageShape(page) /\ GroupFollows(page, Winners(cache))

\* A page that loads again waits for the load it starts.
LEMMA Reloads ==
  ASSUME NEW p, p = PageOf(p), p.view \in Views, p.last \in Nat, p.view = "group" => competition.watched,
         \A l \in p.loads : l = LoadOf(l) /\ l.view \in Views /\ l.id \in 1..p.last,
         p.view = "bracket" => p.generation = 0, NEW w
  PROVE  PageShape(Reload(p)) /\ GroupFollows(Reload(p), w)
<1> DEFINE n == p.last + 1
           new == [view |-> p.view, id |-> n, data |-> None]
           loads == p.loads \cup {new}
           generation == IF p.view = "group" THEN n ELSE p.generation
           shown == IF p.view = "group" THEN None ELSE p.shown
           q == Reload(p)
<1>1. n \in Nat /\ p.last < n /\ n > 0
  OBVIOUS
<1>2. q = [view |-> p.view, shown |-> shown, loads |-> loads, last |-> n, generation |-> generation,
           failed |-> p.failed]
  <2>1. Loading(p, p.view, n) = [view |-> p.view, shown |-> p.shown, loads |-> loads, last |-> n,
                                 generation |-> generation, failed |-> p.failed]
    <3> HIDE DEF n
    <3>1. Loading(p, p.view, n) = [p EXCEPT !.loads = p.loads \cup {new}, !.last = n, !.generation = generation]
      BY DEF Loading
    <3> HIDE DEF new, loads, generation
    <3> QED BY <3>1 DEF PageOf, loads
  <2> HIDE DEF loads, generation
  <2>2. q = IF p.view = "group" THEN [Loading(p, p.view, n) EXCEPT !.shown = None] ELSE Loading(p, p.view, n)
    BY DEF Reload
  <2> HIDE DEF q, n
  <2> QED BY <2>1, <2>2
<1>3. /\ q.view = p.view /\ q.shown = shown /\ q.loads = loads /\ q.last = n /\ q.generation = generation
      /\ q = PageOf(q)
  BY <1>2 DEF PageOf
<1>4. new = LoadOf(new) /\ new.view = p.view /\ new.id = n /\ new.data = None
  BY DEF LoadOf
<1>5. \A l \in loads : l = LoadOf(l) /\ l.view \in Views /\ l.id \in 1..n /\ (l.id = n => l = new)
  <2> HIDE DEF n, new
  <2>1. n \in 1..n /\ 1..p.last \subseteq 1..n /\ n \notin 1..p.last
    BY <1>1
  <2> QED BY <1>4, <2>1 DEF loads
<1>6. new \in loads /\ generation = IF p.view = "group" THEN n ELSE 0
  BY DEF Views
<1> HIDE DEF n, new, loads, generation, shown, q
<1>7. PageShape(q)
  BY <1>1, <1>3, <1>5, <1>6 DEF PageShape
<1>8. GroupFollows(q, w)
  BY <1>3, <1>4, <1>5, <1>6 DEF GroupFollows, Newest
<1> QED BY <1>7, <1>8 DEF q

\* A load that goes on or ends, while the page stays where it is.
LEMMA OneLoad ==
  ASSUME GroupInv, NEW load \in page.loads, NEW loads, NEW shown, NEW failed,
         page' = [page EXCEPT !.loads = loads, !.shown = shown, !.failed = failed], UNCHANGED <<competition, cache>>,
         \A l \in loads : \/ l \in page.loads \ {load}
                          \/ /\ l = LoadOf(l) /\ l.view = load.view /\ l.id = load.id
                             /\ l.data = None \/ l.data = cache,
         page.failed => failed,
         \/ failed
         \/ shown = page.shown /\ \A k \in page.loads : \E l \in loads : l.id = k.id
         \/ shown = page.shown /\ load.id # page.generation /\ page.loads \ {load} \subseteq loads
         \/ shown = Winners(cache)
         \/ page.view = "bracket"
  PROVE  GroupInv'
<1>1. /\ page'.view = page.view /\ page'.shown = shown /\ page'.loads = loads /\ page'.last = page.last
      /\ page'.generation = page.generation /\ page'.failed = failed /\ page' = PageOf(page')
  <2>1. page = PageOf(page)
    BY DEF GroupInv, PageShape
  <2> QED BY <2>1 DEF PageOf
<1>2. \A l \in loads : l = LoadOf(l) /\ l.view \in Views /\ l.id \in 1..page.last
  BY DEF GroupInv, PageShape
<1>3. PageShape(page')
  BY <1>1, <1>2 DEF GroupInv, PageShape
<1>4. GroupFollows(page', Winners(cache))
  <2>1. SUFFICES ASSUME page.view = "group"
                 PROVE  GroupFollows(page', Winners(cache))
    BY <1>1 DEF GroupFollows
  <2>2. competition.watched
    BY <2>1 DEF GroupInv, GroupFollows
  <2>3. \A l \in loads : l.id = page.generation =>
          l.view = "group" /\ (l.data # None => Winners(l.data) = Winners(cache))
    BY <2>1 DEF GroupInv, GroupFollows, Newest
  <2>4. failed \/ shown = Winners(cache) \/ \E l \in loads : l.id = page.generation
    <3>1. page.failed \/ page.shown = Winners(cache) \/ \E k \in page.loads : k.id = page.generation
      BY <2>1 DEF GroupInv, GroupFollows, Newest
    <3> QED BY <2>1, <3>1 DEF Views
  <2> QED BY <1>1, <2>1, <2>2, <2>3, <2>4 DEF GroupFollows, Newest
<1>5. Winners(cache)' = Winners(cache)
  BY DEF Winners, Completed
<1> QED BY <1>1, <1>3, <1>4, <1>5 DEF GroupInv, GroupFollows, PageShape

LEMMA SwitchFollows ==
  ASSUME GroupInv, Switch
  PROVE  GroupInv'
<1>1. UNCHANGED <<competition, cache>> /\ competition.watched /\ page = PageOf(page)
  BY DEF Switch, GroupInv, PageShape
<1>2. CASE page.view = "bracket"
  <2> DEFINE p == [page EXCEPT !.view = "group"]
  <2>1. /\ p.view = "group" /\ p.last = page.last /\ p.loads = page.loads /\ p = PageOf(p)
    BY <1>1 DEF PageOf
  <2>2. page' = Reload(p)
    BY <1>2 DEF Switch
  <2> HIDE DEF p
  <2>3. PageShape(Reload(p)) /\ GroupFollows(Reload(p), Winners(cache))
    BY <1>1, <2>1, Reloads DEF GroupInv, PageShape, Views
  <2> QED BY <1>1, <2>2, <2>3 DEF GroupInv, PageShape, GroupFollows, Newest, PageOf, LoadOf, Winners, Completed
<1>3. CASE page.view = "group"
  <2> DEFINE p == [page EXCEPT !.view = "bracket", !.generation = 0]
  <2>1. /\ p.view = "bracket" /\ p.last = page.last /\ p.loads = page.loads /\ p = PageOf(p) /\ p.generation = 0
    <3> DEFINE viewed == [page EXCEPT !.view = "bracket"]
    <3>1. /\ viewed.view = "bracket" /\ viewed.last = page.last /\ viewed.loads = page.loads
          /\ viewed = PageOf(viewed)
      BY <1>1 DEF PageOf
    <3>2. p = [viewed EXCEPT !.generation = 0]
      OBVIOUS
    <3> HIDE DEF viewed, p
    <3> QED BY <3>1, <3>2 DEF PageOf
  <2>2. page' = Reload(p)
    BY <1>3 DEF Switch
  <2> HIDE DEF p
  <2>3. PageShape(Reload(p)) /\ GroupFollows(Reload(p), Winners(cache))
    BY <1>1, <2>1, Reloads DEF GroupInv, PageShape, Views
  <2> QED BY <1>1, <2>2, <2>3 DEF GroupInv, PageShape, GroupFollows, Newest, PageOf, LoadOf, Winners, Completed
<1> QED BY <1>2, <1>3 DEF GroupInv, PageShape, Views

LEMMA RefreshFollows ==
  ASSUME GroupInv, Refresh
  PROVE  GroupInv'
<1>1. competition' = competition
  BY DEF Refresh
<1>2. CASE competition.watched
  <2>1. page' = Reload(page)
    BY <1>2 DEF Refresh
  <2>2. PageShape(Reload(page)) /\ GroupFollows(Reload(page), Winners(cache'))
    BY <1>2, Reloads DEF GroupInv, PageShape
  <2> QED BY <1>1, <2>1, <2>2 DEF GroupInv, PageShape, GroupFollows, Newest, PageOf, LoadOf, Winners, Completed
<1>3. CASE ~competition.watched
  <2>1. page' = page /\ page.view # "group"
    BY <1>3 DEF Refresh, GroupInv, GroupFollows
  <2> QED BY <2>1 DEF GroupInv, PageShape, GroupFollows, PageOf, LoadOf
<1> QED BY <1>2, <1>3

LEMMA LoadFollows ==
  ASSUME GroupInv, NEW load \in page.loads, ReadMatches(load) \/ Show(load) \/ LoadFails(load)
  PROVE  GroupInv'
<1>1. page = PageOf(page) /\ load = LoadOf(load)
  BY DEF GroupInv, PageShape
<1>2. UNCHANGED <<competition, cache>>
  BY DEF ReadMatches, Show, LoadFails
<1>3. CASE ReadMatches(load)
  <2> DEFINE done == [load EXCEPT !.data = cache]
             loads == (page.loads \ {load}) \cup {done}
  <2>1. done = LoadOf(done) /\ done.view = load.view /\ done.id = load.id /\ done.data = cache
    BY <1>1 DEF LoadOf
  <2>2. page' = [page EXCEPT !.loads = loads]
    BY <1>3 DEF ReadMatches
  <2> HIDE DEF done
  <2>3. \A k \in page.loads : \E l \in loads : l.id = k.id
    BY <2>1
  <2>4. \A l \in loads : l \in page.loads \ {load} \/ l = done
    OBVIOUS
  <2> HIDE DEF loads
  <2>5. page' = [page EXCEPT !.loads = loads, !.shown = page.shown, !.failed = page.failed]
    BY <1>1, <2>2 DEF PageOf
  <2> QED BY <1>2, <2>1, <2>3, <2>4, <2>5, OneLoad
<1>4. CASE Show(load)
  <2> DEFINE loads == page.loads \ {load}
             shown == IF ~UpToDate(load) THEN page.shown
                      ELSE IF load.view = "group" THEN Winners(load.data) ELSE Pairings(load.data)
  <2>1. page' = [page EXCEPT !.loads = loads, !.shown = shown] /\ load.data # None
    BY <1>4 DEF Show
  <2>2. \/ shown = page.shown /\ load.id # page.generation
        \/ shown = Winners(cache)
        \/ page.view = "bracket"
    <3>1. SUFFICES ASSUME page.view = "group"
                   PROVE  (shown = page.shown /\ load.id # page.generation) \/ shown = Winners(cache)
      BY DEF GroupInv, PageShape, Views
    <3>2. CASE load.id = page.generation
      <4>1. load.view = "group" /\ Winners(load.data) = Winners(cache)
        BY <2>1, <3>1, <3>2 DEF GroupInv, GroupFollows, Newest
      <4> QED BY <3>2, <4>1 DEF UpToDate
    <3>3. CASE load.id # page.generation
      <4>1. ~UpToDate(load)
        BY <3>1, <3>3 DEF UpToDate
      <4> QED BY <3>3, <4>1
    <3> QED BY <3>2, <3>3
  <2> HIDE DEF shown
  <2>3. page' = [page EXCEPT !.loads = loads, !.shown = shown, !.failed = page.failed]
    <3> HIDE DEF loads
    <3> QED BY <1>1, <2>1 DEF PageOf
  <2> QED BY <1>2, <2>2, <2>3, OneLoad
<1>5. CASE LoadFails(load)
  <2> DEFINE loads == page.loads \ {load}
  <2>1. page' = [page EXCEPT !.loads = loads, !.failed = TRUE]
    BY <1>5 DEF LoadFails
  <2>2. page' = [page EXCEPT !.loads = loads, !.shown = page.shown, !.failed = TRUE]
    <3> HIDE DEF loads
    <3> QED BY <1>1, <2>1 DEF PageOf
  <2> QED BY <1>2, <2>2, OneLoad
<1> QED BY <1>3, <1>4, <1>5

LEMMA PageStep ==
  ASSUME BracketInv, GroupInv, [TournamentNext]_tournamentVars
  PROVE  GroupInv'
<1>1. ASSUME UNCHANGED <<competition, page>>, Winners(cache)' = Winners(cache)
      PROVE  GroupInv'
  BY <1>1 DEF GroupInv, PageShape, GroupFollows, Newest, PageOf, LoadOf, Winners, Completed
<1>2. cache' = cache => Winners(cache)' = Winners(cache)
  BY DEF Winners, Completed
<1>3. ASSUME NEW u \in competition.users, OpenDialog(u) \/ CloseDialog(u) \/ Submit(u)
      PROVE  GroupInv'
  <2>1. UNCHANGED <<competition, page, cache>>
    BY <1>3 DEF OpenDialog, CloseDialog, Submit, EnterResult, SetAppointment, ClearResult, SetMatchEnd, Commit
  <2> QED BY <1>1, <1>2, <2>1
<1>4. ASSUME NEW m \in DOMAIN rows, HourPasses(m)
      PROVE  GroupInv'
  <2>1. m \in Matches /\ UNCHANGED <<competition, page>>
    BY <1>4 DEF BracketInv, TournamentTypes, HourPasses
  <2> QED BY <1>1, <1>4, <2>1, HourKeeps
<1>6. ASSUME NEW m \in DOMAIN rows, AppointmentPasses(m)
      PROVE  GroupInv'
  BY <1>1, <1>2, <1>6 DEF AppointmentPasses
<1>5. CASE UNCHANGED tournamentVars
  BY <1>1, <1>2, <1>5 DEF tournamentVars
<1> QED BY <1>3, <1>4, <1>5, <1>6, SwitchFollows, RefreshFollows, LoadFollows DEF TournamentNext

LEMMA PageStart ==
  ASSUME TournamentInit
  PROVE  GroupInv
BY DEF TournamentInit, GroupInv, PageShape, GroupFollows, PageOf, Views

(***************************************************************************)
(* When everything has arrived, the group view shows the winners of the    *)
(* present results, however many loads crossed each other                  *)
(* (renderGeneration, RoundRobin.js:476), for any number of loads.         *)
(***************************************************************************)
THEOREM GroupIsCurrent == TournamentSpec => []GroupCurrent
<1>1. GroupInv => GroupCurrent
  <2>1. SUFFICES ASSUME GroupInv, page.view = "group", cache = rows, ~page.failed,
                        \A load \in page.loads : load.view # "group" \/ load.id # page.generation
                 PROVE  page.shown = Winners(rows)
    BY DEF GroupCurrent
  <2>2. Newest(page) = {}
    BY <2>1 DEF GroupInv, GroupFollows, Newest
  <2> QED BY <2>1, <2>2 DEF GroupInv, GroupFollows
<1> QED BY <1>1, BracketStart, BracketStep, PageStart, PageStep, PTL DEF TournamentSpec

-----------------------------------------------------------------------------
(***************************************************************************)
(* Entries.  Types first.                                                  *)
(***************************************************************************)
Stages == {"unmade", "begin", "transact", "fail", "doubt", "answer", "done"}
PressTypes == [stage : Stages, page : Pages \cup {0}, kind : Kinds, id : Numbers \cup {0}, listening : BOOLEAN,
               reply : {"none", "success", "uncertain", "certain"}]
ListTypes == [registered : BOOLEAN, button : {"add", "remove", "none"}, pressed : Numbers \cup {0}, unread : Nat,
              read : SUBSET BOOLEAN, drawnIn : 0..2]
Active(p) == presses[p].stage \notin {"unmade", "done"}
Made(p) == /\ Active(p) => presses[p].page \in Pages /\ presses[p].id \in Numbers
           /\ presses[p].listening => Active(p)

EntryTypes ==
  /\ situation \in EntryScenes
  /\ entered \in BOOLEAN /\ listed \in BOOLEAN /\ dirty \in BOOLEAN /\ phase \in 0..2
  /\ messages \in [created : Int, withdrawn : Int]
  /\ operations \in [Numbers -> {"absent", "started", "success", "failed", "unknown"}]
  /\ presses \in [Numbers -> PressTypes]
  /\ \A p \in Numbers : Made(p)
  /\ retained \in [Pages -> [Kinds -> Numbers \cup {0}]]
  /\ lists \in [Pages -> ListTypes]
  /\ applied \in [Numbers -> Nat]

\* An operation that is not begun has changed nothing; one press at most is about it, and runs it at most once.
AtTransaction(p) == presses[p].stage = "transact"
InService(p) == presses[p].stage \in {"transact", "fail", "doubt"}
OperationsOnce ==
  /\ \A id \in Numbers : applied[id] <= 1 /\ (operations[id] = "absent" => applied[id] = 0)
  /\ \A p \in Numbers : /\ InService(p) => operations[presses[p].id] # "absent"
                        /\ AtTransaction(p) => operations[presses[p].id] = "started" /\ applied[presses[p].id] = 0
  /\ \A p, q \in Numbers : InService(p) /\ InService(q) /\ presses[p].id = presses[q].id => p = q

\* What the projection does not know is announced; a page that no load has overtaken shows the projection, or
\* is about to; the button is kept only by a press that still waits or by the load after it.
Stays(t) == presses[lists[t].pressed].page = t /\ Active(lists[t].pressed) /\ presses[lists[t].pressed].listening
ListsFollow ==
  /\ listed # entered => dirty
  /\ \A t \in Pages \ crossed : \/ lists[t].unread > 0
                                \/ lists[t].read = {} /\ lists[t].registered = listed
                                \/ lists[t].read = {listed}
  /\ \A t \in Pages : /\ lists[t].pressed # 0 => Stays(t) \/ lists[t].unread > 0 \/ lists[t].read # {}
                      /\ lists[t].drawnIn <= phase
                      /\ lists[t].button = IF lists[t].registered THEN "remove"
                                           ELSE IF lists[t].drawnIn = 1 THEN "add" ELSE "none"

EntryInv == EntryTypes /\ MessagesAgree /\ OperationsOnce /\ ListsFollow
-----------------------------------------------------------------------------
\* The situation never changes, and neither do the sets it gives.
LEMMA SituationStays ==
  ASSUME situation' = situation
  PROVE  /\ Pages' = Pages /\ Numbers' = Numbers /\ MaxLoadsOfPage' = MaxLoadsOfPage
         /\ PressTypes' = PressTypes /\ ListTypes' = ListTypes
<1>1. Pages' = Pages /\ Numbers' = Numbers /\ MaxLoadsOfPage' = MaxLoadsOfPage
  BY DEF Pages, Numbers, MaxPresses, MaxLoadsOfPage
<1> QED BY <1>1 DEF PressTypes, ListTypes

\* What a press becomes, and what a list becomes.
LEMMA OnePress ==
  ASSUME EntryTypes, NEW p \in Numbers, NEW r \in PressTypes, presses' = [presses EXCEPT ![p] = r]
  PROVE  /\ presses' \in [Numbers -> PressTypes] /\ presses'[p] = r
         /\ \A q \in Numbers \ {p} : presses'[q] = presses[q]
BY DEF EntryTypes

LEMMA OneList ==
  ASSUME EntryTypes, NEW t \in Pages, NEW l \in ListTypes, lists' = [lists EXCEPT ![t] = l]
  PROVE  /\ lists' \in [Pages -> ListTypes] /\ lists'[t] = l
         /\ \A u \in Pages \ {t} : lists'[u] = lists[u]
BY DEF EntryTypes

\* Load counts at least one load and leaves the rest of the list alone.
LEMMA Loads ==
  ASSUME EntryTypes, NEW l \in ListTypes
  PROVE  /\ Load(l) \in ListTypes /\ Load(l).unread > 0
         /\ Load(l).pressed = l.pressed /\ Load(l).read = l.read /\ Load(l).registered = l.registered
         /\ Load(l).button = l.button /\ Load(l).drawnIn = l.drawnIn
<1>1. MaxLoadsOfPage \in Nat \ {0}
  BY EntryScenesAssumption DEF EntryTypes, MaxLoadsOfPage
<1> DEFINE n == l.unread + 1
<1>2. n \in Nat /\ n > 0 /\ l.unread \in Nat
  BY DEF ListTypes
<1>3. Load(l) = IF l.unread < MaxLoadsOfPage THEN [l EXCEPT !.unread = n] ELSE l
  BY DEF Load
<1> HIDE DEF n
<1>4. CASE l.unread < MaxLoadsOfPage
  BY <1>2, <1>3, <1>4 DEF ListTypes
<1>5. CASE ~(l.unread < MaxLoadsOfPage)
  BY <1>1, <1>2, <1>3, <1>5
<1> QED BY <1>4, <1>5

\* A list that is drawn shows what was read, and offers what fits the period.
LEMMA Draws ==
  ASSUME EntryTypes, NEW l \in ListTypes, NEW registered \in BOOLEAN
  PROVE  /\ Drawn(l, registered) \in ListTypes /\ Drawn(l, registered).pressed = 0
         /\ Drawn(l, registered).drawnIn = phase /\ Drawn(l, registered).registered = registered
         /\ Drawn(l, registered).unread = l.unread /\ Drawn(l, registered).read = l.read
         /\ Drawn(l, registered).button = IF registered THEN "remove" ELSE IF phase = 1 THEN "add" ELSE "none"
<1>1. Toolbar(registered) = IF registered THEN "remove" ELSE IF phase = 1 THEN "add" ELSE "none"
  BY DEF Toolbar, PeriodOpen
<1>2. Toolbar(registered) \in {"add", "remove", "none"} /\ phase \in 0..2
  BY <1>1 DEF EntryTypes
<1> QED BY <1>1, <1>2 DEF Drawn, ListTypes

\* The button is taken by press n, or free again.
LEMMA Waits ==
  ASSUME NEW l \in ListTypes, NEW n \in Numbers \cup {0}
  PROVE  LET m == [l EXCEPT !.pressed = n]
         IN /\ m \in ListTypes /\ m.pressed = n /\ m.unread = l.unread /\ m.read = l.read
            /\ m.registered = l.registered /\ m.button = l.button /\ m.drawnIn = l.drawnIn
BY DEF ListTypes

\* A step of the service: no list changes, and no press that is waited for ends.
LEMMA ListsKept ==
  ASSUME EntryTypes, ListsFollow, UNCHANGED <<situation, lists, listed, phase, crossed>>, entered' # listed => dirty',
         \A q \in Numbers : Active(q) /\ presses[q].listening
                              => Active(q)' /\ presses'[q].listening /\ presses'[q].page = presses[q].page
  PROVE  ListsFollow'
<1>1. Pages' = Pages
  BY DEF Pages
<1>2. ASSUME NEW t \in Pages, lists[t].pressed # 0, Stays(t)
      PROVE  Stays(t)'
  <2>1. lists[t].pressed \in Numbers
    BY <1>2 DEF EntryTypes, ListTypes
  <2> QED BY <1>2, <2>1 DEF Stays
<1> QED BY <1>1, <1>2 DEF ListsFollow

\* A step that neither begins nor runs an operation.
LEMMA OnceKept ==
  ASSUME OperationsOnce, UNCHANGED <<situation, applied>>,
         \A id \in Numbers : operations'[id] = "absent" => operations[id] = "absent",
         \A q \in Numbers :
           /\ InService(q)' => InService(q) /\ presses'[q].id = presses[q].id /\ presses[q].id \in Numbers
           /\ AtTransaction(q)' => /\ AtTransaction(q)
                                   /\ operations'[presses[q].id] = operations[presses[q].id]
  PROVE  OperationsOnce'
<1>1. Numbers' = Numbers
  BY DEF Numbers, MaxPresses
<1>2. \A q \in Numbers : AtTransaction(q)' => InService(q)'
  BY DEF AtTransaction, InService
<1> QED BY <1>1, <1>2 DEF OperationsOnce

\* The transaction of press p, which ends its stage.
LEMMA EffectOnce ==
  ASSUME EntryTypes, OperationsOnce, MessagesAgree, NEW p \in Numbers, AtTransaction(p), Effect(p), situation' = situation,
         \A q \in Numbers : /\ InService(q)' => InService(q) /\ presses'[q].id = presses[q].id
                            /\ AtTransaction(q)' => q # p /\ AtTransaction(q)
  PROVE  /\ MessagesAgree' /\ OperationsOnce'
         /\ entered' \in BOOLEAN /\ dirty' = TRUE /\ messages' \in [created : Int, withdrawn : Int]
         /\ operations' \in [Numbers -> {"absent", "started", "success", "failed", "unknown"}]
         /\ applied' \in [Numbers -> Nat]
<1> DEFINE id == presses[p].id
           kind == presses[p].kind
<1>1. id \in Numbers /\ kind \in Kinds /\ Numbers' = Numbers
  <2>1. Active(p) /\ presses[p] \in PressTypes
    BY DEF AtTransaction, Active, EntryTypes
  <2>2. id \in Numbers
    BY <2>1 DEF EntryTypes, Made
  <2> QED BY <2>1, <2>2 DEF PressTypes, Numbers, MaxPresses
<1>2. operations[id] = "started" /\ applied[id] = 0
  BY DEF OperationsOnce
<1>3. operations' = [operations EXCEPT ![id] = "success"]
  <2>1. operations' = [operations EXCEPT ![id] = IF operations[id] = "started" THEN "success" ELSE operations[id]]
    BY DEF Effect
  <2> QED BY <1>2, <2>1
<1>4. /\ operations' \in [Numbers -> {"absent", "started", "success", "failed", "unknown"}]
      /\ operations'[id] = "success" /\ \A i \in Numbers \ {id} : operations'[i] = operations[i]
  BY <1>1, <1>3 DEF EntryTypes
<1>5. dirty' = TRUE /\ entered' = (kind = "add")
  BY <1>1 DEF Effect, Invalidates
<1>6. /\ applied' \in [Numbers -> Nat] /\ applied'[id] \in {0, 1}
      /\ \A i \in Numbers \ {id} : applied'[i] = applied[i]
  <2>1. CASE Changes(kind)
    <3>1. applied' = [applied EXCEPT ![id] = applied[id] + 1]
      BY <2>1 DEF Effect
    <3> QED BY <1>1, <1>2, <3>1 DEF EntryTypes
  <2>2. CASE ~Changes(kind)
    <3>1. applied' = applied
      BY <2>2 DEF Effect
    <3> QED BY <1>1, <1>2, <3>1 DEF EntryTypes
  <2> QED BY <2>1, <2>2
<1>7. OperationsOnce'
  <2>1. \A q \in Numbers : /\ InService(q)' => presses[q].id \in Numbers /\ operations[presses[q].id] # "absent"
                           /\ AtTransaction(q)' => presses[q].id # id
    BY DEF OperationsOnce, EntryTypes, AtTransaction, InService, Active, Made
  <2>2. \A q \in Numbers : AtTransaction(q)' => InService(q)'
    BY DEF AtTransaction, InService
  <2>3. \A q \in Numbers : /\ InService(q)' => operations'[presses'[q].id] # "absent"
                           /\ AtTransaction(q)' => /\ operations'[presses'[q].id] = "started"
                                                   /\ applied'[presses'[q].id] = 0
    BY <1>4, <1>6, <2>1, <2>2 DEF OperationsOnce
  <2>4. \A i \in Numbers : applied'[i] <= 1 /\ (operations'[i] = "absent" => applied'[i] = 0)
    BY <1>4, <1>6 DEF OperationsOnce
  <2> QED BY <1>1, <2>1, <2>3, <2>4 DEF OperationsOnce
<1>8. MessagesAgree' /\ messages' \in [created : Int, withdrawn : Int]
  <2> DEFINE c == messages.created + 1
             w == messages.withdrawn + 1
  <2>1. messages = [created |-> messages.created, withdrawn |-> messages.withdrawn]
        /\ messages.created \in Int /\ messages.withdrawn \in Int
    BY DEF EntryTypes
  <2>2. c \in Int /\ w \in Int
    BY <2>1
  <2>3. CASE kind = "add" /\ ~entered
    <3>1. messages' = [messages EXCEPT !.created = c] /\ entered' = TRUE
      BY <1>5, <2>3 DEF Effect, Changes
    <3> HIDE DEF c
    <3>2. messages'.created = c /\ messages'.withdrawn = messages.withdrawn /\ messages' \in [created : Int, withdrawn : Int]
      BY <2>1, <2>2, <3>1
    <3> USE DEF c
    <3> QED BY <2>1, <2>3, <3>1, <3>2 DEF MessagesAgree
  <2>4. CASE kind = "remove" /\ entered
    <3>1. messages' = [messages EXCEPT !.withdrawn = w] /\ entered' = FALSE
      BY <1>5, <2>4 DEF Effect, Changes
    <3> HIDE DEF w
    <3>2. messages'.created = messages.created /\ messages'.withdrawn = w /\ messages' \in [created : Int, withdrawn : Int]
      BY <2>1, <2>2, <3>1
    <3> USE DEF w
    <3> QED BY <2>1, <2>4, <3>1, <3>2 DEF MessagesAgree
  <2>5. CASE (kind = "add" /\ entered) \/ (kind = "remove" /\ ~entered)
    <3>1. ~Changes(kind) /\ entered' = entered
      BY <1>5, <2>5 DEF Changes, EntryTypes
    <3>2. messages' = messages
      BY <3>1 DEF Effect
    <3> QED BY <2>1, <3>1, <3>2 DEF MessagesAgree
  <2>6. kind = "add" \/ kind = "remove"
    BY <1>1 DEF Kinds
  <2> HIDE DEF kind, id, c, w
  <2>7. CASE entered
    BY <2>4, <2>5, <2>6, <2>7
  <2>8. CASE ~entered
    BY <2>3, <2>5, <2>6, <2>8
  <2> QED BY <2>7, <2>8
<1> QED BY <1>4, <1>5, <1>6, <1>7, <1>8
-----------------------------------------------------------------------------
\* The button is pressed: the press waits, and what it waits for is not begun yet.
LEMMA PressKeeps ==
  ASSUME EntryInv, NEW t \in Pages, Press(t)
  PROVE  EntryInv'
<1> DEFINE kind == lists[t].button
<1>1. PICK p \in Numbers :
        LET id == IF retained[t][kind] # 0 THEN retained[t][kind] ELSE p
        IN /\ presses[p].stage = "unmade" /\ kind \in Kinds /\ lists[t].pressed = 0
           /\ presses' = [presses EXCEPT ![p] = [stage |-> "begin", page |-> t, kind |-> kind, id |-> id,
                                                 listening |-> TRUE, reply |-> "none"]]
           /\ retained' = [retained EXCEPT ![t][kind] = id]
           /\ lists' = [lists EXCEPT ![t].pressed = p]
           /\ UNCHANGED <<situation, entered, messages, operations, listed, dirty, phase, applied, crossed>>
  BY DEF Press
<1> DEFINE id == IF retained[t][kind] # 0 THEN retained[t][kind] ELSE p
           r == [stage |-> "begin", page |-> t, kind |-> kind, id |-> id, listening |-> TRUE, reply |-> "none"]
           l == [lists[t] EXCEPT !.pressed = p]
<1>2. id \in Numbers /\ r \in PressTypes
  <2>1. kind \in Kinds /\ retained[t] \in [Kinds -> Numbers \cup {0}]
    BY <1>1 DEF EntryInv, EntryTypes
  <2>2. id \in Numbers
    BY <2>1
  <2> QED BY <2>1, <2>2 DEF PressTypes, Stages
<1>3. /\ presses' \in [Numbers -> PressTypes] /\ presses'[p] = r
      /\ \A q \in Numbers \ {p} : presses'[q] = presses[q]
  BY <1>1, <1>2, OnePress DEF EntryInv
<1>4. l \in ListTypes /\ l.pressed = p /\ l.unread = lists[t].unread /\ l.read = lists[t].read
      /\ l.registered = lists[t].registered /\ l.button = lists[t].button /\ l.drawnIn = lists[t].drawnIn
  <2>1. lists[t] \in ListTypes /\ p \in Numbers \cup {0}
    BY DEF EntryInv, EntryTypes
  <2> QED BY <2>1, Waits
<1>5. lists' = [lists EXCEPT ![t] = l]
  BY <1>1
<1>6. /\ lists' \in [Pages -> ListTypes] /\ lists'[t] = l /\ \A u \in Pages \ {t} : lists'[u] = lists[u]
  BY <1>4, <1>5, OneList DEF EntryInv
<1>7. retained' \in [Pages -> [Kinds -> Numbers \cup {0}]]
  BY <1>1, <1>2 DEF EntryInv, EntryTypes
<1>8. r.stage = "begin" /\ r.page = t /\ r.id = id /\ r.listening
  OBVIOUS
<1> HIDE DEF r, l, id
<1>9. EntryTypes'
  <2>1. \A q \in Numbers : Made(q)'
    BY <1>1, <1>2, <1>3, <1>8 DEF Active, Made, EntryInv, EntryTypes, PressTypes, Pages, Numbers, MaxPresses
  <2> QED BY <1>1, <1>3, <1>6, <1>7, <2>1, SituationStays DEF EntryInv, EntryTypes
<1>10. OperationsOnce'
  <2>1. \A q \in Numbers : /\ InService(q)' => InService(q) /\ presses'[q] = presses[q] /\ presses[q].id \in Numbers
                           /\ AtTransaction(q)' => AtTransaction(q)
    BY <1>3, <1>8 DEF AtTransaction, InService, EntryInv, EntryTypes, Made, Active
  <2> QED BY <1>1, <2>1, OnceKept DEF EntryInv
<1>11. ListsFollow'
  <2>1. Stays(t)'
    BY <1>1, <1>3, <1>4, <1>6, <1>8 DEF Stays, Active
  <2>2. ASSUME NEW u \in Pages \ {t}, lists[u].pressed # 0, Stays(u)
        PROVE  Stays(u)'
    <3>1. lists[u].pressed \in Numbers \ {p}
      BY <1>1, <2>2 DEF EntryInv, EntryTypes, ListTypes, Stays, Active
    <3> QED BY <1>3, <1>6, <2>2, <3>1 DEF Stays, Active
  <2>3. \A u \in Pages : /\ lists'[u].unread = lists[u].unread /\ lists'[u].read = lists[u].read
                         /\ lists'[u].registered = lists[u].registered /\ lists'[u].button = lists[u].button
                         /\ lists'[u].drawnIn = lists[u].drawnIn
    BY <1>4, <1>6
  <2> QED BY <1>1, <1>6, <2>1, <2>2, <2>3, SituationStays DEF EntryInv, ListsFollow
<1>12. MessagesAgree'
  BY <1>1 DEF EntryInv, MessagesAgree
<1> QED BY <1>9, <1>10, <1>11, <1>12 DEF EntryInv

\* What the page does with an answer, or without one, while the press ends or is no longer listened to.
LEMMA ToldFollows ==
  ASSUME EntryInv, NEW p \in Numbers, Active(p), NEW reply \in {"none", "success", "uncertain", "certain"},
         Told(p, reply), UNCHANGED <<situation, listed, entered, dirty, phase, crossed>>,
         \A q \in Numbers \ {p} : presses'[q] = presses[q]
  PROVE  /\ retained' \in [Pages -> [Kinds -> Numbers \cup {0}]] /\ lists' \in [Pages -> ListTypes]
         /\ ListsFollow'
<1> DEFINE t == presses[p].page
           kind == presses[p].kind
           freed == [lists[t] EXCEPT !.pressed = 0]
           l == IF reply = "success" THEN Load(lists[t])
                ELSE IF lists[t].pressed = p THEN freed ELSE lists[t]
<1>1. t \in Pages /\ kind \in Kinds /\ lists[t] \in ListTypes
  BY DEF EntryInv, EntryTypes, Made, PressTypes
<1>2. retained' \in [Pages -> [Kinds -> Numbers \cup {0}]]
  <2>1. retained' = [retained EXCEPT ![t][kind] = IF reply = "uncertain" THEN retained[t][kind] ELSE 0]
    BY DEF Told
  <2> QED BY <1>1, <2>1 DEF EntryInv, EntryTypes
<1>3. freed \in ListTypes /\ freed.pressed = 0 /\ freed.unread = lists[t].unread /\ freed.read = lists[t].read
      /\ freed.registered = lists[t].registered /\ freed.button = lists[t].button /\ freed.drawnIn = lists[t].drawnIn
  BY <1>1, Waits
<1>4. lists' = [lists EXCEPT ![t] = l]
  BY DEF Told
<1>5. /\ l \in ListTypes /\ l.pressed \in {0, lists[t].pressed} /\ l.read = lists[t].read
      /\ l.registered = lists[t].registered /\ l.button = lists[t].button /\ l.drawnIn = lists[t].drawnIn
      /\ l.unread > 0 \/ (l.unread = lists[t].unread /\ l.pressed # p)
  <2>1. CASE reply = "success"
    BY <1>1, <2>1, Loads DEF EntryInv
  <2>2. CASE reply # "success" /\ lists[t].pressed = p
    <3>1. l = freed /\ p # 0
      BY <2>2 DEF Numbers
    <3> HIDE DEF l, freed
    <3> QED BY <1>3, <3>1
  <2>3. CASE reply # "success" /\ lists[t].pressed # p
    BY <1>1, <2>3
  <2> QED BY <2>1, <2>2, <2>3
<1> HIDE DEF l, freed
<1>6. lists' \in [Pages -> ListTypes] /\ lists'[t] = l /\ \A u \in Pages \ {t} : lists'[u] = lists[u]
  BY <1>1, <1>4, <1>5, OneList DEF EntryInv
<1>7. ASSUME NEW u \in Pages, lists'[u].pressed # 0, lists'[u].unread = lists[u].unread, Stays(u)
      PROVE  Stays(u)' \/ lists'[u].unread > 0
  <2>1. lists'[u].pressed = lists[u].pressed /\ lists[u].pressed \in Numbers
    BY <1>5, <1>6, <1>7 DEF EntryInv, EntryTypes, ListTypes
  <2>2. CASE lists[u].pressed # p
    BY <1>7, <2>1, <2>2 DEF Stays, Active
  <2>3. CASE lists[u].pressed = p
    <3>1. u = t
      BY <1>7, <2>3 DEF Stays
    <3> QED BY <1>5, <1>6, <2>1, <2>3, <3>1
  <2> QED BY <2>2, <2>3
<1>8. \A u \in Pages : /\ lists'[u].read = lists[u].read /\ lists'[u].registered = lists[u].registered
                       /\ lists'[u].button = lists[u].button /\ lists'[u].drawnIn = lists[u].drawnIn
                       /\ lists'[u].unread > 0 \/ lists'[u].unread = lists[u].unread
                       /\ lists'[u].pressed \in {0, lists[u].pressed}
  BY <1>5, <1>6
<1>9. ListsFollow'
  BY <1>7, <1>8, SituationStays DEF EntryInv, ListsFollow
<1> QED BY <1>2, <1>6, <1>9

\* The presses that are over.
LEMMA DoneIs == /\ Done \in PressTypes /\ Done.stage = "done" /\ ~Done.listening
                /\ Unmade \in PressTypes /\ Unmade.stage = "unmade" /\ ~Unmade.listening
BY DEF Done, Unmade, PressTypes, Stages, Kinds

\* A press gets a further stage, and is else what it was.
LEMMA Further ==
  ASSUME NEW r \in PressTypes, NEW stage \in Stages
  PROVE  LET q == [r EXCEPT !.stage = stage]
         IN /\ q \in PressTypes /\ q.stage = stage /\ q.page = r.page /\ q.id = r.id /\ q.listening = r.listening
            /\ q.kind = r.kind
BY DEF PressTypes

LEMMA Unheard ==
  ASSUME NEW r \in PressTypes
  PROVE  LET q == [r EXCEPT !.listening = FALSE]
         IN q \in PressTypes /\ q.stage = r.stage /\ q.page = r.page /\ q.id = r.id
BY DEF PressTypes

LEMMA AnsweredIs ==
  ASSUME EntryTypes, NEW p \in Numbers, NEW reply \in {"none", "success", "uncertain", "certain"},
         presses' = Answered(p, reply)
  PROVE  /\ presses' \in [Numbers -> PressTypes] /\ presses'[p].stage = "answer"
         /\ presses'[p].page = presses[p].page /\ presses'[p].id = presses[p].id
         /\ presses'[p].listening = presses[p].listening
         /\ \A q \in Numbers \ {p} : presses'[q] = presses[q]
<1> DEFINE r == [presses[p] EXCEPT !.stage = "answer", !.reply = reply]
<1>1. r \in PressTypes /\ r.stage = "answer" /\ r.page = presses[p].page /\ r.id = presses[p].id
      /\ r.listening = presses[p].listening
  BY DEF EntryTypes, PressTypes, Stages
<1>2. presses' = [presses EXCEPT ![p] = r]
  BY DEF Answered
<1> HIDE DEF r
<1> QED BY <1>1, <1>2, OnePress

\* A press goes on or ends, and no other press changes.
LEMMA MadeStays ==
  ASSUME EntryTypes, situation' = situation, NEW p \in Numbers, Active(p),
         \/ presses'[p].stage = "done" /\ ~presses'[p].listening
         \/ Active(p)' /\ presses'[p].page = presses[p].page /\ presses'[p].id = presses[p].id,
         \A q \in Numbers \ {p} : presses'[q] = presses[q]
  PROVE  \A q \in Numbers : Made(q)'
<1>1. Pages' = Pages /\ Numbers' = Numbers
  BY SituationStays
<1>2. Made(p)'
  BY <1>1 DEF Made, Active, EntryTypes
<1>3. \A q \in Numbers \ {p} : Made(q)'
  BY <1>1 DEF Made, Active, EntryTypes
<1> QED BY <1>2, <1>3

LEMMA AnswerKeeps ==
  ASSUME EntryInv, NEW p \in Numbers, Answer(p)
  PROVE  EntryInv'
<1>1. /\ presses[p].stage = "answer" /\ presses' = [presses EXCEPT ![p] = Done]
      /\ UNCHANGED <<situation, entered, messages, operations, listed, dirty, phase, applied, crossed>>
  BY DEF Answer
<1>2. /\ presses' \in [Numbers -> PressTypes] /\ presses'[p].stage = "done" /\ ~presses'[p].listening
      /\ \A q \in Numbers \ {p} : presses'[q] = presses[q]
  BY <1>1, DoneIs, OnePress DEF EntryInv
<1>3. Active(p) /\ presses[p].reply \in {"none", "success", "uncertain", "certain"}
  BY <1>1 DEF Active, EntryInv, EntryTypes, PressTypes
<1>4. /\ retained' \in [Pages -> [Kinds -> Numbers \cup {0}]] /\ lists' \in [Pages -> ListTypes]
      /\ ListsFollow'
  <2>1. CASE presses[p].listening
    <3>1. Told(p, presses[p].reply)
      BY <2>1 DEF Answer
    <3> QED BY <1>1, <1>2, <1>3, <3>1, ToldFollows
  <2>2. CASE ~presses[p].listening
    <3>1. UNCHANGED <<retained, lists>>
      BY <2>2 DEF Answer
    <3>2. entered' # listed => dirty'
      BY <1>1 DEF EntryInv, ListsFollow
    <3>3. \A q \in Numbers : Active(q) /\ presses[q].listening
                               => Active(q)' /\ presses'[q].listening /\ presses'[q].page = presses[q].page
      BY <1>2, <2>2 DEF Active
    <3>4. ListsFollow'
      BY <1>1, <3>1, <3>2, <3>3, ListsKept DEF EntryInv
    <3> QED BY <3>1, <3>4 DEF EntryInv, EntryTypes
  <2> QED BY <2>1, <2>2
<1>5. EntryTypes'
  <2>1. \A q \in Numbers : Made(q)'
    BY <1>1, <1>2, <1>3, MadeStays DEF EntryInv, Active
  <2> QED BY <1>1, <1>2, <1>4, <2>1, SituationStays DEF EntryInv, EntryTypes
<1>6. OperationsOnce'
  <2>1. \A q \in Numbers : /\ InService(q)' => InService(q) /\ presses'[q] = presses[q] /\ presses[q].id \in Numbers
                           /\ AtTransaction(q)' => AtTransaction(q)
    BY <1>2 DEF AtTransaction, InService, EntryInv, EntryTypes, Made, Active
  <2> QED BY <1>1, <2>1, OnceKept DEF EntryInv
<1>7. MessagesAgree'
  BY <1>1 DEF EntryInv, MessagesAgree
<1> QED BY <1>4, <1>5, <1>6, <1>7 DEF EntryInv

LEMMA LostKeeps ==
  ASSUME EntryInv, NEW p \in Numbers, Lost(p)
  PROVE  EntryInv'
<1>1. /\ presses[p].listening /\ Told(p, "uncertain")
      /\ \/ presses' = [presses EXCEPT ![p].listening = FALSE]
         \/ presses[p].stage = "begin" /\ presses' = [presses EXCEPT ![p] = Done]
      /\ UNCHANGED <<situation, entered, messages, operations, listed, dirty, phase, applied, crossed>>
  BY DEF Lost
<1>2. Active(p)
  BY <1>1 DEF EntryInv, EntryTypes, Made
<1>3. /\ presses' \in [Numbers -> PressTypes]
      /\ \/ presses'[p].stage = presses[p].stage /\ presses'[p].page = presses[p].page /\ presses'[p].id = presses[p].id
         \/ presses'[p].stage = "done" /\ ~presses'[p].listening
      /\ \A q \in Numbers \ {p} : presses'[q] = presses[q]
  <2>1. CASE presses' = [presses EXCEPT ![p].listening = FALSE]
    <3> DEFINE r == [presses[p] EXCEPT !.listening = FALSE]
    <3>1. r \in PressTypes /\ r.stage = presses[p].stage /\ r.page = presses[p].page /\ r.id = presses[p].id
      BY Unheard DEF EntryInv, EntryTypes
    <3>2. presses' = [presses EXCEPT ![p] = r]
      BY <2>1
    <3> HIDE DEF r
    <3> QED BY <3>1, <3>2, OnePress DEF EntryInv
  <2>2. CASE presses' = [presses EXCEPT ![p] = Done]
    BY <2>2, DoneIs, OnePress DEF EntryInv
  <2> QED BY <1>1, <2>1, <2>2
<1>4. /\ retained' \in [Pages -> [Kinds -> Numbers \cup {0}]] /\ lists' \in [Pages -> ListTypes]
      /\ ListsFollow'
  BY <1>1, <1>2, <1>3, ToldFollows
<1>5. EntryTypes'
  <2>1. \A q \in Numbers : Made(q)'
    BY <1>1, <1>2, <1>3, MadeStays DEF EntryInv, Active
  <2> QED BY <1>1, <1>3, <1>4, <2>1, SituationStays DEF EntryInv, EntryTypes
<1>6. OperationsOnce'
  <2>1. \A q \in Numbers : /\ InService(q)' => InService(q) /\ presses'[q].id = presses[q].id /\ presses[q].id \in Numbers
                           /\ AtTransaction(q)' => AtTransaction(q)
    BY <1>3 DEF AtTransaction, InService, EntryInv, EntryTypes, Made, Active
  <2> QED BY <1>1, <2>1, OnceKept DEF EntryInv
<1>7. MessagesAgree'
  BY <1>1 DEF EntryInv, MessagesAgree
<1> QED BY <1>4, <1>5, <1>6, <1>7 DEF EntryInv

LEMMA BeginKeeps ==
  ASSUME EntryInv, NEW p \in Numbers, Begin(p)
  PROVE  EntryInv'
<1> DEFINE id == presses[p].id
<1>1. /\ presses[p].stage = "begin"
      /\ UNCHANGED <<situation, entered, messages, retained, listed, dirty, lists, phase, applied, crossed>>
  BY DEF Begin
<1>2. Active(p) /\ id \in Numbers /\ presses[p] \in PressTypes
  BY <1>1 DEF Active, EntryInv, EntryTypes, Made
<1>3. operations[id] \in {"absent", "started", "success", "failed", "unknown"}
  BY <1>2 DEF EntryInv, EntryTypes
<1>4. /\ presses' \in [Numbers -> PressTypes] /\ presses'[p].stage \in {"transact", "answer"}
      /\ presses'[p].page = presses[p].page /\ presses'[p].id = id /\ presses'[p].listening = presses[p].listening
      /\ \A q \in Numbers \ {p} : presses'[q] = presses[q]
      /\ operations' \in [Numbers -> {"absent", "started", "success", "failed", "unknown"}]
      /\ \A i \in Numbers : operations'[i] = "absent" => operations[i] = "absent"
      /\ \/ presses'[p].stage = "answer" /\ operations' = operations
         \/ operations[id] = "absent" /\ operations'[id] = "started" /\ \A i \in Numbers \ {id} : operations'[i] = operations[i]
  <2>1. CASE Repeated(operations[id]) = "none"
    <3>1. operations[id] = "absent"
      BY <1>3, <2>1 DEF Repeated
    <3>2. operations' = [operations EXCEPT ![id] = "started"] /\ presses' = [presses EXCEPT ![p].stage = "transact"]
      BY <2>1 DEF Begin
    <3> DEFINE r == [presses[p] EXCEPT !.stage = "transact"]
    <3>3. /\ r \in PressTypes /\ r.stage = "transact" /\ r.page = presses[p].page /\ r.id = id
          /\ r.listening = presses[p].listening
      BY <1>2, Further DEF Stages
    <3>4. presses' = [presses EXCEPT ![p] = r]
      BY <3>2
    <3> HIDE DEF r
    <3>5. presses' \in [Numbers -> PressTypes] /\ presses'[p] = r /\ \A q \in Numbers \ {p} : presses'[q] = presses[q]
      BY <3>3, <3>4, OnePress DEF EntryInv
    <3>6. /\ operations' \in [Numbers -> {"absent", "started", "success", "failed", "unknown"}]
          /\ operations'[id] = "started" /\ \A i \in Numbers \ {id} : operations'[i] = operations[i]
      BY <1>2, <3>2 DEF EntryInv, EntryTypes
    <3> QED BY <3>1, <3>3, <3>5, <3>6
  <2>2. CASE Repeated(operations[id]) # "none"
    <3>1. presses' = Answered(p, Repeated(operations[id])) /\ operations' = operations
      BY <2>2 DEF Begin
    <3>2. Repeated(operations[id]) \in {"none", "success", "uncertain", "certain"}
      BY <1>3 DEF Repeated
    <3> QED BY <3>1, <3>2, AnsweredIs DEF EntryInv, EntryTypes
  <2> QED BY <2>1, <2>2
<1>5. EntryTypes'
  <2>1. \A q \in Numbers : Made(q)'
    BY <1>1, <1>2, <1>4, MadeStays DEF EntryInv, Active
  <2> QED BY <1>1, <1>4, <2>1, SituationStays DEF EntryInv, EntryTypes
<1>6. OperationsOnce'
  <2>1. CASE presses'[p].stage = "answer" /\ operations' = operations
    <3>1. \A q \in Numbers : /\ InService(q)' => InService(q) /\ presses'[q] = presses[q] /\ presses[q].id \in Numbers
                             /\ AtTransaction(q)' => AtTransaction(q)
      BY <1>4, <2>1 DEF AtTransaction, InService, EntryInv, EntryTypes, Made, Active
    <3> QED BY <1>1, <2>1, <3>1, OnceKept DEF EntryInv
  <2>2. CASE operations[id] = "absent" /\ operations'[id] = "started" /\ \A i \in Numbers \ {id} : operations'[i] = operations[i]
    <3>1. \A q \in Numbers \ {p} : /\ InService(q)' => InService(q) /\ presses[q].id # id /\ presses[q].id \in Numbers
                                   /\ AtTransaction(q)' => AtTransaction(q) /\ InService(q)
      BY <1>4, <2>2 DEF InService, AtTransaction, Active, Made, EntryInv, EntryTypes, OperationsOnce
    <3>2. operations'[id] # "absent" /\ applied'[id] = 0
      BY <1>1, <1>2, <2>2 DEF EntryInv, OperationsOnce
    <3>3. \A q \in Numbers : /\ InService(q)' => operations'[presses'[q].id] # "absent"
                             /\ AtTransaction(q)' => /\ operations'[presses'[q].id] = "started"
                                                     /\ applied'[presses'[q].id] = 0
      <4>1. TAKE q \in Numbers
      <4>2. CASE q = p
        BY <1>4, <2>2, <3>2, <4>2
      <4>3. CASE q # p
        <5>1. presses'[q] = presses[q] /\ applied' = applied
          BY <1>1, <1>4, <4>3
        <5>2. InService(q)' => operations'[presses[q].id] = operations[presses[q].id] /\ InService(q)
          BY <2>2, <3>1, <4>3
        <5>3. AtTransaction(q)' => InService(q)'
          BY DEF AtTransaction, InService
        <5>4. /\ InService(q) => operations[presses[q].id] # "absent"
              /\ AtTransaction(q) => operations[presses[q].id] = "started" /\ applied[presses[q].id] = 0
          BY DEF EntryInv, OperationsOnce
        <5> QED BY <3>1, <4>3, <5>1, <5>2, <5>3, <5>4
      <4> QED BY <4>2, <4>3
    <3>4. \A q, g \in Numbers : InService(q)' /\ InService(g)' /\ presses'[q].id = presses'[g].id => q = g
      BY <1>4, <3>1 DEF EntryInv, OperationsOnce
    <3>5. \A i \in Numbers : applied'[i] <= 1 /\ (operations'[i] = "absent" => applied'[i] = 0)
      BY <1>1, <1>4 DEF EntryInv, OperationsOnce
    <3> QED BY <1>1, <3>3, <3>4, <3>5, SituationStays DEF OperationsOnce
  <2> QED BY <1>4, <2>1, <2>2
<1>7. ListsFollow'
  <2>1. \A q \in Numbers : Active(q) /\ presses[q].listening
                             => Active(q)' /\ presses'[q].listening /\ presses'[q].page = presses[q].page
    BY <1>4 DEF Active
  <2>2. entered' # listed => dirty'
    BY <1>1 DEF EntryInv, ListsFollow
  <2> QED BY <1>1, <2>1, <2>2, ListsKept DEF EntryInv
<1>8. MessagesAgree'
  BY <1>1 DEF EntryInv, MessagesAgree
<1> QED BY <1>5, <1>6, <1>7, <1>8 DEF EntryInv

\* The transaction of a press or its failure: the page hears of neither.
LEMMA StepOfService ==
  ASSUME EntryInv, NEW p \in Numbers, AtTransaction(p), Effect(p) \/ NoEffect,
         UNCHANGED <<situation, retained, listed, lists, phase, crossed>>,
         presses' \in [Numbers -> PressTypes], presses'[p].stage \in {"answer", "fail", "doubt"},
         presses'[p].page = presses[p].page, presses'[p].id = presses[p].id, presses'[p].listening = presses[p].listening,
         \A q \in Numbers \ {p} : presses'[q] = presses[q]
  PROVE  EntryInv'
<1>1. Active(p) /\ Active(p)'
  BY DEF AtTransaction, Active
<1>2. \A q \in Numbers : Made(q)'
  BY <1>1, MadeStays DEF EntryInv
<1>3. \A q \in Numbers : /\ InService(q)' => InService(q) /\ presses'[q].id = presses[q].id /\ presses[q].id \in Numbers
                         /\ AtTransaction(q)' => q # p /\ AtTransaction(q)
  BY DEF AtTransaction, InService, EntryInv, EntryTypes, Made, Active
<1>4. /\ MessagesAgree' /\ OperationsOnce'
      /\ entered' \in BOOLEAN /\ dirty' \in BOOLEAN /\ messages' \in [created : Int, withdrawn : Int]
      /\ operations' \in [Numbers -> {"absent", "started", "success", "failed", "unknown"}]
      /\ applied' \in [Numbers -> Nat] /\ (entered' # listed => dirty')
  <2>1. CASE Effect(p)
    BY <1>3, <2>1, EffectOnce DEF EntryInv
  <2>2. CASE NoEffect
    <3>1. UNCHANGED <<operations, entered, dirty, messages, applied>>
      BY <2>2 DEF NoEffect
    <3>2. OperationsOnce'
      BY <1>3, <3>1, OnceKept DEF EntryInv
    <3> QED BY <3>1, <3>2 DEF EntryInv, EntryTypes, MessagesAgree, ListsFollow
  <2> QED BY <2>1, <2>2
<1>5. EntryTypes'
  BY <1>2, <1>4, SituationStays DEF EntryInv, EntryTypes
<1>6. \A q \in Numbers : Active(q) /\ presses[q].listening
                           => Active(q)' /\ presses'[q].listening /\ presses'[q].page = presses[q].page
  BY <1>1 DEF Active
<1>7. ListsFollow'
  BY <1>4, <1>6, ListsKept DEF EntryInv
<1> QED BY <1>4, <1>5, <1>7 DEF EntryInv

LEMMA TransactKeeps ==
  ASSUME EntryInv, NEW p \in Numbers, Transact(p) \/ TransactFails(p)
  PROVE  EntryInv'
<1>1. /\ AtTransaction(p) /\ (Effect(p) \/ NoEffect)
      /\ UNCHANGED <<situation, retained, listed, lists, phase, crossed>>
      /\ \/ \E reply \in {"success", "uncertain"} : presses' = Answered(p, reply)
         \/ \E stage \in {"fail", "doubt"} : presses' = [presses EXCEPT ![p].stage = stage]
  BY DEF Transact, TransactFails, AtTransaction
<1>2. CASE \E reply \in {"success", "uncertain"} : presses' = Answered(p, reply)
  <2>1. PICK reply \in {"success", "uncertain"} : presses' = Answered(p, reply)
    BY <1>2
  <2>2. /\ presses' \in [Numbers -> PressTypes] /\ presses'[p].stage = "answer"
        /\ presses'[p].page = presses[p].page /\ presses'[p].id = presses[p].id
        /\ presses'[p].listening = presses[p].listening
        /\ \A q \in Numbers \ {p} : presses'[q] = presses[q]
    BY <2>1, AnsweredIs DEF EntryInv
  <2> QED BY <1>1, <2>2, StepOfService
<1>3. CASE \E stage \in {"fail", "doubt"} : presses' = [presses EXCEPT ![p].stage = stage]
  <2>1. PICK stage \in {"fail", "doubt"} : presses' = [presses EXCEPT ![p].stage = stage]
    BY <1>3
  <2> DEFINE r == [presses[p] EXCEPT !.stage = stage]
  <2>2. /\ r \in PressTypes /\ r.stage = stage /\ r.page = presses[p].page /\ r.id = presses[p].id
        /\ r.listening = presses[p].listening
    <3>1. presses[p] \in PressTypes /\ stage \in Stages
      BY DEF Stages, EntryInv, EntryTypes
    <3> QED BY <3>1, Further
  <2>3. presses' = [presses EXCEPT ![p] = r]
    BY <2>1
  <2> HIDE DEF r
  <2>4. /\ presses' \in [Numbers -> PressTypes] /\ presses'[p] = r
        /\ \A q \in Numbers \ {p} : presses'[q] = presses[q]
    BY <2>2, <2>3, OnePress DEF EntryInv
  <2> QED BY <1>1, <2>1, <2>2, <2>4, StepOfService
<1> QED BY <1>1, <1>2, <1>3

LEMMA FinalizeKeeps ==
  ASSUME EntryInv, NEW p \in Numbers, Finalize(p)
  PROVE  EntryInv'
<1> DEFINE id == presses[p].id
           status == IF presses[p].stage = "fail" THEN "failed" ELSE "unknown"
<1>1. /\ presses[p].stage \in {"fail", "doubt"} /\ presses' = Answered(p, "certain")
      /\ \/ operations' = [operations EXCEPT ![id] = IF operations[id] = "started" THEN status ELSE operations[id]]
         \/ operations' = operations
      /\ UNCHANGED <<situation, entered, messages, retained, listed, dirty, lists, phase, applied, crossed>>
  BY DEF Finalize
<1>2. Active(p) /\ id \in Numbers
  BY <1>1 DEF Active, EntryInv, EntryTypes, Made
<1>3. /\ presses' \in [Numbers -> PressTypes] /\ presses'[p].stage = "answer"
      /\ presses'[p].page = presses[p].page /\ presses'[p].id = presses[p].id
      /\ presses'[p].listening = presses[p].listening
      /\ \A q \in Numbers \ {p} : presses'[q] = presses[q]
  BY <1>1, AnsweredIs DEF EntryInv
<1>4. /\ operations' \in [Numbers -> {"absent", "started", "success", "failed", "unknown"}]
      /\ \A i \in Numbers : operations'[i] = "absent" => operations[i] = "absent"
      /\ \A i \in Numbers \ {id} : operations'[i] = operations[i]
  <2>1. CASE operations' = operations
    BY <2>1 DEF EntryInv, EntryTypes
  <2>2. CASE operations' = [operations EXCEPT ![id] = IF operations[id] = "started" THEN status ELSE operations[id]]
    <3> DEFINE s == IF operations[id] = "started" THEN status ELSE operations[id]
    <3>1. s \in {"absent", "started", "success", "failed", "unknown"} /\ (s = "absent" => operations[id] = "absent")
      BY <1>2 DEF EntryInv, EntryTypes
    <3>2. operations' = [operations EXCEPT ![id] = s]
      BY <2>2
    <3> HIDE DEF s
    <3> QED BY <1>2, <3>1, <3>2 DEF EntryInv, EntryTypes
  <2> QED BY <1>1, <2>1, <2>2
<1>5. \A q \in Numbers : Made(q)'
  BY <1>1, <1>2, <1>3, MadeStays DEF EntryInv, Active
<1>6. EntryTypes'
  BY <1>1, <1>3, <1>4, <1>5, SituationStays DEF EntryInv, EntryTypes
<1>7. OperationsOnce'
  <2>1. \A q \in Numbers : /\ InService(q)' => /\ InService(q) /\ q # p /\ presses'[q] = presses[q] /\ presses[q].id \in Numbers
                           /\ AtTransaction(q)' => AtTransaction(q) /\ InService(q)'
    BY <1>3 DEF AtTransaction, InService, EntryInv, EntryTypes, Made, Active
  <2>2. \A q \in Numbers : InService(q)' => presses[q].id # id
    BY <1>1, <2>1 DEF InService, EntryInv, OperationsOnce
  <2> QED BY <1>1, <1>4, <2>1, <2>2, OnceKept DEF EntryInv
<1>8. \A q \in Numbers : Active(q) /\ presses[q].listening
                           => Active(q)' /\ presses'[q].listening /\ presses'[q].page = presses[q].page
  BY <1>3 DEF Active
<1>9. entered' # listed => dirty'
  BY <1>1 DEF EntryInv, ListsFollow
<1>10. ListsFollow'
  BY <1>1, <1>8, <1>9, ListsKept DEF EntryInv
<1>11. MessagesAgree'
  BY <1>1 DEF EntryInv, MessagesAgree
<1> QED BY <1>6, <1>7, <1>10, <1>11 DEF EntryInv

-----------------------------------------------------------------------------
\* The server stops.
LEMMA RestartKeeps ==
  ASSUME EntryInv, Restart
  PROVE  EntryInv'
<1>1. /\ NoEffect \/ \E p \in Numbers : presses[p].stage = "transact" /\ Effect(p)
      /\ presses' = [p \in Numbers |-> IF presses[p].stage = "unmade" THEN Unmade ELSE Done]
      /\ lists' = [t \in Pages |-> [Load(lists[t]) EXCEPT !.pressed = 0]]
      /\ listed' = entered /\ UNCHANGED <<situation, retained, phase, crossed>>
  BY DEF Restart
<1>2. /\ presses' \in [Numbers -> PressTypes]
      /\ \A p \in Numbers : presses'[p].stage \in {"unmade", "done"} /\ ~presses'[p].listening
  BY <1>1, DoneIs
<1>3. \A p \in Numbers : Made(p)' /\ ~InService(p)' /\ ~AtTransaction(p)'
  BY <1>2 DEF Made, Active, InService, AtTransaction
<1>4. /\ MessagesAgree' /\ OperationsOnce'
      /\ entered' \in BOOLEAN /\ dirty' \in BOOLEAN /\ messages' \in [created : Int, withdrawn : Int]
      /\ operations' \in [Numbers -> {"absent", "started", "success", "failed", "unknown"}]
      /\ applied' \in [Numbers -> Nat] /\ (entered' # entered => dirty')
  <2>1. CASE NoEffect
    <3>1. UNCHANGED <<operations, entered, dirty, messages, applied>>
      BY <2>1 DEF NoEffect
    <3>2. OperationsOnce'
      BY <1>1, <1>3, <3>1, OnceKept DEF EntryInv
    <3> QED BY <3>1, <3>2 DEF EntryInv, EntryTypes, MessagesAgree
  <2>2. CASE \E p \in Numbers : presses[p].stage = "transact" /\ Effect(p)
    <3>1. PICK p \in Numbers : AtTransaction(p) /\ Effect(p)
      BY <2>2 DEF AtTransaction
    <3> QED BY <1>1, <1>3, <3>1, EffectOnce DEF EntryInv
  <2> QED BY <1>1, <2>1, <2>2
<1>5. ASSUME NEW t \in Pages
      PROVE  /\ lists'[t] \in ListTypes /\ lists'[t].pressed = 0 /\ lists'[t].unread > 0
             /\ lists'[t].registered = lists[t].registered /\ lists'[t].button = lists[t].button
             /\ lists'[t].drawnIn = lists[t].drawnIn
  <2>1. lists[t] \in ListTypes
    BY DEF EntryInv, EntryTypes
  <2> DEFINE l == Load(lists[t])
  <2>2. /\ l \in ListTypes /\ l.unread > 0 /\ l.registered = lists[t].registered
        /\ l.button = lists[t].button /\ l.drawnIn = lists[t].drawnIn
    BY <2>1, Loads DEF EntryInv
  <2>3. lists'[t] = [l EXCEPT !.pressed = 0]
    BY <1>1
  <2> HIDE DEF l
  <2> QED BY <2>2, <2>3, Waits
<1>6. lists' \in [Pages -> ListTypes]
  BY <1>1, <1>5
<1>7. EntryTypes'
  BY <1>1, <1>2, <1>3, <1>4, <1>6, SituationStays DEF EntryInv, EntryTypes
<1>8. ListsFollow'
  <2>1. listed' # entered' => dirty'
    BY <1>1, <1>4
  <2>2. \A t \in Pages : lists'[t].drawnIn <= phase'
                        /\ lists'[t].button = IF lists'[t].registered THEN "remove"
                                              ELSE IF lists'[t].drawnIn = 1 THEN "add" ELSE "none"
    <3>1. \A t \in Pages : lists[t].drawnIn <= phase
                          /\ lists[t].button = IF lists[t].registered THEN "remove"
                                               ELSE IF lists[t].drawnIn = 1 THEN "add" ELSE "none"
      BY DEF EntryInv, ListsFollow
    <3>2. phase' = phase
      BY <1>1
    <3> QED BY <1>5, <3>1, <3>2
  <2>3. \A t \in Pages : lists'[t].unread > 0 /\ lists'[t].pressed = 0
    BY <1>5
  <2>4. Pages' = Pages
    BY <1>1, SituationStays
  <2> QED BY <2>1, <2>2, <2>3, <2>4 DEF ListsFollow
<1> QED BY <1>4, <1>7, <1>8 DEF EntryInv

\* A step of the pages' loads or of time: presses and operations stay.
LEMMA LoadStep ==
  ASSUME EntryInv, UNCHANGED <<situation, entered, messages, operations, presses, retained, applied>>,
         listed' \in BOOLEAN, dirty' \in BOOLEAN, phase' \in 0..2, lists' \in [Pages -> ListTypes], ListsFollow'
  PROVE  EntryInv'
<1>1. \A p \in Numbers : Made(p)' /\ (InService(p)' <=> InService(p)) /\ (AtTransaction(p)' <=> AtTransaction(p))
  BY SituationStays DEF EntryInv, EntryTypes, Made, Active, InService, AtTransaction
<1>2. EntryTypes'
  BY <1>1, SituationStays DEF EntryInv, EntryTypes
<1>3. OperationsOnce' /\ MessagesAgree'
  BY <1>1, SituationStays DEF EntryInv, OperationsOnce, MessagesAgree
<1> QED BY <1>2, <1>3 DEF EntryInv

LEMMA PublishKeeps ==
  ASSUME EntryInv, Publish
  PROVE  EntryInv'
<1>1. /\ dirty' = FALSE /\ listed' = entered /\ lists' = [t \in Pages |-> Load(lists[t])]
      /\ UNCHANGED <<situation, entered, messages, operations, presses, retained, phase, applied, crossed>>
  BY DEF Publish
<1>2. \A t \in Pages : /\ lists'[t] \in ListTypes /\ lists'[t].unread > 0
                       /\ lists'[t].registered = lists[t].registered /\ lists'[t].button = lists[t].button
                       /\ lists'[t].drawnIn = lists[t].drawnIn
  BY <1>1, Loads DEF EntryInv, EntryTypes
<1>3. lists' \in [Pages -> ListTypes]
  BY <1>1, <1>2
<1>4. ListsFollow'
  BY <1>1, <1>2, SituationStays DEF EntryInv, ListsFollow
<1> QED BY <1>1, <1>3, <1>4, LoadStep DEF EntryInv, EntryTypes

\* One list changes while the projection and the presses stay.
LEMMA ListStep ==
  ASSUME EntryInv, NEW t \in Pages, NEW l \in ListTypes, lists' = [lists EXCEPT ![t] = l],
         UNCHANGED <<situation, entered, messages, operations, presses, retained, listed, dirty, phase, applied>>,
         crossed \ {t} = crossed' \ {t},
         \/ t \in crossed' \/ l.unread > 0 \/ l.read = {listed}
         \/ l.read = {} /\ l.registered = listed,
         l.pressed # 0 => l.pressed = lists[t].pressed /\ (Stays(t) \/ l.unread > 0 \/ l.read # {}),
         l.drawnIn <= phase,
         l.button = IF l.registered THEN "remove" ELSE IF l.drawnIn = 1 THEN "add" ELSE "none"
  PROVE  EntryInv'
<1>1. lists' \in [Pages -> ListTypes] /\ lists'[t] = l /\ \A u \in Pages \ {t} : lists'[u] = lists[u]
  BY OneList DEF EntryInv
<1>2. l.pressed # 0 => (Stays(t)' <=> Stays(t))
  BY <1>1 DEF Stays, Active
<1>3. \A u \in Pages \ {t} : Stays(u)' <=> Stays(u)
  BY <1>1 DEF Stays, Active
<1>4. \A u \in Pages \ {t} : u \in crossed <=> u \in crossed'
  OBVIOUS
<1>5. ListsFollow'
  BY <1>1, <1>2, <1>3, <1>4, SituationStays DEF EntryInv, ListsFollow
<1> QED BY <1>1, <1>5, LoadStep DEF EntryInv, EntryTypes

LEMMA ReadKeeps ==
  ASSUME EntryInv, NEW t \in Pages, Read(t)
  PROVE  EntryInv'
<1> DEFINE n == lists[t].unread - 1
           read == lists[t].read \cup {listed}
           l == [lists[t] EXCEPT !.unread = n, !.read = read]
<1>1. /\ lists[t].unread > 0 /\ lists' = [lists EXCEPT ![t] = l]
      /\ crossed' = IF lists[t].read # {} THEN crossed \cup {t} ELSE crossed \ {t}
      /\ UNCHANGED <<situation, entered, messages, operations, presses, retained, listed, dirty, phase, applied>>
  BY DEF Read
<1>2. lists[t] \in ListTypes /\ listed \in BOOLEAN
  BY DEF EntryInv, EntryTypes
<1>3. n \in Nat /\ read \in SUBSET BOOLEAN
  BY <1>1, <1>2 DEF ListTypes
<1> HIDE DEF n
<1>4. /\ l \in ListTypes /\ l.read = read /\ l.registered = lists[t].registered /\ l.pressed = lists[t].pressed
      /\ l.button = lists[t].button /\ l.drawnIn = lists[t].drawnIn
  <2> HIDE DEF read
  <2> QED BY <1>2, <1>3 DEF ListTypes
<1>5. l.read # {} /\ (t \in crossed' \/ l.read = {listed}) /\ crossed \ {t} = crossed' \ {t}
  BY <1>1, <1>4
<1> HIDE DEF l
<1>6. l.drawnIn <= phase /\ l.button = IF l.registered THEN "remove" ELSE IF l.drawnIn = 1 THEN "add" ELSE "none"
  BY <1>4 DEF EntryInv, ListsFollow
<1> QED BY <1>1, <1>4, <1>5, <1>6, ListStep

LEMMA ShowKeeps ==
  ASSUME EntryInv, NEW t \in Pages, ShowList(t)
  PROVE  EntryInv'
<1>1. PICK registered \in lists[t].read :
        /\ lists' = [lists EXCEPT ![t] = [Drawn(lists[t], registered) EXCEPT !.read = lists[t].read \ {registered}]]
        /\ UNCHANGED <<situation, entered, messages, operations, presses, retained, listed, dirty, phase, applied, crossed>>
  BY DEF ShowList
<1>2. lists[t] \in ListTypes /\ registered \in BOOLEAN /\ phase \in 0..2
  BY DEF EntryInv, EntryTypes, ListTypes
<1> DEFINE d == Drawn(lists[t], registered)
           read == lists[t].read \ {registered}
           l == [d EXCEPT !.read = read]
<1>3. /\ d \in ListTypes /\ d.pressed = 0 /\ d.drawnIn = phase /\ d.registered = registered /\ d.unread = lists[t].unread
      /\ d.button = IF registered THEN "remove" ELSE IF phase = 1 THEN "add" ELSE "none"
  BY <1>2, Draws DEF EntryInv
<1>4. read \in SUBSET BOOLEAN
  BY <1>2 DEF ListTypes
<1>5. lists' = [lists EXCEPT ![t] = l]
  BY <1>1
<1> HIDE DEF d
<1>6. /\ l \in ListTypes /\ l.pressed = 0 /\ l.drawnIn = phase /\ l.registered = registered /\ l.unread = lists[t].unread
      /\ l.read = read /\ l.button = IF registered THEN "remove" ELSE IF phase = 1 THEN "add" ELSE "none"
  <2> HIDE DEF read
  <2> QED BY <1>3, <1>4 DEF ListTypes
<1>7. t \in crossed \/ l.unread > 0 \/ (l.read = {} /\ l.registered = listed)
  BY <1>1, <1>6 DEF EntryInv, ListsFollow
<1> HIDE DEF l
<1>8. phase <= phase
  BY <1>2
<1> QED BY <1>1, <1>5, <1>6, <1>7, <1>8, ListStep

LEMMA ReadFailsKeeps ==
  ASSUME EntryInv, NEW t \in Pages, ReadFails(t)
  PROVE  EntryInv'
<1> DEFINE n == lists[t].unread - 1
           l == [lists[t] EXCEPT !.unread = n, !.pressed = 0]
<1>1. /\ lists[t].unread > 0 /\ lists' = [lists EXCEPT ![t] = l] /\ crossed' = crossed \cup {t}
      /\ UNCHANGED <<situation, entered, messages, operations, presses, retained, listed, dirty, phase, applied>>
  BY DEF ReadFails
<1>2. lists[t] \in ListTypes
  BY DEF EntryInv, EntryTypes
<1>3. n \in Nat
  BY <1>1, <1>2 DEF ListTypes
<1> HIDE DEF n
<1>4. /\ l \in ListTypes /\ l.pressed = 0 /\ l.registered = lists[t].registered
      /\ l.button = lists[t].button /\ l.drawnIn = lists[t].drawnIn
  BY <1>2, <1>3 DEF ListTypes
<1> HIDE DEF l
<1>5. l.drawnIn <= phase /\ l.button = IF l.registered THEN "remove" ELSE IF l.drawnIn = 1 THEN "add" ELSE "none"
  BY <1>4 DEF EntryInv, ListsFollow
<1>6. t \in crossed' /\ crossed \ {t} = crossed' \ {t}
  BY <1>1
<1> QED BY <1>1, <1>4, <1>5, <1>6, ListStep

LEMMA BoundaryKeeps ==
  ASSUME EntryInv, NEW t \in Pages, BoundaryPassed(t)
  PROVE  EntryInv'
<1> DEFINE l == Drawn(lists[t], lists[t].registered)
<1>1. /\ lists' = [lists EXCEPT ![t] = l]
      /\ UNCHANGED <<situation, entered, messages, operations, presses, retained, listed, dirty, phase, applied, crossed>>
  BY DEF BoundaryPassed
<1>2. lists[t] \in ListTypes /\ lists[t].registered \in BOOLEAN /\ phase \in 0..2
  BY DEF EntryInv, EntryTypes, ListTypes
<1>3. /\ l \in ListTypes /\ l.pressed = 0 /\ l.drawnIn = phase /\ l.registered = lists[t].registered
      /\ l.unread = lists[t].unread /\ l.read = lists[t].read
      /\ l.button = IF lists[t].registered THEN "remove" ELSE IF phase = 1 THEN "add" ELSE "none"
  BY <1>2, Draws DEF EntryInv
<1> HIDE DEF l
<1>4. \/ t \in crossed' \/ l.unread > 0
      \/ l.read = {} /\ l.registered = listed
      \/ l.read = {listed}
  BY <1>1, <1>3 DEF EntryInv, ListsFollow
<1>5. phase <= phase
  BY <1>2
<1> QED BY <1>1, <1>3, <1>4, <1>5, ListStep

LEMMA TimeKeeps ==
  ASSUME EntryInv, TimePasses
  PROVE  EntryInv'
<1>1. /\ phase < 2 /\ phase' = phase + 1
      /\ UNCHANGED <<situation, entered, messages, operations, presses, retained, listed, dirty, lists, applied, crossed>>
  BY DEF TimePasses
<1>2. phase \in 0..2 /\ phase' \in 0..2 /\ phase <= phase'
  BY <1>1 DEF EntryInv, EntryTypes
<1>3. \A t \in Pages : (Stays(t)' <=> Stays(t)) /\ lists[t].drawnIn \in 0..2
  BY <1>1 DEF Stays, Active, EntryInv, EntryTypes, ListTypes
<1>4. ListsFollow'
  BY <1>1, <1>2, <1>3, SituationStays DEF EntryInv, ListsFollow
<1> QED BY <1>1, <1>2, <1>4, SituationStays, LoadStep DEF EntryInv, EntryTypes

-----------------------------------------------------------------------------
LEMMA EntryStarts == EntryInit => EntryInv
<1> SUFFICES ASSUME EntryInit PROVE EntryInv
  OBVIOUS
<1>1. phase \in 0..2 /\ phase <= phase /\ situation \in EntryScenes /\ Toolbar(FALSE) = IF phase = 1 THEN "add" ELSE "none"
  BY DEF EntryInit, Toolbar, PeriodOpen
<1>2. \A p \in Numbers : presses[p] \in PressTypes /\ Made(p) /\ ~InService(p) /\ ~AtTransaction(p)
  BY DoneIs DEF EntryInit, Made, Active, InService, AtTransaction
<1>3. \A t \in Pages : /\ lists[t] \in ListTypes /\ lists[t].pressed = 0 /\ lists[t].drawnIn = phase /\ lists[t].read = {}
                       /\ ~lists[t].registered /\ lists[t].button = IF phase = 1 THEN "add" ELSE "none"
  BY <1>1 DEF EntryInit, ListTypes
<1>4. EntryTypes
  <2>1. /\ operations \in [Numbers -> {"absent", "started", "success", "failed", "unknown"}]
        /\ applied \in [Numbers -> Nat] /\ retained \in [Pages -> [Kinds -> Numbers \cup {0}]]
        /\ messages \in [created : Int, withdrawn : Int]
    BY DEF EntryInit
  <2>2. presses \in [Numbers -> PressTypes] /\ lists \in [Pages -> ListTypes]
    BY <1>2, <1>3 DEF EntryInit
  <2>3. entered \in BOOLEAN /\ listed \in BOOLEAN /\ dirty \in BOOLEAN
    BY DEF EntryInit
  <2> QED BY <1>1, <1>2, <2>1, <2>2, <2>3 DEF EntryTypes
<1>5. MessagesAgree /\ OperationsOnce
  BY <1>2 DEF EntryInit, MessagesAgree, OperationsOnce
<1>6. ListsFollow
  <2>1. \A t \in Pages : lists[t].registered = listed
    BY DEF EntryInit
  <2>2. listed = entered
    BY DEF EntryInit
  <2> QED BY <1>1, <1>3, <2>1, <2>2 DEF ListsFollow
<1> QED BY <1>4, <1>5, <1>6 DEF EntryInv

LEMMA EntryStep == EntryInv /\ [EntryNext]_entryVars => EntryInv'
<1> SUFFICES ASSUME EntryInv, [EntryNext]_entryVars PROVE EntryInv'
  OBVIOUS
<1>1. ASSUME NEW t \in Pages, Press(t) \/ Read(t) \/ ShowList(t) \/ ReadFails(t) \/ BoundaryPassed(t)
      PROVE  EntryInv'
  BY <1>1, PressKeeps, ReadKeeps, ShowKeeps, ReadFailsKeeps, BoundaryKeeps
<1>2. ASSUME NEW p \in Numbers, Answer(p) \/ Lost(p) \/ Begin(p) \/ Transact(p) \/ TransactFails(p) \/ Finalize(p)
      PROVE  EntryInv'
  BY <1>2, AnswerKeeps, LostKeeps, BeginKeeps, TransactKeeps, FinalizeKeeps
<1>3. CASE UNCHANGED entryVars
  <2>1. UNCHANGED <<situation, entered, messages, operations, presses, retained, listed, dirty, lists, phase, applied, crossed>>
    BY <1>3 DEF entryVars
  <2>2. \A t \in Pages : Stays(t)' <=> Stays(t)
    BY <2>1 DEF Stays, Active
  <2>3. ListsFollow'
    BY <2>1, <2>2, SituationStays DEF EntryInv, ListsFollow
  <2> QED BY <2>1, <2>3, SituationStays, LoadStep DEF EntryInv, EntryTypes
<1> QED BY <1>1, <1>2, <1>3, PublishKeeps, RestartKeeps, TimeKeeps DEF EntryNext

LEMMA EntryInvariant == EntrySpec => []EntryInv
BY EntryStarts, EntryStep, PTL DEF EntrySpec

\* Whatever is lost, doubtful, repeated or restarted, an operationId changes the entry at most once and every
\* change writes exactly one message (addEntry, removeEntry, repeatedResult).
THEOREM EntriesAreAnnouncedOnce == EntrySpec => []EntriesAnnouncedOnce
<1>1. EntryInv => EntriesAnnouncedOnce
  BY DEF EntryInv, OperationsOnce, EntriesAnnouncedOnce, AppliedOnce
<1> QED BY <1>1, EntryInvariant, PTL

\* Once nothing is under way every page shows the entry as it is and offers what is possible, if no two of its
\* loads crossed and none failed (loadEntries, initToolbar, scheduleEntryBoundary).
THEOREM ListsAreCurrent == EntrySpec => []ListsCurrent
<1>1. EntryInv => ListsCurrent
  <2> SUFFICES ASSUME EntryInv, Resting, NEW t \in Pages \ crossed
               PROVE  lists[t].registered = entered /\ lists[t].button = Toolbar(entered) /\ lists[t].pressed = 0
    BY DEF ListsCurrent
  <2>1. ~dirty /\ lists[t].unread = 0 /\ lists[t].read = {} /\ ~(lists[t].drawnIn < phase)
        /\ \A p \in Numbers : ~Active(p)
    BY DEF Resting, Boundary, Active
  <2>2. lists[t].drawnIn \in 0..2 /\ phase \in 0..2 /\ lists[t].pressed \in Numbers \cup {0}
    BY DEF EntryInv, EntryTypes, ListTypes
  <2>3. listed = entered /\ lists[t].registered = listed
    BY <2>1 DEF EntryInv, ListsFollow
  <2>4. lists[t].drawnIn = phase
    BY <2>1, <2>2 DEF EntryInv, ListsFollow
  <2>5. lists[t].pressed = 0
    BY <2>1, <2>2 DEF EntryInv, ListsFollow, Stays
  <2> QED BY <2>3, <2>4, <2>5 DEF EntryInv, ListsFollow, Toolbar, PeriodOpen
<1> QED BY <1>1, EntryInvariant, PTL

-----------------------------------------------------------------------------
(* Hall times: the queue of a date.                                        *)
-----------------------------------------------------------------------------
Outdone(q, new) == \A p, o \in q.waiting : <<p, o>> \in q.before /\ o \in new.confirmed => p \notin new.waiting

LEMMA AmongLined ==
  ASSUME NEW q \in Queues, Lined(q), NEW W \in SUBSET q.waiting
  PROVE  /\ Among(q, W) \in Queues /\ Lined(Among(q, W))
         /\ Among(q, W).confirmed = q.confirmed /\ Among(q, W).waiting = W
         /\ Among(q, W).before = q.before \cap (W \X W)
<1> DEFINE r == Among(q, W)
<1>1. r.confirmed = q.confirmed /\ r.waiting = W /\ r.before = q.before \cap (W \X W) /\ r \in Queues
  BY DEF Among, Queues
<1> HIDE DEF r
<1>2. Lined(r)
  BY <1>1 DEF Lined
<1> QED BY <1>1, <1>2 DEF r

LEMMA WithoutLined ==
  ASSUME NEW s \in Slots, queue[s] \in Queues, Lined(queue[s]), NEW people
  PROVE  /\ Without(s, people) \in Queues /\ Lined(Without(s, people))
         /\ Without(s, people).confirmed = Confirmed(s) \ people
         /\ Without(s, people).waiting = Waiting(s) \ people
         /\ Without(s, people).before \subseteq queue[s].before
         /\ Without(s, people).before = queue[s].before \cap ((Waiting(s) \ people) \X (Waiting(s) \ people))
<1> DEFINE a == Among(queue[s], Waiting(s) \ people)
           r == Without(s, people)
<1>1. /\ a \in Queues /\ Lined(a) /\ a.confirmed = Confirmed(s) /\ a.waiting = Waiting(s) \ people
      /\ a.before = queue[s].before \cap ((Waiting(s) \ people) \X (Waiting(s) \ people))
  BY AmongLined DEF Waiting, Confirmed
<1>2. r = [a EXCEPT !.confirmed = @ \ people]
  BY DEF Without
<1> HIDE DEF a, r
<1>3. r.confirmed = Confirmed(s) \ people /\ r.waiting = a.waiting /\ r.before = a.before /\ r \in Queues
  BY <1>1, <1>2 DEF Queues
<1>4. Lined(r)
  BY <1>1, <1>3 DEF Lined
<1> QED BY <1>1, <1>3, <1>4 DEF r

\* Of those who wait, one was entered before all the others.
LEMMA FirstWaits ==
  ASSUME NEW q \in Queues, Lined(q), q.waiting # {}
  PROVE  First(q) \in q.waiting /\ \A o \in q.waiting \ {First(q)} : <<First(q), o>> \in q.before
<1> DEFINE Earlier(p) == {o \in q.waiting : <<o, p>> \in q.before}
           T == {Earlier(p) : p \in q.waiting}
<1>1. T \subseteq FiniteSubsetsOf(q.waiting) /\ T # {}
  <2>1. q.waiting \in SUBSET People
    BY DEF Queues
  <2>2. IsFiniteSet(q.waiting)
    BY <2>1, HallsAssumption, FS_Subset
  <2>3. \A p \in q.waiting : Earlier(p) \in SUBSET q.waiting /\ IsFiniteSet(Earlier(p))
    BY <2>2, FS_Subset
  <2> HIDE DEF Earlier
  <2> QED BY <2>3 DEF FiniteSubsetsOf
<1>2. PICK t \in T : \A u \in T : <<u, t>> \notin StrictSubsetOrdering(q.waiting)
  <2> HIDE DEF T
  <2> QED BY <1>1, WFMin, FS_StrictSubsetOrderingWellFounded
<1>3. PICK p \in q.waiting : t = Earlier(p)
  BY <1>2
<1>4. ASSUME NEW o \in q.waiting, <<o, p>> \in q.before PROVE FALSE
  <2>1. Earlier(o) \subseteq Earlier(p) /\ o \in Earlier(p) /\ o \notin Earlier(o)
    BY <1>4 DEF Lined
  <2>2. <<Earlier(o), Earlier(p)>> \in StrictSubsetOrdering(q.waiting)
    BY <2>1 DEF StrictSubsetOrdering
  <2> QED BY <1>2, <1>3, <2>2
<1>5. \A o \in q.waiting \ {p} : <<p, o>> \in q.before
  BY <1>4 DEF Lined
<1> QED BY <1>5 DEF First

LEMMA PromotedLined ==
  ASSUME NEW q \in Queues, Lined(q)
  PROVE  /\ Promoted(q) \in Queues /\ Lined(Promoted(q)) /\ Outdone(q, Promoted(q))
         /\ Promoted(q).confirmed \cup Promoted(q).waiting = q.confirmed \cup q.waiting
         /\ \E p : Promoted(q).confirmed \subseteq q.confirmed \cup {p}
<1>1. CASE q.waiting = {}
  BY <1>1 DEF Promoted, Outdone
<1>2. CASE q.waiting # {}
  <2> DEFINE f == First(q)
             a == Among(q, q.waiting \ {f})
             r == Promoted(q)
  <2>1. f \in q.waiting /\ \A o \in q.waiting \ {f} : <<f, o>> \in q.before
    BY <1>2, FirstWaits
  <2>2. /\ a \in Queues /\ Lined(a) /\ a.confirmed = q.confirmed /\ a.waiting = q.waiting \ {f}
        /\ a.before = q.before \cap ((q.waiting \ {f}) \X (q.waiting \ {f}))
    BY AmongLined
  <2>3. r = [a EXCEPT !.confirmed = @ \cup {f}]
    BY <1>2 DEF Promoted
  <2>4. f \in People
    BY <2>1 DEF Queues
  <2> HIDE DEF a, r, f
  <2>5. r.confirmed = q.confirmed \cup {f} /\ r.waiting = q.waiting \ {f} /\ r.before = a.before /\ r \in Queues
    BY <2>2, <2>3, <2>4 DEF Queues
  <2>6. Lined(r)
    BY <2>1, <2>2, <2>5 DEF Lined
  <2>7. ASSUME NEW p \in q.waiting, NEW o \in q.waiting, <<p, o>> \in q.before, o \in r.confirmed
        PROVE  p \notin r.waiting
    <3>1. o = f
      BY <2>5, <2>7 DEF Lined
    <3>2. p = f
      BY <2>1, <2>7, <3>1 DEF Lined
    <3> QED BY <2>5, <3>2
  <2>8. r.confirmed \cup r.waiting = q.confirmed \cup q.waiting
    BY <2>1, <2>5
  <2>9. Outdone(q, r)
    BY <2>7 DEF Outdone
  <2> QED BY <2>5, <2>6, <2>8, <2>9 DEF r
<1> QED BY <1>1, <1>2

-----------------------------------------------------------------------------
(* The inductive invariant, and what one step makes of one date.           *)
-----------------------------------------------------------------------------
HallsTyped == grid \in [Grids -> GridRows] /\ slot \in [Slots -> SlotRows] /\ queue \in [Slots -> Queues]
Planned == \A s \in Slots : grid[GridOf[s]].rev = 0 => Vacant(queue[s])
HallsInv == HallsTyped /\ (\A s \in Slots : Lined(queue[s])) /\ Planned /\ PlacesKept

Room(s) == Max({slot[s].cap, grid[GridOf[s]].cap})
\* What a step has to show of date s, for a queue q it leaves there
Sound(s, q) == /\ q \in Queues /\ Lined(q) /\ Outdone(queue[s], q)
               /\ Cardinality(q.confirmed) <= Room(s)'
               /\ slot'[s].when > 0 => q.confirmed \cup q.waiting \subseteq grid'[GridOf[s]].members
               /\ grid'[GridOf[s]].rev = 0 => Vacant(q)

LEMMA MaxOfTwo == ASSUME NEW a \in Nat, NEW b \in Nat PROVE Max({a, b}) \in Nat /\ Max({a, b}) = IF a >= b THEN a ELSE b
<1> DEFINE m == IF a >= b THEN a ELSE b
<1>1. m \in {a, b} /\ \A y \in {a, b} : m >= y
  OBVIOUS
<1>2. \A x \in {a, b} : (\A y \in {a, b} : x >= y) => x = m
  OBVIOUS
<1>3. Max({a, b}) = m
  <2> HIDE DEF m
  <2>1. Max({a, b}) = CHOOSE x \in {a, b} : \A y \in {a, b} : x >= y
    BY DEF Max
  <2> QED BY <1>1, <1>2, <2>1
<1> QED BY <1>3

LEMMA HolderSets ==
  ASSUME NEW q \in Queues
  PROVE  /\ q.confirmed \in SUBSET People /\ q.waiting \in SUBSET People
         /\ IsFiniteSet(q.confirmed) /\ IsFiniteSet(q.waiting) /\ Cardinality(q.confirmed) \in Nat
<1>1. q.confirmed \in SUBSET People /\ q.waiting \in SUBSET People
  BY DEF Queues
<1> QED BY <1>1, HallsAssumption, FS_Subset, FS_CardinalityType

LEMMA SlotFacts ==
  ASSUME HallsInv, NEW s \in Slots
  PROVE  /\ GridOf[s] \in Grids /\ queue[s] \in Queues /\ Lined(queue[s])
         /\ slot[s] \in SlotRows /\ grid[GridOf[s]] \in GridRows
         /\ slot[s].cap \in Nat /\ grid[GridOf[s]].cap \in Nat /\ slot[s].when \in Times
         /\ Confirmed(s) = queue[s].confirmed /\ Waiting(s) = queue[s].waiting
         /\ Holders(s) = queue[s].confirmed \cup queue[s].waiting
         /\ Cardinality(queue[s].confirmed) \in Nat /\ Cardinality(queue[s].confirmed) <= Room(s)
         /\ slot[s].when > 0 => queue[s].confirmed \cup queue[s].waiting \subseteq grid[GridOf[s]].members
         /\ grid[GridOf[s]].rev = 0 => Vacant(queue[s])
<1>1. GridOf[s] \in Grids
  BY HallsAssumption
<1>2. queue[s] \in Queues /\ Lined(queue[s]) /\ slot[s] \in SlotRows /\ grid[GridOf[s]] \in GridRows
  BY <1>1 DEF HallsInv, HallsTyped
<1>3. slot[s].cap \in Nat /\ grid[GridOf[s]].cap \in Nat /\ slot[s].when \in Times
  BY <1>2 DEF SlotRows, GridRows
<1>4. Confirmed(s) = queue[s].confirmed /\ Waiting(s) = queue[s].waiting
      /\ Holders(s) = queue[s].confirmed \cup queue[s].waiting
  BY DEF Confirmed, Waiting, Holders
<1>5. Cardinality(queue[s].confirmed) \in Nat
  BY <1>2, HolderSets
<1>6. Cardinality(queue[s].confirmed) <= Room(s)
  BY <1>4 DEF HallsInv, PlacesKept, CapacityKept, Room
<1>7. slot[s].when > 0 => queue[s].confirmed \cup queue[s].waiting \subseteq grid[GridOf[s]].members
  BY <1>4 DEF HallsInv, PlacesKept, OnlyMembersHoldPlaces
<1>8. grid[GridOf[s]].rev = 0 => Vacant(queue[s])
  BY DEF HallsInv, Planned
<1> QED BY <1>1, <1>2, <1>3, <1>4, <1>5, <1>6, <1>7, <1>8

\* Who gives a place up leaves room for the one who moves up.
LEMMA NoMore ==
  ASSUME NEW S, IsFiniteSet(S), NEW p \in S, NEW x, NEW T \in SUBSET ((S \ {p}) \cup {x})
  PROVE  Cardinality(T) <= Cardinality(S)
<1>1. IsFiniteSet(S \ {p}) /\ Cardinality(S \ {p}) = Cardinality(S) - 1
  BY FS_RemoveElement
<1>2. IsFiniteSet((S \ {p}) \cup {x})
      /\ Cardinality((S \ {p}) \cup {x}) = IF x \in S \ {p} THEN Cardinality(S \ {p}) ELSE Cardinality(S \ {p}) + 1
  BY <1>1, FS_AddElement
<1>3. Cardinality(S) \in Nat /\ Cardinality(T) <= Cardinality((S \ {p}) \cup {x})
  BY <1>2, FS_Subset, FS_CardinalityType
<1>4. Cardinality(T) \in Nat
  BY <1>2, FS_Subset, FS_CardinalityType
<1> QED BY <1>1, <1>2, <1>3, <1>4

LEMMA RemovedLined ==
  ASSUME HallsInv, NEW s \in Slots, NEW p
  PROVE  /\ Removed(s, p) \in Queues /\ Lined(Removed(s, p)) /\ Outdone(queue[s], Removed(s, p))
         /\ Cardinality(Removed(s, p).confirmed) <= Cardinality(queue[s].confirmed)
         /\ Removed(s, p).confirmed \cup Removed(s, p).waiting \subseteq queue[s].confirmed \cup queue[s].waiting
<1> DEFINE w == Without(s, {p})
           q == queue[s]
<1>1. q \in Queues /\ Lined(q) /\ Confirmed(s) = q.confirmed /\ Waiting(s) = q.waiting
  BY SlotFacts
<1>2. /\ w \in Queues /\ Lined(w) /\ w.confirmed = q.confirmed \ {p} /\ w.waiting = q.waiting \ {p}
      /\ w.before \subseteq q.before /\ w.before = q.before \cap ((q.waiting \ {p}) \X (q.waiting \ {p}))
  BY <1>1, WithoutLined
<1>3. IsFiniteSet(q.confirmed)
  BY <1>1, HolderSets
<1> HIDE DEF w, q
<1>4. CASE p \in Confirmed(s)
  <2>1. Removed(s, p) = Promoted(w)
    BY <1>4 DEF Removed, w
  <2>2. /\ Promoted(w) \in Queues /\ Lined(Promoted(w)) /\ Outdone(w, Promoted(w))
        /\ Promoted(w).confirmed \cup Promoted(w).waiting = w.confirmed \cup w.waiting
    BY <1>2, PromotedLined
  <2>3. PICK x : Promoted(w).confirmed \subseteq w.confirmed \cup {x}
    BY <1>2, PromotedLined
  <2>4. Cardinality(Promoted(w).confirmed) <= Cardinality(q.confirmed)
    BY <1>1, <1>2, <1>3, <1>4, <2>3, NoMore
  <2>5. Outdone(q, Promoted(w))
    <3> DEFINE r == Promoted(w)
    <3>1. p \notin q.waiting
      BY <1>1, <1>4 DEF Lined
    <3>2. w.waiting = q.waiting /\ w.before = q.before
      BY <1>1, <1>2, <3>1 DEF Lined
    <3> QED BY <2>2, <3>2 DEF Outdone
  <2> QED BY <1>2, <2>1, <2>2, <2>4, <2>5 DEF q
<1>5. CASE p \notin Confirmed(s)
  <2>1. Removed(s, p) = w
    BY <1>5 DEF Removed, w
  <2>2. w.confirmed = q.confirmed
    BY <1>1, <1>2, <1>5
  <2>3. Outdone(q, w)
    BY <1>1, <2>2 DEF Outdone, Lined
  <2>4. Cardinality(q.confirmed) <= Cardinality(q.confirmed)
    BY <1>1, HolderSets
  <2> QED BY <1>2, <2>1, <2>2, <2>3, <2>4 DEF q
<1> QED BY <1>4, <1>5

LEMMA AddedLined ==
  ASSUME HallsInv, NEW s \in Slots, NEW p \in People, p \notin Holders(s)
  PROVE  /\ Added(s, p) \in Queues /\ Lined(Added(s, p)) /\ Outdone(queue[s], Added(s, p))
         /\ Cardinality(Added(s, p).confirmed) <= Room(s)
         /\ Added(s, p).confirmed \cup Added(s, p).waiting = queue[s].confirmed \cup queue[s].waiting \cup {p}
<1> DEFINE q == queue[s]
           r == Added(s, p)
<1>1. /\ q \in Queues /\ Lined(q) /\ Confirmed(s) = q.confirmed /\ Waiting(s) = q.waiting
      /\ p \notin q.confirmed /\ p \notin q.waiting
      /\ slot[s].cap \in Nat /\ grid[GridOf[s]].cap \in Nat
      /\ Cardinality(q.confirmed) \in Nat /\ Cardinality(q.confirmed) <= Room(s)
  BY SlotFacts
<1> HIDE DEF q, r
<1>2. CASE Full(s)
  <2>1. r = [q EXCEPT !.waiting = @ \cup {p}, !.before = @ \cup (q.waiting \X {p})]
    BY <1>1, <1>2 DEF Added, r, q
  <2>2. r.confirmed = q.confirmed /\ r.waiting = q.waiting \cup {p} /\ r.before = q.before \cup (q.waiting \X {p}) /\ r \in Queues
    BY <1>1, <2>1 DEF Queues
  <2>3. Lined(r)
    BY <1>1, <2>2 DEF Lined
  <2>4. Outdone(q, r)
    BY <1>1, <2>2 DEF Outdone, Lined
  <2> QED BY <1>1, <2>2, <2>3, <2>4 DEF r, q
<1>3. CASE ~Full(s)
  <2>1. r = [q EXCEPT !.confirmed = @ \cup {p}]
    BY <1>1, <1>3 DEF Added, r, q
  <2>2. r.confirmed = q.confirmed \cup {p} /\ r.waiting = q.waiting /\ r.before = q.before /\ r \in Queues
    BY <1>1, <2>1 DEF Queues
  <2>3. Lined(r)
    BY <1>1, <2>2 DEF Lined
  <2>4. Outdone(q, r)
    BY <1>1, <2>2 DEF Outdone, Lined
  <2>5. Cardinality(r.confirmed) = Cardinality(q.confirmed) + 1
    <3>1. IsFiniteSet(q.confirmed)
      BY <1>1, HolderSets
    <3> QED BY <1>1, <2>2, <3>1, FS_AddElement
  <2>6. Cardinality(q.confirmed) < slot[s].cap
    BY <1>1, <1>3 DEF Full
  <2>7. slot[s].cap <= Room(s) /\ Room(s) \in Nat
    BY <1>1, MaxOfTwo DEF Room
  <2>8. Cardinality(r.confirmed) <= Room(s)
    BY <1>1, <2>5, <2>6, <2>7
  <2> QED BY <1>1, <2>2, <2>3, <2>4, <2>8 DEF r, q
<1> QED BY <1>2, <1>3

-----------------------------------------------------------------------------
(* What each write of the server does to every date.                       *)
-----------------------------------------------------------------------------
\* grid and slot keep their types and every date is sound
Rows == grid' \in [Grids -> GridRows] /\ slot' \in [Slots -> SlotRows]
Stands == /\ Rows /\ queue' \in [Slots -> Queues]
          /\ \A s \in Slots : Sound(s, queue'[s])

LEMMA CommittedRows ==
  ASSUME HallsInv, NEW g \in Grids, NEW new \in GridRows, Committed(g, new)
  PROVE  /\ grid' \in [Grids -> GridRows]
         /\ \A h \in Grids \ {g} : grid'[h] = grid[h]
         /\ grid'[g].members = new.members /\ grid'[g].cap = new.cap /\ grid'[g].rev # 0
<1> DEFINE n == [new EXCEPT !.rev = grid[g].rev + 1]
<1>1. grid[g] \in GridRows
  BY DEF HallsInv, HallsTyped
<1>2. grid[g].rev \in Nat
  BY <1>1 DEF GridRows
<1>3. n \in GridRows /\ n.members = new.members /\ n.cap = new.cap
  BY <1>2 DEF GridRows
<1>5. n.rev # 0
  BY <1>2 DEF GridRows
<1> HIDE DEF n
<1>4. grid' = [grid EXCEPT ![g] = n]
  BY DEF Committed, n
<1> QED BY <1>3, <1>4, <1>5 DEF HallsInv, HallsTyped

LEMMA SameRoom ==
  ASSUME HallsInv, NEW s \in Slots, slot'[s] = slot[s], grid'[GridOf[s]].cap = grid[GridOf[s]].cap
  PROVE  Room(s)' = Room(s)
BY DEF Room

\* A date whose queue is left alone, and whose room and members do not shrink.
LEMMA Untouched ==
  ASSUME HallsInv, NEW s \in Slots, slot'[s] = slot[s], grid'[GridOf[s]].cap = grid[GridOf[s]].cap,
         slot[s].when > 0 => queue[s].confirmed \cup queue[s].waiting \subseteq grid'[GridOf[s]].members,
         grid'[GridOf[s]].rev = 0 => grid[GridOf[s]].rev = 0
  PROVE  Sound(s, queue[s])
<1>1. /\ queue[s] \in Queues /\ Lined(queue[s]) /\ Cardinality(queue[s].confirmed) <= Room(s)
      /\ grid'[GridOf[s]].rev = 0 => Vacant(queue[s])
  BY SlotFacts
<1>2. Outdone(queue[s], queue[s])
  BY <1>1 DEF Outdone, Lined
<1> QED BY <1>1, <1>2, SameRoom DEF Sound

\* setBooking
LEMMA SetBookingStands ==
  ASSUME HallsInv, NEW p \in People, NEW s \in Slots, NEW selected \in BOOLEAN, NEW by,
         Bookable(by, p, s, selected), SetBooking(p, s, selected)
  PROVE  Stands
<1> DEFINE g == GridOf[s]
<1>1. slot' = slot /\ p \in grid[g].members
  BY DEF SetBooking, Bookable, Editable
<1>2. g \in Grids /\ grid[g] \in GridRows
  BY SlotFacts
<1>3. CASE selected = (p \in Holders(s))
  <2>1. UNCHANGED <<grid, queue>>
    BY <1>3 DEF SetBooking
  <2>2. \A t \in Slots : Sound(t, queue'[t])
    BY <1>1, <2>1, Untouched, SlotFacts
  <2> QED BY <1>1, <2>1, <2>2 DEF Stands, Rows, HallsInv, HallsTyped
<1>4. CASE selected # (p \in Holders(s))
  <2> DEFINE r == IF selected THEN Added(s, p) ELSE Removed(s, p)
  <2>1. queue' = [queue EXCEPT ![s] = r] /\ Committed(g, grid[g])
    BY <1>4 DEF SetBooking
  <2>2. grid' \in [Grids -> GridRows] /\ \A h \in Grids : grid'[h].members = grid[h].members /\ grid'[h].cap = grid[h].cap
    BY <1>2, <2>1, CommittedRows
  <2>7. grid'[g].rev # 0 /\ \A h \in Grids : grid'[h].rev = 0 => grid[h].rev = 0
    BY <1>2, <2>1, CommittedRows
  <2>3. /\ r \in Queues /\ Lined(r) /\ Outdone(queue[s], r) /\ Cardinality(r.confirmed) <= Room(s)
        /\ slot[s].when > 0 => r.confirmed \cup r.waiting \subseteq grid[g].members
    <3>1. CASE selected
      <4>1. p \notin Holders(s)
        BY <1>4, <3>1
      <4>2. /\ r \in Queues /\ Lined(r) /\ Outdone(queue[s], r) /\ Cardinality(r.confirmed) <= Room(s)
            /\ r.confirmed \cup r.waiting = queue[s].confirmed \cup queue[s].waiting \cup {p}
        BY <3>1, <4>1, AddedLined
      <4> QED BY <1>1, <4>2, SlotFacts
    <3>2. CASE ~selected
      <4>1. /\ r \in Queues /\ Lined(r) /\ Outdone(queue[s], r)
            /\ Cardinality(r.confirmed) <= Cardinality(queue[s].confirmed)
            /\ r.confirmed \cup r.waiting \subseteq queue[s].confirmed \cup queue[s].waiting
        BY <3>2, RemovedLined
      <4>2. Cardinality(r.confirmed) \in Nat
        BY <4>1, HolderSets
      <4>3. Room(s) \in Nat
        BY SlotFacts, MaxOfTwo DEF Room
      <4>4. Cardinality(r.confirmed) <= Room(s)
        BY <4>1, <4>2, <4>3, SlotFacts
      <4> QED BY <4>1, <4>4, SlotFacts
    <3> QED BY <3>1, <3>2
  <2> HIDE DEF r
  <2>4. queue' \in [Slots -> Queues] /\ queue'[s] = r /\ \A t \in Slots \ {s} : queue'[t] = queue[t]
    BY <2>1, <2>3 DEF HallsInv, HallsTyped
  <2>5. Sound(s, queue'[s])
    <3>1. Room(s)' = Room(s)
      BY <1>1, <1>2, <2>2, SameRoom
    <3> QED BY <1>1, <1>2, <2>2, <2>3, <2>4, <2>7, <3>1 DEF Sound
  <2>6. ASSUME NEW t \in Slots \ {s} PROVE Sound(t, queue'[t])
    <3>1. GridOf[t] \in Grids
      BY SlotFacts
    <3> QED BY <1>1, <2>2, <2>4, <2>7, <3>1, Untouched, SlotFacts
  <2> QED BY <1>1, <2>2, <2>4, <2>5, <2>6 DEF Stands, Rows, HallsInv, HallsTyped
<1> QED BY <1>3, <1>4

LEMMA BookStands == ASSUME HallsInv, Book PROVE Stands
<1>1. PICK p \in People, s \in Slots, selected \in BOOLEAN :
        /\ Bookable(p, p, s, selected) \/ Bookable(Admin, p, s, selected)
        /\ SetBooking(p, s, selected)
  BY DEF Book
<1> QED BY <1>1, SetBookingStands

LEMMA JoinStands == ASSUME HallsInv, Join PROVE Stands
<1>1. PICK p \in People, g \in Grids, selected \in BOOLEAN : SetMembership(p, g, selected)
  BY DEF Join
<1> DEFINE new == [grid[g] EXCEPT !.members = IF selected THEN @ \cup {p} ELSE @ \ {p}]
<1>2. slot' = slot /\ queue' = queue /\ Committed(g, new) /\ (selected \/ ~Booked(g, p)) /\ Locked(g, Revision)
  BY <1>1 DEF Join, SetMembership
<1>3. grid[g] \in GridRows
  BY DEF HallsInv, HallsTyped
<1>4. new \in GridRows /\ new.cap = grid[g].cap /\ new.members = IF selected THEN grid[g].members \cup {p} ELSE grid[g].members \ {p}
  BY <1>3 DEF GridRows
<1> HIDE DEF new
<1>5. /\ grid' \in [Grids -> GridRows] /\ \A h \in Grids \ {g} : grid'[h] = grid[h]
      /\ grid'[g].members = new.members /\ grid'[g].cap = new.cap /\ grid'[g].rev # 0
  BY <1>2, <1>4, CommittedRows
<1>6. ASSUME NEW s \in Slots PROVE Sound(s, queue'[s])
  <2>1. GridOf[s] \in Grids
    BY SlotFacts
  <2>2. CASE GridOf[s] # g
    BY <1>2, <1>5, <2>1, <2>2, Untouched, SlotFacts
  <2>3. CASE GridOf[s] = g
    <3>1. ASSUME slot[s].when > 0 PROVE queue[s].confirmed \cup queue[s].waiting \subseteq new.members
      <4>1. queue[s].confirmed \cup queue[s].waiting \subseteq grid[g].members
        BY <2>3, <3>1, SlotFacts
      <4>2. ~selected => p \notin queue[s].confirmed \cup queue[s].waiting
        BY <1>2, <2>3, <3>1, SlotFacts DEF Booked, SlotsOf
      <4> QED BY <1>4, <4>1, <4>2
    <3> QED BY <1>2, <1>4, <1>5, <2>3, <3>1, Untouched
  <2> QED BY <2>2, <2>3
<1> QED BY <1>2, <1>5, <1>6 DEF Stands, Rows, HallsInv, HallsTyped

LEMMA NothingSound ==
  ASSUME HallsInv, NEW s \in Slots, Rows
  PROVE  Sound(s, NoEntries)
<1>1. NoEntries \in Queues /\ NoEntries.confirmed = {} /\ NoEntries.waiting = {} /\ NoEntries.before = {}
  BY DEF NoEntries, Queues
<1>2. Lined(NoEntries) /\ Outdone(queue[s], NoEntries) /\ Vacant(NoEntries)
  BY <1>1 DEF Lined, Outdone, Vacant
<1>3. slot'[s].cap \in Nat /\ grid'[GridOf[s]].cap \in Nat
  BY HallsAssumption DEF Rows, SlotRows, GridRows
<1>4. Room(s)' \in Nat
  BY <1>3, MaxOfTwo DEF Room
<1>5. Cardinality(NoEntries.confirmed) <= Room(s)'
  BY <1>1, <1>4, FS_EmptySet
<1> QED BY <1>1, <1>2, <1>5 DEF Sound

\* What the administrator's form can hold
Forms == [mode : {"equal", "fair"}, active : BOOLEAN, cap : Nat, wait : Nat, members : SUBSET People,
          keep : SUBSET Slots, back : SUBSET Slots]
LEMMA FormTyped == ASSUME HallsInv, NEW g \in Grids, NEW form \in Form(g) PROVE form \in Forms
<1> DEFINE old == FormNow(g)
<1>1. grid[g] \in GridRows
  BY DEF HallsInv, HallsTyped
<1>2. old \in Forms
  BY <1>1 DEF GridRows, Forms, SlotsOf, FormNow
<1>3. 1..MaxCapacity \subseteq Nat /\ 0..1 \subseteq Nat /\ SlotsOf(g) \subseteq Slots
  BY HallsAssumption DEF SlotsOf
<1> HIDE DEF old
<1>4. ASSUME NEW people \in SUBSET People PROVE [old EXCEPT !.members = people] \in Forms
  BY <1>2 DEF Forms
<1>5. ASSUME NEW x \in {"equal", "fair"} \X BOOLEAN \X (1..MaxCapacity) \X (0..1)
      PROVE  [old EXCEPT !.mode = x[1], !.active = x[2], !.cap = x[3], !.wait = x[4]] \in Forms
  <2>1. x[1] \in {"equal", "fair"} /\ x[2] \in BOOLEAN /\ x[3] \in Nat /\ x[4] \in Nat
    BY <1>3
  <2> QED BY <1>2, <2>1 DEF Forms
<1>6. ASSUME NEW x \in (SUBSET SlotsOf(g)) \X (SUBSET SlotsOf(g))
      PROVE  [old EXCEPT !.keep = x[1], !.back = x[2]] \in Forms
  <2>1. x[1] \in SUBSET SlotsOf(g) /\ x[2] \in SUBSET SlotsOf(g)
    OBVIOUS
  <2>2. x[1] \in SUBSET Slots /\ x[2] \in SUBSET Slots
    BY <1>3, <2>1
  <2> QED BY <1>2, <2>2 DEF Forms
<1> QED BY <1>4, <1>5, <1>6, Zenon DEF Form, old

LEMMA SlotAfterTyped ==
  ASSUME HallsInv, NEW s \in Slots, NEW form \in Forms
  PROVE  SlotAfter(s, form) \in SlotRows
<1>1. slot[s] \in SlotRows
  BY SlotFacts
<1>2. [on |-> TRUE, cap |-> form.cap, when |-> IF s \in form.back THEN 4 ELSE slot[s].when] \in SlotRows
  BY <1>1 DEF SlotRows, Forms, Times
<1>3. [slot[s] EXCEPT !.on = FALSE] \in SlotRows
  BY <1>1 DEF SlotRows
<1> QED BY <1>1, <1>2, <1>3 DEF SlotAfter

\* saveGrid
LEMMA SavedStands ==
  ASSUME HallsInv, NEW g \in Grids, NEW form \in Form(g), Suits(g, form) \/ grid[g].rev = 0, Saved(g, form)
  PROVE  Stands
<1> DEFINE new == [grid[g] EXCEPT !.cap = form.cap, !.wait = form.wait, !.members = form.members,
                                  !.mode = form.mode, !.active = form.active, !.constraints = {c \in @ : slot'[c.slot].on}]
<1>0. form \in Forms
  BY FormTyped
<1>1. /\ slot' = [s \in Slots |-> IF GridOf[s] = g THEN SlotAfter(s, form) ELSE slot[s]]
      /\ queue' = [s \in Slots |-> IF GridOf[s] = g THEN QueueAfter(s, form) ELSE queue[s]]
      /\ Committed(g, new)
  BY DEF Saved
<1>2. grid[g] \in GridRows
  BY DEF HallsInv, HallsTyped
<1>3. new \in GridRows /\ new.members = form.members /\ new.cap = form.cap /\ form.cap \in Nat /\ form.members \in SUBSET People
  BY <1>0, <1>2 DEF GridRows, Forms
<1> HIDE DEF new
<1>4. /\ grid' \in [Grids -> GridRows] /\ \A h \in Grids \ {g} : grid'[h] = grid[h]
      /\ grid'[g].members = form.members /\ grid'[g].cap = form.cap /\ grid'[g].rev # 0
  BY <1>1, <1>3, CommittedRows
<1>5. slot' \in [Slots -> SlotRows]
  BY <1>0, <1>1, SlotAfterTyped DEF HallsInv, HallsTyped
<1>6. Rows
  BY <1>4, <1>5 DEF Rows
<1>7. ASSUME NEW s \in Slots PROVE Sound(s, queue'[s])
  <2>1. GridOf[s] \in Grids
    BY SlotFacts
  <2>2. CASE GridOf[s] # g
    <3>1. slot'[s] = slot[s] /\ queue'[s] = queue[s] /\ grid'[GridOf[s]] = grid[GridOf[s]]
      BY <1>1, <1>4, <2>1, <2>2
    <3> QED BY <3>1, Untouched, SlotFacts
  <2>3. CASE GridOf[s] = g
    <3> DEFINE after == SlotAfter(s, form)
               q == queue[s]
    <3>1. slot'[s] = after /\ queue'[s] = QueueAfter(s, form) /\ after \in SlotRows
      BY <1>0, <1>1, <2>3, SlotAfterTyped
    <3>2. /\ q \in Queues /\ Lined(q) /\ Confirmed(s) = q.confirmed /\ Waiting(s) = q.waiting
          /\ q.confirmed \in SUBSET People /\ q.waiting \in SUBSET People /\ IsFiniteSet(q.confirmed)
          /\ Cardinality(q.confirmed) \in Nat
      BY SlotFacts, HolderSets
    <3>3. Cardinality(q.confirmed) <= form.cap
      <4>1. CASE Suits(g, form)
        BY <2>3, <3>2, <4>1 DEF Suits, SlotsOf
      <4>2. CASE grid[g].rev = 0
        <5>1. q.confirmed = {}
          BY <2>3, <4>2, SlotFacts DEF Vacant
        <5> QED BY <1>3, <5>1, FS_EmptySet
      <4> QED BY <4>1, <4>2
    <3>4. form.cap <= Room(s)' /\ Room(s)' \in Nat
      <4>1. after.cap \in Nat
        BY <3>1 DEF SlotRows
      <4>2. Room(s)' = Max({after.cap, form.cap})
        BY <1>4, <2>3, <3>1 DEF Room
      <4> QED BY <1>3, <4>1, <4>2, MaxOfTwo
    <3> HIDE DEF after, q
    <3>5. CASE ~after.on
      <4>1. queue'[s] = NoEntries
        BY <3>1, <3>5 DEF QueueAfter, after
      <4> QED BY <1>6, <4>1, NothingSound
    <3>6. CASE after.on /\ after.when > 0
      <4> DEFINE w == Without(s, People \ form.members)
      <4>1. queue'[s] = w
        BY <3>1, <3>6 DEF QueueAfter, after
      <4>2. /\ w \in Queues /\ Lined(w) /\ w.confirmed = q.confirmed \ (People \ form.members)
            /\ w.waiting = q.waiting \ (People \ form.members)
        BY <3>2, WithoutLined DEF q
      <4> HIDE DEF w
      <4>3. Cardinality(w.confirmed) <= Cardinality(q.confirmed) /\ Cardinality(w.confirmed) \in Nat
        BY <3>2, <4>2, FS_Subset, HolderSets
      <4>4. Cardinality(w.confirmed) <= Room(s)'
        BY <1>3, <3>2, <3>3, <3>4, <4>3
      <4>5. Outdone(q, w)
        BY <3>2, <4>2 DEF Outdone, Lined
      <4>6. w.confirmed \cup w.waiting \subseteq form.members
        BY <3>2, <4>2
      <4> QED BY <1>4, <2>3, <4>1, <4>2, <4>4, <4>5, <4>6 DEF Sound, q
    <3>7. CASE after.on /\ ~(after.when > 0)
      <4>1. queue'[s] = q
        BY <3>1, <3>7 DEF QueueAfter, after, q
      <4>2. Cardinality(q.confirmed) <= Room(s)'
        BY <1>3, <3>2, <3>3, <3>4
      <4>3. Outdone(q, q)
        BY <3>2 DEF Outdone, Lined
      <4> QED BY <1>4, <2>3, <3>1, <3>2, <3>7, <4>1, <4>2, <4>3 DEF Sound, q
    <3> QED BY <3>5, <3>6, <3>7
  <2> QED BY <2>2, <2>3
<1>8. queue' \in [Slots -> Queues]
  BY <1>1, <1>7 DEF Sound
<1> QED BY <1>6, <1>7, <1>8 DEF Stands

LEMMA SaveConstraintsStands == ASSUME HallsInv, NEW g \in Grids, SaveConstraints(g) PROVE Stands
<1>1. PICK new \in SUBSET [who : grid[g].members, slot : SlotsOf(g)] :
        /\ Committed(g, [grid[g] EXCEPT !.constraints = new]) /\ UNCHANGED <<slot, queue>>
  BY DEF SaveConstraints
<1> DEFINE row == [grid[g] EXCEPT !.constraints = new]
<1>2. grid[g] \in GridRows
  BY DEF HallsInv, HallsTyped
<1>3. new \in SUBSET [who : People, slot : Slots]
  <2>1. grid[g].members \subseteq People /\ SlotsOf(g) \subseteq Slots
    BY <1>2 DEF GridRows, SlotsOf
  <2> QED BY <2>1
<1>4. row \in GridRows /\ row.members = grid[g].members /\ row.cap = grid[g].cap
  BY <1>2, <1>3 DEF GridRows
<1> HIDE DEF row
<1>5. /\ grid' \in [Grids -> GridRows] /\ \A h \in Grids \ {g} : grid'[h] = grid[h]
      /\ grid'[g].members = row.members /\ grid'[g].cap = row.cap /\ grid'[g].rev # 0
  BY <1>1, <1>4, CommittedRows DEF row
<1>6. \A s \in Slots : Sound(s, queue'[s])
  <2> TAKE s \in Slots
  <2>1. GridOf[s] \in Grids
    BY SlotFacts
  <2>2. /\ grid'[GridOf[s]].members = grid[GridOf[s]].members /\ grid'[GridOf[s]].cap = grid[GridOf[s]].cap
        /\ grid'[GridOf[s]].rev = 0 => grid[GridOf[s]].rev = 0
    BY <1>4, <1>5, <2>1
  <2> QED BY <1>1, <2>2, Untouched, SlotFacts
<1> QED BY <1>1, <1>5, <1>6 DEF Stands, Rows, HallsInv, HallsTyped

LEMMA ClearAllStands == ASSUME HallsInv, NEW g \in Grids, ClearAll(g) PROVE Stands
<1>1. /\ slot' = slot /\ queue' = [s \in Slots |-> IF GridOf[s] = g THEN NoEntries ELSE queue[s]]
      /\ Committed(g, grid[g])
  BY DEF ClearAll
<1>2. grid[g] \in GridRows
  BY DEF HallsInv, HallsTyped
<1>3. /\ grid' \in [Grids -> GridRows] /\ \A h \in Grids \ {g} : grid'[h] = grid[h]
      /\ grid'[g].rev # 0
  BY <1>1, <1>2, CommittedRows
<1>4. Rows
  BY <1>1, <1>3 DEF Rows, HallsInv, HallsTyped
<1>5. ASSUME NEW s \in Slots PROVE Sound(s, queue'[s])
  <2>1. CASE GridOf[s] = g
    BY <1>1, <1>4, <2>1, NothingSound
  <2>2. CASE GridOf[s] # g
    <3>1. slot'[s] = slot[s] /\ queue'[s] = queue[s] /\ grid'[GridOf[s]] = grid[GridOf[s]]
      BY <1>1, <1>3, <2>2, SlotFacts
    <3> QED BY <3>1, Untouched, SlotFacts
  <2> QED BY <2>1, <2>2
<1>6. queue' \in [Slots -> Queues]
  BY <1>1, <1>5 DEF Sound
<1> QED BY <1>4, <1>5, <1>6 DEF Stands

-----------------------------------------------------------------------------
(* The distribution: there is a plan, and the one chosen is one of them.   *)
-----------------------------------------------------------------------------
LEMMA MinOfTwo == ASSUME NEW a \in Nat, NEW b \in Nat
                  PROVE /\ Min({a, b}) \in Nat /\ Min({a, b}) <= a /\ Min({a, b}) <= b
                        /\ Min({a, b}) = IF a <= b THEN a ELSE b
<1> DEFINE m == IF a <= b THEN a ELSE b
<1>1. m \in {a, b} /\ \A y \in {a, b} : m <= y
  OBVIOUS
<1>2. \A x \in {a, b} : (\A y \in {a, b} : x <= y) => x = m
  OBVIOUS
<1>3. Min({a, b}) = m
  <2> HIDE DEF m
  <2>1. Min({a, b}) = CHOOSE x \in {a, b} : \A y \in {a, b} : x <= y
    BY DEF Min
  <2> QED BY <1>1, <1>2, <2>1
<1> QED BY <1>1, <1>3

\* A set of natural numbers that is not empty has a least one.
LEMMA LeastNumber ==
  ASSUME NEW S \in SUBSET Nat, S # {}
  PROVE  \E x \in S : \A y \in S : x <= y
<1> DEFINE Below(n) == 0..(n - 1)
           T == {Below(n) : n \in S}
<1>1. T \subseteq FiniteSubsetsOf(Nat)
  <2>1. \A n \in Nat : Below(n) \in SUBSET Nat /\ IsFiniteSet(Below(n))
    BY FS_Interval
  <2> QED BY <2>1 DEF FiniteSubsetsOf
<1>2. T # {}
  OBVIOUS
<1>3. PICK t \in T : \A u \in T : <<u, t>> \notin StrictSubsetOrdering(Nat)
  <2> HIDE DEF T
  <2> QED BY <1>1, <1>2, WFMin, FS_StrictSubsetOrderingWellFounded
<1>4. PICK x \in S : t = Below(x)
  BY <1>3
<1>5. ASSUME NEW y \in S PROVE x <= y
  <2>1. SUFFICES ASSUME y < x PROVE FALSE
    OBVIOUS
  <2>2. y \in Below(x) /\ y \notin Below(y) /\ Below(y) \subseteq Below(x)
    BY <2>1
  <2>3. <<Below(y), Below(x)>> \in StrictSubsetOrdering(Nat)
    <3>1. Below(y) # Below(x) /\ Below(y) \subseteq Nat /\ Below(x) \subseteq Nat
      BY <2>2
    <3> QED BY <2>2, <3>1 DEF StrictSubsetOrdering
  <2> QED BY <1>3, <1>4, <2>3
<1> QED BY <1>5

LEMMA GreatestNumber ==
  ASSUME NEW k \in Nat, NEW S \in SUBSET (0..k), S # {}
  PROVE  \E x \in S : \A y \in S : x >= y
<1> DEFINE T == {k - x : x \in S}
<1>1. T \in SUBSET Nat /\ T # {}
  <2>1. \A x \in S : k - x \in Nat
    OBVIOUS
  <2> QED BY <2>1
<1>2. PICK t \in T : \A u \in T : t <= u
  <2> HIDE DEF T
  <2> QED BY <1>1, LeastNumber
<1>3. PICK x \in S : t = k - x
  BY <1>2
<1>4. ASSUME NEW y \in S PROVE x >= y
  <2>1. k - y \in T
    OBVIOUS
  <2>2. k - x <= k - y
    BY <1>2, <1>3, <2>1
  <2> QED BY <2>2
<1> QED BY <1>4

\* Of a finite set, every smaller number of elements can be taken.
LEMMA SomeOfSize ==
  ASSUME NEW S, IsFiniteSet(S), NEW n \in Nat, n <= Cardinality(S)
  PROVE  \E T \in SUBSET S : Cardinality(T) = n
<1>1. Cardinality(S) \in Nat /\ ExistsBijection(1..Cardinality(S), S)
  BY FS_CardinalityType
<1>2. PICK f \in Bijection(1..Cardinality(S), S) : TRUE
  BY <1>1 DEF ExistsBijection
<1>3. /\ f \in [1..Cardinality(S) -> S]
      /\ \A i, j \in 1..Cardinality(S) : f[i] = f[j] => i = j
  BY <1>2 DEF Bijection, Injection, Surjection, IsInjective
<1> DEFINE T == {f[i] : i \in 1..n}
           h == [i \in 1..n |-> f[i]]
<1>4. T \in SUBSET S
  BY <1>1, <1>3
<1>5. h \in Bijection(1..n, T)
  <2>1. \A i \in 1..n : i \in 1..Cardinality(S)
    BY <1>1
  <2> QED BY <1>3, <2>1 DEF Bijection, Injection, Surjection, IsInjective
<1>6. Cardinality(T) = n
  BY <1>5, FS_CountingElements DEF ExistsBijection
<1> QED BY <1>4, <1>6

LEMMA PlanSound ==
  ASSUME HallsInv, NEW g \in Grids
  PROVE  Plan(g) \in Plans(g)
<1>1. grid[g] \in GridRows /\ grid[g].members \in SUBSET People /\ grid[g].cap \in Nat
  BY DEF HallsInv, HallsTyped, GridRows
<1>2. ASSUME NEW s \in Future(g) PROVE Groups(g, s) # {}
  <2> DEFINE n == Min({grid[g].cap, Cardinality(Available(g, s))})
  <2>1. Available(g, s) \in SUBSET People
    BY <1>1 DEF Available
  <2>2. IsFiniteSet(Available(g, s)) /\ Cardinality(Available(g, s)) \in Nat
    BY <2>1, HallsAssumption, FS_Subset, FS_CardinalityType
  <2>3. n \in Nat /\ n <= Cardinality(Available(g, s))
    BY <1>1, <2>2, MinOfTwo
  <2> HIDE DEF n
  <2>4. PICK people \in SUBSET Available(g, s) : Cardinality(people) = n
    BY <2>2, <2>3, SomeOfSize
  <2> QED BY <2>4 DEF Groups, n
<1>3. ASSUME NEW s \in Future(g) PROVE Groups(g, s) \subseteq SUBSET People
  BY <1>1 DEF Groups, Available
<1>4. Plans(g) # {}
  <2> DEFINE plan == [s \in Future(g) |-> CHOOSE people \in Groups(g, s) : TRUE]
  <2>1. \A s \in Future(g) : plan[s] \in Groups(g, s)
    BY <1>2
  <2>2. plan \in [Future(g) -> SUBSET People]
    BY <1>3, <2>1
  <2> QED BY <2>1, <2>2 DEF Plans
<1>5. IsFiniteSet(Slots) /\ Cardinality(Slots) \in Nat
  BY HallsAssumption, FS_CardinalityType
<1>6. ASSUME NEW plan \in Plans(g), NEW p \in People
      PROVE  Uses(g, plan, p) \in 0..(2 * Cardinality(Slots))
  <2> DEFINE A == {s \in Future(g) : p \in plan[s]}
             B == {s \in SlotsOf(g) \ Future(g) : slot[s].on /\ p \in Confirmed(s)}
  <2>1. A \in SUBSET Slots /\ B \in SUBSET Slots
    BY DEF Future, SlotsOf
  <2> HIDE DEF A, B
  <2>2. /\ Cardinality(A) \in Nat /\ Cardinality(A) <= Cardinality(Slots)
        /\ Cardinality(B) \in Nat /\ Cardinality(B) <= Cardinality(Slots)
    BY <1>5, <2>1, FS_Subset, FS_CardinalityType
  <2>3. Uses(g, plan, p) = Cardinality(A) + Cardinality(B)
    BY DEF Uses, A, B
  <2> QED BY <1>5, <2>2, <2>3
<1>7. ASSUME NEW plan \in Plans(g) PROVE Spread(g, plan) \in Nat
  <2> DEFINE uses == {Uses(g, plan, p) : p \in grid[g].members}
  <2>1. uses \in SUBSET (0..(2 * Cardinality(Slots)))
    BY <1>1, <1>6
  <2>2. Spread(g, plan) = IF uses = {} THEN 0 ELSE Max(uses) - Min(uses)
    BY DEF Spread
  <2> HIDE DEF uses
  <2>3. CASE uses = {}
    BY <2>2, <2>3
  <2>4. CASE uses # {}
    <3>1. PICK x \in uses : \A y \in uses : x >= y
      <4>1. 2 * Cardinality(Slots) \in Nat
        BY <1>5
      <4> QED BY <2>1, <2>4, <4>1, GreatestNumber
    <3>2. uses \in SUBSET Nat
      BY <1>5, <2>1
    <3>3. PICK z \in uses : \A y \in uses : z <= y
      BY <2>4, <3>2, LeastNumber
    <3>4. Max(uses) \in uses /\ \A y \in uses : Max(uses) >= y
      BY <3>1 DEF Max
    <3>5. Min(uses) \in uses /\ \A y \in uses : Min(uses) <= y
      BY <3>3 DEF Min
    <3>6. Max(uses) \in Nat /\ Min(uses) \in Nat /\ Max(uses) >= Min(uses)
      BY <3>2, <3>4, <3>5
    <3>7. Max(uses) - Min(uses) \in Nat
      BY <3>6
    <3> QED BY <2>2, <2>4, <3>7
  <2> QED BY <2>3, <2>4
<1> DEFINE spreads == {Spread(g, plan) : plan \in Plans(g)}
<1>8. spreads \in SUBSET Nat /\ spreads # {}
  BY <1>4, <1>7
<1>9. Min(spreads) \in spreads
  <2> HIDE DEF spreads
  <2>1. \E x \in spreads : \A y \in spreads : x <= y
    BY <1>8, LeastNumber
  <2> QED BY <2>1 DEF Min
<1>10. PICK plan \in Plans(g) : Spread(g, plan) = Min(spreads)
  BY <1>9
<1> QED BY <1>10 DEF Plan

LEMMA DistributeStands == ASSUME HallsInv, NEW g \in Grids, Distribute(g) PROVE Stands
<1>1. /\ slot' = slot /\ Committed(g, grid[g]) /\ Complete(g)
      /\ queue' = [s \in Slots |-> IF s \in Future(g) THEN [NoEntries EXCEPT !.confirmed = Plan(g)[s]] ELSE queue[s]]
  BY DEF Distribute
<1>2. grid[g] \in GridRows
  BY DEF HallsInv, HallsTyped
<1>3. /\ grid' \in [Grids -> GridRows] /\ \A h \in Grids \ {g} : grid'[h] = grid[h]
      /\ grid'[g].members = grid[g].members /\ grid'[g].cap = grid[g].cap /\ grid'[g].rev # 0
  BY <1>1, <1>2, CommittedRows
<1>4. Rows
  BY <1>1, <1>3 DEF Rows, HallsInv, HallsTyped
<1>5. ASSUME NEW s \in Slots PROVE Sound(s, queue'[s])
  <2>1. GridOf[s] \in Grids
    BY SlotFacts
  <2>2. CASE s \notin Future(g)
    <3>1. /\ slot'[s] = slot[s] /\ queue'[s] = queue[s] /\ grid'[GridOf[s]].members = grid[GridOf[s]].members
          /\ grid'[GridOf[s]].cap = grid[GridOf[s]].cap
          /\ grid'[GridOf[s]].rev = 0 => grid[GridOf[s]].rev = 0
      BY <1>1, <1>3, <2>1, <2>2
    <3>2. slot[s].when > 0 => queue[s].confirmed \cup queue[s].waiting \subseteq grid'[GridOf[s]].members
      BY <3>1, SlotFacts
    <3>3. Sound(s, queue[s])
      BY <3>1, <3>2, Untouched
    <3> QED BY <3>1, <3>3
  <2>3. CASE s \in Future(g)
    <3> DEFINE group == Plan(g)[s]
               r == [NoEntries EXCEPT !.confirmed = group]
    <3>1. queue'[s] = r /\ GridOf[s] = g
      BY <1>1, <2>3 DEF Future, SlotsOf
    <3>2. group \in Groups(g, s) /\ group \in SUBSET People
      BY <2>3, PlanSound DEF Plans
    <3>3. group \subseteq grid[g].members
      BY <3>2 DEF Groups, Available
    <3>4. Cardinality(group) = grid[g].cap
      BY <1>1, <2>3 DEF Complete
    <3> HIDE DEF group
    <3>5. r \in Queues /\ r.confirmed = group /\ r.waiting = {} /\ r.before = {}
      BY <3>2 DEF NoEntries, Queues
    <3> HIDE DEF r
    <3>6. Lined(r) /\ Outdone(queue[s], r)
      BY <3>5 DEF Lined, Outdone
    <3>7. grid[g].cap <= Room(s)'
      <4>1. grid[g].cap \in Nat /\ slot[s].cap \in Nat
        BY <3>1, SlotFacts
      <4>2. Room(s)' = Max({slot[s].cap, grid[g].cap})
        BY <1>1, <1>3, <3>1 DEF Room
      <4> QED BY <4>1, <4>2, MaxOfTwo
    <3> QED BY <1>3, <3>1, <3>3, <3>4, <3>5, <3>6, <3>7 DEF Sound
  <2> QED BY <2>2, <2>3
<1>6. queue' \in [Slots -> Queues]
  BY <1>1, <1>5 DEF Sound
<1> QED BY <1>4, <1>5, <1>6 DEF Stands

-----------------------------------------------------------------------------
(* The clock, the worker, and the whole step.                              *)
-----------------------------------------------------------------------------
LEMMA TickStands == ASSUME HallsInv, Tick PROVE Stands
<1>1. PICK s \in Slots : slot[s].when > 0 /\ slot' = [slot EXCEPT ![s].when = @ - 1]
  BY DEF Tick
<1>2. grid' = grid /\ queue' = queue
  BY DEF Tick
<1> DEFINE row == [slot[s] EXCEPT !.when = @ - 1]
<1>3. slot[s] \in SlotRows
  BY SlotFacts
<1>4. row \in SlotRows /\ row.cap = slot[s].cap
  BY <1>1, <1>3 DEF SlotRows, Times
<1>5. slot' = [slot EXCEPT ![s] = row]
  BY <1>1
<1> HIDE DEF row
<1>6. slot' \in [Slots -> SlotRows] /\ slot'[s] = row /\ \A t \in Slots \ {s} : slot'[t] = slot[t]
  BY <1>4, <1>5 DEF HallsInv, HallsTyped
<1>7. ASSUME NEW t \in Slots PROVE Sound(t, queue'[t])
  <2>1. slot'[t].cap = slot[t].cap
    BY <1>4, <1>6
  <2>2. Room(t)' = Room(t)
    BY <1>2, <2>1 DEF Room
  <2>3. slot'[t].when > 0 => slot[t].when > 0
    BY <1>1, <1>6
  <2>4. Outdone(queue[t], queue[t])
    BY SlotFacts DEF Outdone, Lined
  <2> QED BY <1>2, <2>2, <2>3, <2>4, SlotFacts DEF Sound
<1> QED BY <1>2, <1>6, <1>7 DEF Stands, Rows, HallsInv, HallsTyped

LEMMA ExpireStands == ASSUME HallsInv, Expire PROVE Stands
<1> DEFINE touched(g) == \E s \in Expired : GridOf[s] = g
<1>1. /\ slot' = slot
      /\ queue' = [s \in Slots |-> IF s \in Expired THEN Without(s, Waiting(s)) ELSE queue[s]]
      /\ grid' = [g \in Grids |-> IF touched(g) THEN [grid[g] EXCEPT !.rev = @ + 1] ELSE grid[g]]
  BY DEF Expire
<1>2. ASSUME NEW g \in Grids
      PROVE  /\ grid'[g] \in GridRows /\ grid'[g].members = grid[g].members /\ grid'[g].cap = grid[g].cap
             /\ grid'[g].rev = 0 => grid[g].rev = 0
  <2>1. grid[g] \in GridRows
    BY DEF HallsInv, HallsTyped
  <2>2. CASE touched(g)
    <3>1. grid'[g] = [grid[g] EXCEPT !.rev = @ + 1]
      BY <1>1, <2>2
    <3>2. grid[g].rev \in Nat
      BY <2>1 DEF GridRows
    <3> HIDE DEF touched
    <3> QED BY <2>1, <3>1, <3>2 DEF GridRows
  <2>3. CASE ~touched(g)
    BY <1>1, <2>1, <2>3
  <2> QED BY <2>2, <2>3
<1> HIDE DEF touched
<1>3. Rows
  BY <1>1, <1>2 DEF Rows, HallsInv, HallsTyped
<1>4. ASSUME NEW s \in Slots PROVE Sound(s, queue'[s])
  <2>1. GridOf[s] \in Grids
    BY SlotFacts
  <2>2. /\ slot'[s] = slot[s] /\ grid'[GridOf[s]].members = grid[GridOf[s]].members
        /\ grid'[GridOf[s]].cap = grid[GridOf[s]].cap
        /\ grid'[GridOf[s]].rev = 0 => grid[GridOf[s]].rev = 0
    BY <1>1, <1>2, <2>1
  <2>3. CASE s \notin Expired
    <3>1. queue'[s] = queue[s]
      BY <1>1, <2>3
    <3> QED BY <2>2, <3>1, Untouched, SlotFacts
  <2>4. CASE s \in Expired
    <3> DEFINE w == Without(s, Waiting(s))
               q == queue[s]
    <3>1. /\ q \in Queues /\ Lined(q) /\ Confirmed(s) = q.confirmed /\ Waiting(s) = q.waiting
          /\ Cardinality(q.confirmed) <= Room(s)
          /\ slot[s].when > 0 => q.confirmed \cup q.waiting \subseteq grid[GridOf[s]].members
          /\ grid[GridOf[s]].rev = 0 => Vacant(q)
      BY SlotFacts
    <3>2. /\ w \in Queues /\ Lined(w) /\ w.confirmed = q.confirmed \ q.waiting /\ w.waiting = q.waiting \ q.waiting
      BY <3>1, WithoutLined
    <3>3. queue'[s] = w
      BY <1>1, <2>4
    <3> HIDE DEF w, q
    <3>4. w.confirmed = q.confirmed /\ w.waiting = {}
      BY <3>1, <3>2 DEF Lined
    <3>5. Outdone(q, w)
      BY <3>4 DEF Outdone
    <3>6. Vacant(q) => Vacant(w)
      BY <3>4 DEF Vacant
    <3>7. Room(s)' = Room(s)
      BY <2>2, SameRoom
    <3> QED BY <2>2, <3>1, <3>2, <3>3, <3>4, <3>5, <3>6, <3>7 DEF Sound, q
  <2> QED BY <2>3, <2>4
<1>5. queue' \in [Slots -> Queues]
  BY <1>1, <1>4 DEF Sound
<1> QED BY <1>3, <1>4, <1>5 DEF Stands

LEMMA AdministerStands == ASSUME HallsInv, Administer PROVE Stands
<1>1. PICK g \in Grids : \/ SaveGrid(g) \/ CreateGrid(g) \/ SaveConstraints(g) \/ ClearAll(g)
                         \/ Distribute(g) \/ ApplyPreview(g)
  BY DEF Administer
<1>2. CASE SaveGrid(g)
  <2>1. PICK form \in Form(g) : Suits(g, form) /\ Saved(g, form)
    BY <1>2 DEF SaveGrid
  <2> QED BY <2>1, SavedStands
<1>3. CASE CreateGrid(g)
  <2>1. PICK form \in Form(g) : grid[g].rev = 0 /\ Saved(g, form)
    BY <1>3 DEF CreateGrid
  <2> QED BY <2>1, SavedStands
<1>4. CASE ApplyPreview(g)
  <2>1. Distribute(g)
    BY <1>4 DEF ApplyPreview
  <2> QED BY <2>1, DistributeStands
<1> QED BY <1>1, <1>2, <1>3, <1>4, SaveConstraintsStands, ClearAllStands, DistributeStands

LEMMA RestStands == ASSUME HallsInv, UNCHANGED tables PROVE Stands
<1>1. grid' = grid /\ slot' = slot /\ queue' = queue
  BY DEF tables
<1>2. \A s \in Slots : Sound(s, queue'[s])
  BY <1>1, Untouched, SlotFacts
<1> QED BY <1>1, <1>2 DEF Stands, Rows, HallsInv, HallsTyped

\* What the player's page has sent
SentTyped == sent \in SUBSET [slot : Slots, selected : BOOLEAN]

LEMMA SentNext == SentTyped /\ [Next]_vars => SentTyped'
<1> SUFFICES ASSUME SentTyped, [Next]_vars PROVE SentTyped'
  OBVIOUS
<1>1. CASE Toggle
  <2>1. PICK s \in SlotsOf(Shown), selected \in BOOLEAN : sent' = {[slot |-> s, selected |-> selected]}
    BY <1>1 DEF Toggle
  <2>2. s \in Slots
    BY DEF SlotsOf
  <2> QED BY <2>1, <2>2 DEF SentTyped
<1>2. CASE Serve
  <2>1. sent' = {}
    BY <1>2 DEF Serve
  <2> QED BY <2>1 DEF SentTyped
<1>3. CASE ~Toggle /\ ~Serve
  <2>1. sent' = sent
    BY <1>3 DEF Next, Progress, Book, Join, Administer, ShowPreview, Tick, Expire, AdminReads, AdminShows, ReadAgain,
                ReadArrives, AnswerReads, AnswerArrives, playerPage, vars
  <2> QED BY <2>1 DEF SentTyped
<1> QED BY <1>1, <1>2, <1>3

LEMMA StepStands == ASSUME HallsInv, SentTyped, [Next]_vars PROVE Stands
<1>1. CASE UNCHANGED vars
  <2>1. UNCHANGED tables
    BY <1>1 DEF vars
  <2> QED BY <2>1, RestStands
<1>2. CASE Book
  BY <1>2, BookStands
<1>3. CASE Join
  BY <1>3, JoinStands
<1>4. CASE Administer
  BY <1>4, AdministerStands
<1>5. CASE ShowPreview \/ Toggle \/ AdminReads \/ AdminShows \/ ReadAgain \/ ReadArrives \/ AnswerReads \/ AnswerArrives
  <2>1. UNCHANGED tables
    BY <1>5 DEF ShowPreview, Toggle, AdminReads, AdminShows, ReadAgain, ReadArrives, AnswerReads, AnswerArrives
  <2> QED BY <2>1, RestStands
<1>6. CASE Serve
  <2>1. PICK m \in sent :
          \/ Bookable(Player, Player, m.slot, m.selected) /\ SetBooking(Player, m.slot, m.selected)
          \/ UNCHANGED tables
    BY <1>6 DEF Serve
  <2>2. CASE UNCHANGED tables
    BY <2>2, RestStands
  <2>3. CASE Bookable(Player, Player, m.slot, m.selected) /\ SetBooking(Player, m.slot, m.selected)
    <3>1. Player \in People /\ m.slot \in Slots /\ m.selected \in BOOLEAN
      BY <2>1, HallsAssumption DEF SentTyped
    <3> QED BY <2>3, <3>1, SetBookingStands
  <2> QED BY <2>1, <2>2, <2>3
<1>7. CASE Tick
  BY <1>7, TickStands
<1>8. CASE Expire
  BY <1>8, ExpireStands
<1> QED BY <1>1, <1>2, <1>3, <1>4, <1>5, <1>6, <1>7, <1>8 DEF Next, Progress

-----------------------------------------------------------------------------
(* The theorem.                                                            *)
-----------------------------------------------------------------------------
LEMMA HallsInit == Init => HallsInv /\ SentTyped
<1> SUFFICES ASSUME Init PROVE HallsInv /\ SentTyped
  OBVIOUS
<1>1. PICK scene \in Scenes : grid = scene.grid /\ slot = scene.slot /\ queue = scene.queue
  BY DEF Init
<1>2. HallsTyped /\ \A s \in Slots : Lined(queue[s]) /\ Fitting(queue[s], slot[s], grid[GridOf[s]])
  BY <1>1, ScenesAssumption DEF HallsTyped
<1>3. \A s \in Slots : Cardinality(Confirmed(s)) <= Max({slot[s].cap, grid[GridOf[s]].cap})
  BY <1>2 DEF Fitting, Confirmed
<1>4. PlacesKept
  BY <1>2, <1>3 DEF PlacesKept, CapacityKept, OnlyMembersHoldPlaces, Fitting, Holders, Confirmed, Waiting
<1>5. SentTyped
  BY DEF Init, SentTyped
<1> QED BY <1>2, <1>4, <1>5 DEF HallsInv, Planned, Fitting

LEMMA HallsNext == HallsInv /\ SentTyped /\ [Next]_vars => HallsInv'
<1> SUFFICES ASSUME HallsInv, SentTyped, [Next]_vars PROVE HallsInv'
  OBVIOUS
<1>1. Stands
  BY StepStands
<1>2. HallsTyped' /\ (\A s \in Slots : Lined(queue[s]))' /\ Planned'
  BY <1>1 DEF Stands, Rows, HallsTyped, Planned, Sound
<1>3. PlacesKept'
  BY <1>1 DEF Stands, Sound, PlacesKept, CapacityKept, OnlyMembersHoldPlaces, Holders, Confirmed, Waiting, Room
<1> QED BY <1>2, <1>3 DEF HallsInv

\* Under bookings, promotions, members who come and go, saves, distributions, the clock and the worker, in any
\* order and for any number of grids, dates and people: no date is overbooked, only members have entries on dates
\* to come, who moves up has waited longest, and an applied preview is the one that was shown
\* (setBooking, saveGrid, applyDistribution).
THEOREM PlacesAreKept == Spec => PlacesGivenAsPromised
<1>1. Spec => [](HallsInv /\ SentTyped)
  BY HallsInit, HallsNext, SentNext, PTL DEF Spec
<1>2. HallsInv => PlacesKept
  BY DEF HallsInv
<1> DEFINE InLine == \A s \in Slots : \A p, o \in Waiting(s) :
                <<p, o>> \in queue[s].before /\ o \in Confirmed(s)' => p \notin Waiting(s)'
           AsShown == \A g \in Grids : ApplyPreview(g) =>
                \A s \in SlotsOf(g) : slot[s].when > 0 /\ slot[s].on =>
                  s \in DOMAIN preview.plan /\ Confirmed(s)' = preview.plan[s]
<1>3. HallsInv /\ SentTyped /\ [Next]_vars => InLine
  BY StepStands DEF Stands, Sound, Outdone, Confirmed, Waiting
<1>4. HallsInv /\ [Next]_vars => AsShown
  <2> SUFFICES ASSUME HallsInv, NEW g \in Grids, ApplyPreview(g), NEW s \in SlotsOf(g), slot[s].when > 0, slot[s].on
               PROVE  s \in DOMAIN preview.plan /\ Confirmed(s)' = preview.plan[s]
    OBVIOUS
  <2>1. preview.plan = Plan(g) /\ Distribute(g)
    BY DEF ApplyPreview, SameHash
  <2>2. s \in Future(g) /\ s \in Slots
    BY DEF Future, SlotsOf
  <2>3. DOMAIN Plan(g) = Future(g)
    BY PlanSound DEF Plans
  <2>4. queue'[s] = [NoEntries EXCEPT !.confirmed = Plan(g)[s]]
    BY <2>1, <2>2 DEF Distribute
  <2>5. queue'[s].confirmed = Plan(g)[s]
    BY <2>4 DEF NoEntries
  <2> QED BY <2>1, <2>2, <2>3, <2>5 DEF Confirmed
<1> HIDE DEF InLine, AsShown
<1>5. Spec => []PlacesKept /\ [][InLine]_vars /\ [][AsShown]_vars
  BY <1>1, <1>2, <1>3, <1>4, PTL DEF Spec
<1> QED BY <1>5 DEF PlacesGivenAsPromised, NobodyOvertaken, AppliedAsShown, InLine, AsShown

-----------------------------------------------------------------------------
(***************************************************************************)
(* The scores.  How many sets a side has won: one set more adds at most    *)
(* one, and sets behind the counted ones do not matter.                    *)
(***************************************************************************)
WonBy(s, n, side, R) == {i \in 1..n : SetState(s, i, R) = "complete" /\ LeaderOf(s[i]) = side}

LEMMA WonByFinite ==
  ASSUME NEW s, NEW n \in Nat, NEW side, NEW R
  PROVE  IsFiniteSet(WonBy(s, n, side, R)) /\ WonSets(s, n, side, R) = Cardinality(WonBy(s, n, side, R))
         /\ WonSets(s, n, side, R) \in Nat
<1>1. IsFiniteSet(1..n)
  BY FS_Interval
<1>2. WonBy(s, n, side, R) \in SUBSET (1..n)
  BY DEF WonBy
<1>3. IsFiniteSet(WonBy(s, n, side, R))
  BY <1>1, <1>2, FS_Subset
<1>4. WonSets(s, n, side, R) = Cardinality(WonBy(s, n, side, R))
  BY DEF WonSets, WonBy
<1> QED
  BY <1>3, <1>4, FS_CardinalityType

LEMMA WonNone ==
  ASSUME NEW s, NEW side, NEW R
  PROVE  WonSets(s, 0, side, R) = 0
<1>1. WonBy(s, 0, side, R) = {}
  BY DEF WonBy
<1> QED
  BY <1>1, FS_EmptySet DEF WonSets, WonBy

LEMMA WonOneMore ==
  ASSUME NEW s, NEW n \in Nat, NEW side, NEW R
  PROVE  WonSets(s, n + 1, side, R) =
           IF SetState(s, n + 1, R) = "complete" /\ LeaderOf(s[n + 1]) = side
             THEN WonSets(s, n, side, R) + 1 ELSE WonSets(s, n, side, R)
<1>1. CASE SetState(s, n + 1, R) = "complete" /\ LeaderOf(s[n + 1]) = side
  <2>1. WonBy(s, n + 1, side, R) = WonBy(s, n, side, R) \cup {n + 1}
    BY <1>1 DEF WonBy
  <2>2. n + 1 \notin WonBy(s, n, side, R)
    BY DEF WonBy
  <2>3. Cardinality(WonBy(s, n, side, R) \cup {n + 1}) = Cardinality(WonBy(s, n, side, R)) + 1
    BY <2>2, WonByFinite, FS_AddElement
  <2>4. WonSets(s, n, side, R) = Cardinality(WonBy(s, n, side, R))
    BY WonByFinite
  <2>5. WonSets(s, n + 1, side, R) = Cardinality(WonBy(s, n + 1, side, R))
    BY WonByFinite, n + 1 \in Nat
  <2> QED
    BY <1>1, <2>1, <2>3, <2>4, <2>5
<1>2. CASE ~(SetState(s, n + 1, R) = "complete" /\ LeaderOf(s[n + 1]) = side)
  <2>1. WonBy(s, n + 1, side, R) = WonBy(s, n, side, R)
    BY <1>2 DEF WonBy
  <2> QED
    BY <1>2, <2>1, WonByFinite, n + 1 \in Nat
<1> QED
  BY <1>1, <1>2

LEMMA WonSame ==
  ASSUME NEW s, NEW t, NEW n \in Nat, NEW side, NEW R, \A i \in 1..n : s[i] = t[i]
  PROVE  WonSets(s, n, side, R) = WonSets(t, n, side, R)
<1>1. WonBy(s, n, side, R) = WonBy(t, n, side, R)
  BY DEF WonBy, SetState
<1> QED
  BY <1>1, WonByFinite

LEMMA WonGrows ==
  ASSUME NEW s, NEW n \in Nat, NEW m \in 0..n, NEW side, NEW R
  PROVE  WonSets(s, m, side, R) <= WonSets(s, n, side, R)
<1>1. m \in Nat
  OBVIOUS
<1>2. WonBy(s, m, side, R) \in SUBSET WonBy(s, n, side, R)
  BY DEF WonBy
<1> QED
  BY <1>1, <1>2, WonByFinite, FS_Subset

(***************************************************************************)
(* A set that is open: the code calls it partial, or it is a match         *)
(* tie-break that is level late.                                           *)
(***************************************************************************)
OpenSet(s, i, R) ==
  \/ SetState(s, i, R) = "partial"
  \/ /\ IsMatchTiebreak(i, R) /\ s[i].tb = NoTiebreak
     /\ LeaderOf(s[i]) = 0 /\ s[i].side1 >= R.decidingSet

\* What has not begun is open.
LEMMA BegunOpen ==
  ASSUME NEW s, NEW i \in Nat, NEW R \in RuleTypes, s[i] = Set(0, 0, NoTiebreak)
  PROVE  SetState(s, i, R) = "partial"
<1>1. CASE IsMatchTiebreak(i, R)
  BY <1>1 DEF RuleTypes, SetState, MatchTiebreakState, LeaderOf, High, Low, NoTiebreak, IsMatchTiebreak, Set, FullSet
<1>2. CASE ~IsMatchTiebreak(i, R)
  BY <1>2 DEF RuleTypes, SetState, NormalSetState, High, Low, NoTiebreak, TiebreakAt, Set
<1> QED
  BY <1>1, <1>2

\* The next game of an open set completes it or leaves it open.
LEMMA NextGame ==
  ASSUME NEW s, NEW t, NEW i \in Nat, NEW R \in RuleTypes, R = rules, NEW side \in {1, 2},
         s[i] \in SetTypes, OpenSet(s, i, R), ~AtTiebreak(s[i], i), t[i] = Plus(s[i], side)
  PROVE  IF Ends(t[i], i) THEN SetState(t, i, R) = "complete" /\ LeaderOf(t[i]) = side
         ELSE OpenSet(t, i, R)
<1>1. CASE IsMatchTiebreak(i, R)
  BY <1>1 DEF RuleTypes, SetTypes, SetState, MatchTiebreakState, LeaderOf, High, Low, NoTiebreak,
       IsMatchTiebreak, FullSet, OpenSet, AtTiebreak, Ends, Plus
<1>2. CASE ~IsMatchTiebreak(i, R)
  BY <1>2 DEF RuleTypes, SetTypes, SetState, NormalSetState, LeaderOf, High, Low, NoTiebreak,
       TiebreakAt, OpenSet, AtTiebreak, Ends, Plus
<1> QED
  BY <1>1, <1>2

LEMMA TiebreakWon ==
  ASSUME NEW s, NEW t, NEW i \in Nat, NEW R \in RuleTypes, R = rules, NEW side \in {1, 2}, NEW tb \in Nat,
         s[i] \in SetTypes, AtTiebreak(s[i], i), t[i] = [Plus(s[i], side) EXCEPT !.tb = tb]
  PROVE  SetState(t, i, R) = "complete" /\ LeaderOf(t[i]) = side
BY DEF RuleTypes, SetTypes, SetState, NormalSetState, LeaderOf, High, Low, NoTiebreak,
       TiebreakAt, AtTiebreak, Plus

-----------------------------------------------------------------------------
(***************************************************************************)
(* The strengthening.  Scores have their type; in a match that is played   *)
(* every set but a running one is complete, the winner of each is counted, *)
(* and nobody had won before the last set.                                 *)
(***************************************************************************)
ScoreTypes == format \in Formats /\ sets \in Seq(SetTypes) /\ won \in [{1, 2} -> Nat] /\ running \in BOOLEAN

Finished == IF running THEN Len(sets) - 1 ELSE Len(sets)

Regular ==
  /\ running => sets # <<>> /\ OpenSet(sets, Len(sets), rules)
  /\ running => won[1] < rules.winningSets /\ won[2] < rules.winningSets
  /\ won[1] + won[2] = Finished
  /\ won[1] <= rules.winningSets /\ won[2] <= rules.winningSets
  /\ won[1] < rules.winningSets \/ won[2] < rules.winningSets
  /\ \A i \in 1..Finished : SetState(sets, i, rules) = "complete"
  /\ \A side \in {1, 2} : won[side] = WonSets(sets, Finished, side, rules)
  /\ \A side \in {1, 2} : \A i \in 1..(Len(sets) - 1) : WonSets(sets, i, side, rules) < rules.winningSets

ScoreInv == ScoreTypes /\ (Playing => Regular)

LEMMA FormatFacts ==
  ASSUME format \in Formats
  PROVE  /\ rules \in RuleTypes /\ rules.winningSets \in Nat \ {0} /\ format.typed \in Nat
         /\ format.start \in Seq(SetTypes) /\ format.points \subseteq Nat
         /\ Playing => format.start = <<>>
<1>1. format \in [rules : RuleTypes, typed : Nat, start : Seq(SetTypes), points : SUBSET Nat]
  BY FormatsAssumption
<1>2. rules \in RuleTypes
  BY <1>1 DEF rules
<1> QED
  BY <1>1, <1>2, FormatsAssumption DEF Playing, RuleTypes

LEMMA ScoreStarts == ScoreInit => ScoreInv
<1> SUFFICES ASSUME ScoreInit PROVE ScoreInv
  OBVIOUS
<1>1. ScoreTypes
  <2>1. 1..2 = {1, 2} /\ <<0, 0>> \in [1..2 -> Nat]
    OBVIOUS
  <2> QED
    BY <2>1, FormatFacts DEF ScoreInit, ScoreTypes
<1>2. ASSUME Playing PROVE Regular
  <2>1. sets = <<>> /\ ~running /\ won = <<0, 0>> /\ Len(sets) = 0 /\ Finished = 0
    BY <1>2, FormatFacts DEF ScoreInit, Finished
  <2>2. rules.winningSets \in Nat \ {0}
    BY FormatFacts DEF ScoreInit
  <2>3. \A side \in {1, 2} : won[side] = WonSets(sets, Finished, side, rules)
    BY <2>1, WonNone
  <2> QED
    BY <2>1, <2>2, <2>3 DEF Regular
<1> QED
  BY <1>1, <1>2 DEF ScoreInv

LEMMA TypeStep ==
  ASSUME ScoreInv, Type
  PROVE  ScoreInv'
<1>1. PICK a \in 0..MaxPoints, b \in 0..MaxPoints, tb \in format.points \cup {NoTiebreak} :
        sets' = Append(sets, Set(a, b, tb))
  BY DEF Type
<1>2. Set(a, b, tb) \in SetTypes
  BY <1>1, FormatFacts, MaxPointsAssumption DEF ScoreInv, ScoreTypes, Set, SetTypes
<1>3. sets' \in Seq(SetTypes)
  BY <1>1, <1>2 DEF ScoreInv, ScoreTypes
<1>4. ScoreTypes'
  BY <1>3 DEF ScoreInv, ScoreTypes, Type
<1>5. ~Playing'
  <2>1. Len(sets) \in Nat
    BY DEF ScoreInv, ScoreTypes
  <2>2. format.typed # 0
    BY <2>1 DEF Type
  <2> QED
    BY <2>2 DEF Type, Playing
<1> QED
  BY <1>4, <1>5 DEF ScoreInv

LEMMA PointStep ==
  ASSUME ScoreInv, NEW side \in {1, 2}, Point(side)
  PROVE  ScoreInv'
<1> DEFINE n == Len(sets)
           index == IF running THEN n ELSE n + 1
           before == IF running THEN LastSet ELSE Set(0, 0, NoTiebreak)
           tiebreak == AtTiebreak(before, index)
           plain == Plus(before, side)
           ends == tiebreak \/ Ends(plain, index)
           front == IF running THEN SubSeq(sets, 1, index - 1) ELSE sets
<1>1. PICK tb \in IF tiebreak THEN format.points ELSE {NoTiebreak} :
        sets' = Append(front, [plain EXCEPT !.tb = tb])
  BY DEF Point
<1>2. Playing /\ ~Over /\ running' = ~ends /\ format' = format /\ rules' = rules
      /\ won' = IF ends THEN [won EXCEPT ![side] = @ + 1] ELSE won
  BY DEF Point, rules
<1>3. Regular /\ ScoreTypes
  BY <1>2 DEF ScoreInv
<1>4. n \in Nat /\ (running => n \in Nat \ {0})
  <2>1. n \in Nat
    BY <1>3 DEF ScoreTypes
  <2>2. running => sets # <<>>
    BY <1>3 DEF Regular
  <2> QED
    BY <2>1, <2>2, <1>3 DEF ScoreTypes
<1>5. index \in Nat \ {0} /\ Finished \in Nat /\ index = Finished + 1
  BY <1>4, <1>3 DEF Finished, ScoreTypes
<1>6. before \in SetTypes
  <2>1. CASE running
    <3>1. sets[n] \in SetTypes
      BY <2>1, <1>4, <1>3 DEF ScoreTypes
    <3> QED
      BY <2>1, <3>1 DEF LastSet
  <2>2. CASE ~running
    BY <2>2 DEF Set, SetTypes
  <2> QED
    BY <2>1, <2>2
<1>7. front \in Seq(SetTypes) /\ Len(front) = Finished /\ \A i \in 1..Finished : front[i] = sets[i]
  <2>1. CASE running
    <3>1. front = SubSeq(sets, 1, n - 1) /\ Finished = n - 1
      BY <2>1 DEF Finished
    <3>2. n - 1 \in 0..Len(sets) /\ sets \in Seq(SetTypes)
      BY <2>1, <1>4, <1>3 DEF ScoreTypes
    <3> QED
      BY <3>1, <3>2
  <2>2. CASE ~running
    BY <2>2, <1>3 DEF Finished, ScoreTypes
  <2> QED
    BY <2>1, <2>2
<1>8. tb \in Nat \cup {NoTiebreak} /\ (tiebreak => tb \in Nat) /\ (~tiebreak => tb = NoTiebreak)
  BY <1>3, FormatFacts DEF ScoreTypes
<1>9. plain \in SetTypes /\ plain.tb = before.tb
  BY <1>6 DEF Plus, SetTypes
<1>10. [plain EXCEPT !.tb = tb] \in SetTypes
  BY <1>8, <1>9 DEF SetTypes
<1> HIDE DEF n, before, tiebreak, plain, ends, front
<1>11. sets' \in Seq(SetTypes) /\ Len(sets') = index /\ sets'[index] = [plain EXCEPT !.tb = tb]
       /\ \A i \in 1..Finished : sets'[i] = sets[i]
  BY <1>1, <1>5, <1>7, <1>10
<1>12. won' \in [{1, 2} -> Nat]
  BY <1>2, <1>3 DEF ScoreTypes
<1>13. running' \in BOOLEAN
  BY <1>2
<1>14. ScoreTypes'
  BY <1>2, <1>3, <1>11, <1>12, <1>13 DEF ScoreTypes
<1>15. rules \in RuleTypes /\ rules.winningSets \in Nat \ {0}
  BY <1>3, FormatFacts DEF ScoreTypes
<1>16. index \in Nat /\ index = Finished + 1
  BY <1>5
<1> DEFINE s == [i \in {index} |-> before]
<1>17. s[index] = before
  OBVIOUS
<1> HIDE DEF s
<1>18. OpenSet(s, index, rules)
  <2>1. CASE running
    <3>1. OpenSet(sets, index, rules) /\ sets[index] = before
      BY <2>1, <1>3 DEF Regular, before, LastSet, n
    <3> QED
      BY <3>1, <1>17 DEF OpenSet, SetState
  <2>2. CASE ~running
    <3>1. before = Set(0, 0, NoTiebreak)
      BY <2>2 DEF before
    <3>2. SetState(s, index, rules) = "partial"
      BY <3>1, <1>15, <1>16, <1>17, BegunOpen
    <3> QED
      BY <3>2 DEF OpenSet
  <2> QED
    BY <2>1, <2>2
<1>19. IF ends THEN SetState(sets', index, rules) = "complete" /\ LeaderOf(sets'[index]) = side
       ELSE OpenSet(sets', index, rules)
  <2>1. CASE tiebreak
    <3>1. SetState(sets', index, rules) = "complete" /\ LeaderOf(sets'[index]) = side
      <4>1. sets'[index] = [Plus(s[index], side) EXCEPT !.tb = tb]
        BY <1>11, <1>17 DEF plain
      <4>2. AtTiebreak(s[index], index) /\ s[index] \in SetTypes /\ tb \in Nat
        BY <2>1, <1>6, <1>8, <1>17 DEF tiebreak
      <4> QED
        BY <4>1, <4>2, <1>15, <1>16, TiebreakWon
    <3> QED
      BY <2>1, <3>1 DEF ends
  <2>2. CASE ~tiebreak
    <3>1. tb = NoTiebreak /\ before.tb = NoTiebreak
      <4>1. before.tb = NoTiebreak
        BY <1>6, <1>15, <1>17, <1>18 DEF OpenSet, SetState, NormalSetState, MatchTiebreakState, SetTypes,
           RuleTypes, IsMatchTiebreak, FullSet, NoTiebreak
      <4> QED
        BY <4>1, <2>2, <1>8
    <3>2. [plain EXCEPT !.tb = tb] = plain
      BY <3>1, <1>9 DEF SetTypes
    <3>3. sets'[index] = Plus(s[index], side)
      BY <3>2, <1>11, <1>17 DEF plain
    <3>4. s[index] \in SetTypes /\ ~AtTiebreak(s[index], index)
      BY <2>2, <1>6, <1>17 DEF tiebreak
    <3>5. IF Ends(sets'[index], index)
            THEN SetState(sets', index, rules) = "complete" /\ LeaderOf(sets'[index]) = side
            ELSE OpenSet(sets', index, rules)
      BY <3>3, <3>4, <1>15, <1>16, <1>18, NextGame
    <3>6. ends <=> Ends(sets'[index], index)
      BY <2>2, <3>2, <1>11 DEF ends
    <3> QED
      BY <3>5, <3>6
  <2> QED
    BY <2>1, <2>2
<1>20. \A i \in 1..Finished : SetState(sets', i, rules) = "complete"
  BY <1>3, <1>11 DEF Regular, SetState
<1>21. \A sd \in {1, 2} : \A m \in 0..Finished : WonSets(sets', m, sd, rules) = WonSets(sets, m, sd, rules)
  BY <1>5, <1>11, WonSame
<1>22. \A sd \in {1, 2} : WonSets(sets', Finished, sd, rules) = won[sd] /\ won[sd] < rules.winningSets
  <2>1. \A sd \in {1, 2} : won[sd] # rules.winningSets
    BY <1>2 DEF Over
  <2> QED
    BY <2>1, <1>3, <1>5, <1>15, <1>21 DEF Regular, ScoreTypes
<1>23. \A sd \in {1, 2} : \A i \in 1..(index - 1) : WonSets(sets', i, sd, rules) < rules.winningSets
  <2> SUFFICES ASSUME NEW sd \in {1, 2}, NEW i \in 1..Finished PROVE WonSets(sets', i, sd, rules) < rules.winningSets
    BY <1>5
  <2>1. WonSets(sets', i, sd, rules) <= WonSets(sets', Finished, sd, rules)
    BY <1>5, WonGrows
  <2>2. WonSets(sets', i, sd, rules) \in Nat /\ WonSets(sets', Finished, sd, rules) \in Nat
    BY <1>5, WonByFinite, i \in Nat
  <2> QED
    BY <2>1, <2>2, <1>15, <1>22
<1>24. CASE ends
  <2>1. ~running' /\ Finished' = index
    BY <1>24, <1>2, <1>11 DEF Finished
  <2>2. \A sd \in {1, 2} : WonSets(sets', index, sd, rules) = IF sd = side THEN won[sd] + 1 ELSE won[sd]
    <3>1. \A sd \in {1, 2} : WonSets(sets', Finished + 1, sd, rules) =
              IF SetState(sets', Finished + 1, rules) = "complete" /\ LeaderOf(sets'[Finished + 1]) = sd
                THEN WonSets(sets', Finished, sd, rules) + 1 ELSE WonSets(sets', Finished, sd, rules)
      BY <1>5, WonOneMore
    <3> QED
      BY <3>1, <1>5, <1>19, <1>22, <1>24
  <2>3. \A sd \in {1, 2} : won'[sd] = IF sd = side THEN won[sd] + 1 ELSE won[sd]
    BY <1>2, <1>3, <1>24 DEF ScoreTypes
  <2>4. won[1] \in Nat /\ won[2] \in Nat /\ won[1] + won[2] = Finished
    BY <1>3 DEF ScoreTypes, Regular
  <2>5. won'[1] + won'[2] = index
    <3>1. side = 1 \/ side = 2
      OBVIOUS
    <3> QED
      BY <3>1, <2>3, <2>4, <1>5
  <2>6. /\ won'[1] <= rules.winningSets /\ won'[2] <= rules.winningSets
        /\ won'[1] < rules.winningSets \/ won'[2] < rules.winningSets
    <3>1. side = 1 \/ side = 2
      OBVIOUS
    <3>2. won[1] < rules.winningSets /\ won[2] < rules.winningSets
      BY <1>22
    <3>3. won'[1] = (IF side = 1 THEN won[1] + 1 ELSE won[1]) /\ won'[2] = (IF side = 2 THEN won[2] + 1 ELSE won[2])
      BY <2>3
    <3> QED
      BY <3>1, <3>2, <3>3, <2>4, <1>15
  <2>7. \A i \in 1..index : SetState(sets', i, rules) = "complete"
    BY <1>5, <1>19, <1>20, <1>24
  <2>8. \A sd \in {1, 2} : won'[sd] = WonSets(sets', Finished', sd, rules)
    BY <2>1, <2>2, <2>3
  <2>9. Regular'
    BY <2>1, <2>5, <2>6, <2>7, <2>8, <1>2, <1>11, <1>23 DEF Regular
  <2> QED
    BY <2>9, <1>14 DEF ScoreInv
<1>25. CASE ~ends
  <2>1. running' /\ Finished' = Finished /\ won' = won
    <3>1. running' /\ won' = won
      BY <1>25, <1>2
    <3>2. Finished' = Len(sets') - 1
      BY <3>1 DEF Finished
    <3> QED
      BY <3>1, <3>2, <1>5, <1>11
  <2>2. sets' # <<>>
    BY <1>5, <1>11
  <2>3. OpenSet(sets', Len(sets'), rules')
    BY <1>25, <1>2, <1>11, <1>19
  <2>4. \A sd \in {1, 2} : won'[sd] = WonSets(sets', Finished', sd, rules)
    BY <2>1, <1>22
  <2>5. won[1] + won[2] = Finished /\ won[1] < rules.winningSets /\ won[2] < rules.winningSets
        /\ won[1] <= rules.winningSets /\ won[2] <= rules.winningSets
    BY <1>3, <1>22 DEF Regular
  <2>6. Regular'
    BY <2>1, <2>2, <2>3, <2>4, <2>5, <1>2, <1>11, <1>20, <1>23 DEF Regular
  <2> QED
    BY <2>6, <1>14 DEF ScoreInv
<1> QED
  BY <1>24, <1>25

LEMMA ScoreStep ==
  ASSUME ScoreInv, [ScoreNext]_scoreVars
  PROVE  ScoreInv'
<1>1. CASE Type
  BY <1>1, TypeStep
<1>2. ASSUME NEW side \in {1, 2}, Point(side) PROVE ScoreInv'
  BY <1>2, PointStep
<1>3. CASE UNCHANGED scoreVars
  BY <1>3 DEF scoreVars, ScoreInv, ScoreTypes, Playing, Regular, Finished, rules
<1> QED
  BY <1>1, <1>2, <1>3 DEF ScoreNext

-----------------------------------------------------------------------------
(* The first part: what is played is accepted for what it is.              *)

LEMMA WinnersAre ==
  ASSUME ScoreInv, Playing, sets # <<>>
  PROVE  MatchWonBy(sets, Len(sets), rules) = {side \in {1, 2} : won[side] = rules.winningSets}
<1>1. Len(sets) \in Nat \ {0} /\ Regular /\ rules.winningSets \in Nat
  BY FormatFacts DEF ScoreInv, ScoreTypes
<1>2. ASSUME NEW side \in {1, 2} PROVE WonSets(sets, Len(sets), side, rules) = won[side]
  <2>1. CASE ~running
    BY <2>1, <1>1 DEF Regular, Finished
  <2>2. CASE running
    <3>1. Finished = Len(sets) - 1 /\ Finished \in Nat
      BY <2>2, <1>1 DEF Finished
    <3>2. SetState(sets, Len(sets), rules) # "complete"
      BY <2>2, <1>1, FormatFacts DEF Regular, OpenSet, SetState, MatchTiebreakState, ScoreInv, ScoreTypes
    <3>3. WonSets(sets, Finished + 1, side, rules) = WonSets(sets, Finished, side, rules)
      BY <3>1, <3>2, WonOneMore
    <3> QED
      BY <3>1, <3>3, <1>1 DEF Regular
  <2> QED
    BY <2>1, <2>2
<1>3. \A side \in {1, 2} : won[side] \in Nat /\ won[side] <= rules.winningSets
  BY <1>1 DEF ScoreInv, ScoreTypes, Regular
<1> QED
  BY <1>1, <1>2, <1>3 DEF MatchWonBy

LEMMA PlayedFits ==
  ASSUME ScoreInv, Playing, sets # <<>>, NEW kind,
         running => kind = "retirement" /\ ~LevelLate(LastSet, Len(sets))
  PROVE  SetsFit(kind, sets, rules)
<1>1. Len(sets) \in Nat \ {0} /\ Regular /\ rules.winningSets \in Nat \ {0}
  BY FormatFacts DEF ScoreInv, ScoreTypes
<1>2. won[1] \in Nat /\ won[2] \in Nat
  BY DEF ScoreInv, ScoreTypes
<1>3. Len(sets) <= MaxSets(rules)
  <2>1. won[1] + won[2] = Finished
    BY <1>1 DEF Regular
  <2>2. won[1] <= rules.winningSets /\ won[2] <= rules.winningSets
        /\ (won[1] < rules.winningSets \/ won[2] < rules.winningSets)
    BY <1>1 DEF Regular
  <2>3. running => won[1] < rules.winningSets /\ won[2] < rules.winningSets
    BY <1>1 DEF Regular
  <2>4. Finished <= rules.winningSets * 2 - 1 /\ (running => Finished <= rules.winningSets * 2 - 2)
    BY <2>1, <2>2, <2>3, <1>1, <1>2
  <2> QED
    BY <2>4, <1>1 DEF MaxSets, Finished
<1>4. ASSUME NEW i \in DOMAIN sets
      PROVE \/ SetState(sets, i, rules) = "complete"
            \/ SetState(sets, i, rules) = "partial" /\ kind = "retirement" /\ i = Len(sets)
  <2>1. i \in 1..Len(sets)
    BY DEF ScoreInv, ScoreTypes
  <2>2. CASE i \in 1..Finished
    BY <2>2, <1>1 DEF Regular
  <2>3. CASE i \notin 1..Finished
    <3>1. running /\ i = Len(sets)
      BY <2>1, <2>3, <1>1 DEF Finished
    <3>2. SetState(sets, i, rules) = "partial"
      BY <3>1, <1>1 DEF Regular, OpenSet, LevelLate, LastSet
    <3> QED
      BY <3>1, <3>2
  <2> QED
    BY <2>2, <2>3
<1>5. ASSUME NEW i \in DOMAIN sets, i < Len(sets) PROVE MatchWonBy(sets, i, rules) = {}
  <2>1. i \in 1..(Len(sets) - 1) /\ i \in Nat
    BY <1>5, <1>1 DEF ScoreInv, ScoreTypes
  <2>2. \A side \in {1, 2} : WonSets(sets, i, side, rules) < rules.winningSets /\ WonSets(sets, i, side, rules) \in Nat
    BY <2>1, <1>1, WonByFinite DEF Regular
  <2> QED
    BY <2>2, <1>1 DEF MatchWonBy
<1> QED
  BY <1>3, <1>4, <1>5 DEF SetsFit

LEMMA PlayedAccepted ==
  ASSUME ScoreInv
  PROVE  PlayedScoresAccepted
<1> SUFFICES ASSUME Playing, sets # <<>>
             PROVE IF Over
      THEN /\ Verdict("regular", 0) = Accepted(CHOOSE side \in {1, 2} : won[side] = rules.winningSets)
           /\ \A side \in {1, 2} : ~Verdict("retirement", side).valid
      ELSE /\ ~Verdict("regular", 0).valid
           /\ \A side \in {1, 2} : LevelLate(LastSet, Len(sets))
                                   \/ Verdict("retirement", side) = Accepted(3 - side)
  BY DEF PlayedScoresAccepted
<1> DEFINE winners == {side \in {1, 2} : won[side] = rules.winningSets}
<1>1. MatchWonBy(sets, Len(sets), rules) = winners
  BY WinnersAre
<1>2. Over <=> winners # {}
  BY DEF Over
<1>3. CASE Over
  <2>1. PICK w \in {1, 2} : won[w] = rules.winningSets
    BY <1>3 DEF Over
  <2>2. won[1] \in Nat /\ won[2] \in Nat /\ rules.winningSets \in Nat
    BY FormatFacts DEF ScoreInv, ScoreTypes
  <2>3. ~running /\ \A side \in {1, 2} : won[side] = rules.winningSets => side = w
    BY <2>1, <2>2 DEF ScoreInv, Regular
  <2>4. winners = {w}
    BY <2>1, <2>3
  <2>5. (CHOOSE side \in winners : TRUE) = w /\ (CHOOSE side \in {1, 2} : won[side] = rules.winningSets) = w
    BY <2>1, <2>3, <2>4
  <2>6. SetsFit("regular", sets, rules)
    BY <2>3, PlayedFits
  <2> HIDE DEF winners
  <2>7. Verdict("regular", 0) = Accepted(w)
    BY <1>1, <2>4, <2>5, <2>6 DEF Verdict, ValidateCompletion
  <2>8. ASSUME NEW side \in {1, 2} PROVE ~Verdict("retirement", side).valid
    BY <1>1, <2>4 DEF Verdict, ValidateCompletion, Rejected
  <2> QED
    BY <1>3, <2>5, <2>7, <2>8
<1>4. CASE ~Over
  <2> HIDE DEF winners
  <2>1. ~Verdict("regular", 0).valid
    BY <1>1, <1>2, <1>4 DEF Verdict, ValidateCompletion, Rejected
  <2>2. ASSUME NEW side \in {1, 2}, ~LevelLate(LastSet, Len(sets))
        PROVE  Verdict("retirement", side) = Accepted(3 - side)
    <3>1. SetsFit("retirement", sets, rules)
      BY <2>2, PlayedFits
    <3> QED
      BY <1>1, <1>2, <1>4, <3>1 DEF Verdict, ValidateCompletion
  <2> QED
    BY <1>4, <2>1, <2>2
<1> QED
  BY <1>3, <1>4

-----------------------------------------------------------------------------
(* The second part: only what can be played is accepted.                   *)

Games(set, side) == IF side = 1 THEN set.side1 ELSE set.side2

LEMMA MinusIs ==
  ASSUME NEW set \in SetTypes, NEW side \in {1, 2}
  PROVE  Minus(set, side) = IF side = 1 THEN Set(set.side1 - 1, set.side2, NoTiebreak)
                            ELSE Set(set.side1, set.side2 - 1, NoTiebreak)
BY DEF SetTypes, Minus, Set

\* A game can be taken back from every accepted set that has begun, but for a
\* match tie-break that is level late.
LEMMA TakenBack ==
  ASSUME NEW s, NEW i \in Nat, NEW R \in RuleTypes, s[i] \in SetTypes,
         SetState(s, i, R) \in {"complete", "partial"}, High(s[i]) # 0,
         ~(IsMatchTiebreak(i, R) /\ Low(s[i]) >= R.decidingSet)
  PROVE  \E side \in {1, 2} :
           /\ Games(s[i], side) > 0
           /\ \A t : t[i] = Minus(s[i], side) => SetState(t, i, R) = "partial"
<1> DEFINE set == s[i]
           side == IF LeaderOf(set) = 0 THEN 1 ELSE LeaderOf(set)
<1>1. side \in {1, 2} /\ set.side1 \in Nat /\ set.side2 \in Nat /\ Games(set, side) = High(set)
  BY DEF SetTypes, LeaderOf, Games, High
<1>2. Games(set, side) > 0
  BY <1>1 DEF SetTypes, High
<1>3. ASSUME NEW t, t[i] = Minus(set, side) PROVE SetState(t, i, R) = "partial"
  <2>1. t[i] = IF side = 1 THEN Set(set.side1 - 1, set.side2, NoTiebreak)
               ELSE Set(set.side1, set.side2 - 1, NoTiebreak)
    BY <1>1, <1>3, MinusIs
  <2>2. CASE IsMatchTiebreak(i, R)
    BY <2>1, <2>2, <1>1, <1>2 DEF SetState, MatchTiebreakState, LeaderOf, High, Low, Set, SetTypes, RuleTypes,
         NoTiebreak, FullSet, Games
  <2>3. CASE ~IsMatchTiebreak(i, R)
    BY <2>1, <2>3, <1>1, <1>2 DEF SetState, NormalSetState, LeaderOf, High, Low, Set, SetTypes, RuleTypes,
         NoTiebreak, TiebreakAt, Games
  <2> QED
    BY <2>2, <2>3
<1> HIDE DEF side
<1> QED
  BY <1>1, <1>2, <1>3

LEMMA OnlyPlayed ==
  ASSUME ScoreTypes
  PROVE  OnlyPlayedScoresAccepted
<1> SUFFICES ASSUME sets # <<>>, AcceptedSomehow, High(LastSet) # 0,
                    ~(IsMatchTiebreak(Len(sets), rules) /\ Low(LastSet) >= rules.decidingSet)
             PROVE  \E side \in {1, 2} :
         /\ (IF side = 1 THEN LastSet.side1 ELSE LastSet.side2) > 0
         /\ ValidateCompletion([kind |-> "retirement", losingSide |-> 1,
                                sets |-> Append(Front(sets), Minus(LastSet, side))], rules).valid
  BY DEF OnlyPlayedScoresAccepted
<1> DEFINE n == Len(sets)
<1>1. n \in Nat \ {0} /\ sets \in Seq(SetTypes) /\ DOMAIN sets = 1..n /\ LastSet \in SetTypes
      /\ rules \in RuleTypes /\ rules.winningSets \in Nat \ {0}
  BY FormatFacts DEF ScoreTypes, LastSet
<1>2. PICK kind \in {"regular", "retirement"} : SetsFit(kind, sets, rules)
  BY DEF AcceptedSomehow, Verdict, ValidateCompletion, Rejected
<1>3. SetState(sets, n, rules) \in {"complete", "partial"}
  BY <1>1, <1>2 DEF SetsFit
<1>4. PICK side \in {1, 2} : /\ Games(LastSet, side) > 0
                             /\ \A t : t[n] = Minus(LastSet, side) => SetState(t, n, rules) = "partial"
  BY <1>1, <1>3, TakenBack DEF LastSet
<1> DEFINE t == Append(Front(sets), Minus(LastSet, side))
<1>5. Minus(LastSet, side) \in SetTypes
  <2>1. Minus(LastSet, side) = IF side = 1 THEN Set(LastSet.side1 - 1, LastSet.side2, NoTiebreak)
               ELSE Set(LastSet.side1, LastSet.side2 - 1, NoTiebreak)
    BY <1>1, MinusIs
  <2> QED
    BY <2>1, <1>1, <1>4 DEF Set, SetTypes, Games
<1>6. Front(sets) \in Seq(SetTypes) /\ Len(Front(sets)) = n - 1 /\ \A i \in 1..(n - 1) : Front(sets)[i] = sets[i]
  <2>1. n - 1 \in 0..Len(sets)
    BY <1>1
  <2> QED
    BY <2>1, <1>1 DEF Front
<1>7. t \in Seq(SetTypes) /\ Len(t) = n /\ DOMAIN t = 1..n /\ t[n] = Minus(LastSet, side)
      /\ \A i \in 1..(n - 1) : t[i] = sets[i]
  <2> HIDE DEF n
  <2>1. t \in Seq(SetTypes) /\ Len(t) = (n - 1) + 1 /\ t[(n - 1) + 1] = Minus(LastSet, side)
    BY <1>1, <1>5, <1>6
  <2>2. \A i \in 1..(n - 1) : t[i] = Front(sets)[i]
    BY <1>1, <1>5, <1>6
  <2>3. (n - 1) + 1 = n
    BY <1>1
  <2>4. t \in Seq(SetTypes) /\ Len(t) = n /\ t[n] = Minus(LastSet, side)
    BY <2>1, <2>3
  <2> HIDE DEF t
  <2>5. DOMAIN t = 1..n
    BY <2>4
  <2> QED
    BY <2>2, <2>4, <2>5, <1>6
<1> HIDE DEF t, n
<1>8. SetState(t, n, rules) = "partial"
  BY <1>4, <1>7
<1>9. \A i \in 1..(n - 1) : SetState(t, i, rules) = "complete"
  <2> SUFFICES ASSUME NEW i \in 1..(n - 1) PROVE SetState(t, i, rules) = "complete"
    OBVIOUS
  <2>1. i \in 1..n /\ i # n
    BY <1>1
  <2>2. SetState(sets, i, rules) = "complete"
    BY <2>1, <1>1, <1>2 DEF SetsFit, n
  <2> QED
    BY <2>2, <1>7 DEF SetState
<1>10. \A side2 \in {1, 2}, m \in 0..(n - 1) : WonSets(t, m, side2, rules) < rules.winningSets
  <2> SUFFICES ASSUME NEW side2 \in {1, 2}, NEW m \in 0..(n - 1) PROVE WonSets(t, m, side2, rules) < rules.winningSets
    OBVIOUS
  <2>1. CASE m = 0
    BY <2>1, <1>1, WonNone
  <2>2. CASE m # 0
    <3>1. m \in DOMAIN sets /\ m < Len(sets) /\ m \in Nat
      BY <2>2, <1>1 DEF n
    <3>2. MatchWonBy(sets, m, rules) = {}
      BY <3>1, <1>2 DEF SetsFit
    <3>3. WonSets(t, m, side2, rules) = WonSets(sets, m, side2, rules)
      BY <3>1, <1>7, WonSame, m \in Nat, \A i \in 1..m : i \in 1..(n - 1)
    <3>4. ~(WonSets(sets, m, side2, rules) >= rules.winningSets)
      BY <3>2 DEF MatchWonBy
    <3>5. WonSets(sets, m, side2, rules) \in Nat
      BY <3>1, WonByFinite
    <3> QED
      BY <3>3, <3>4, <3>5, <1>1
  <2> QED
    BY <2>1, <2>2
<1>11. MatchWonBy(t, n, rules) = {}
  <2>1. ASSUME NEW side2 \in {1, 2} PROVE ~(WonSets(t, n, side2, rules) >= rules.winningSets)
    <3>2. WonSets(t, n - 1, side2, rules) < rules.winningSets /\ n - 1 \in Nat /\ (n - 1) + 1 = n
      BY <1>1, <1>10
    <3>1. WonSets(t, (n - 1) + 1, side2, rules) = WonSets(t, n - 1, side2, rules)
      BY <3>2, <1>8, WonOneMore
    <3>3. WonSets(t, n - 1, side2, rules) \in Nat
      BY <3>2, WonByFinite
    <3> QED
      BY <3>1, <3>2, <3>3, <1>1
  <2> QED
    BY <2>1 DEF MatchWonBy
<1>12. SetsFit("retirement", t, rules)
  <2>1. Len(t) <= MaxSets(rules)
    BY <1>2, <1>7 DEF SetsFit, n
  <2>2. ASSUME NEW i \in DOMAIN t
        PROVE  SetState(t, i, rules) = "complete" \/ (SetState(t, i, rules) = "partial" /\ i = Len(t))
    <3>1. i \in 1..(n - 1) \/ i = n
      BY <1>1, <1>7
    <3> QED
      BY <3>1, <1>7, <1>8, <1>9
  <2>3. ASSUME NEW i \in DOMAIN t, i < Len(t) PROVE MatchWonBy(t, i, rules) = {}
    <3>1. i \in 0..(n - 1) /\ i \in Nat
      BY <2>3, <1>1, <1>7
    <3>2. \A side2 \in {1, 2} : WonSets(t, i, side2, rules) < rules.winningSets /\ WonSets(t, i, side2, rules) \in Nat
      BY <3>1, <1>10, WonByFinite
    <3> QED
      BY <3>2, <1>1 DEF MatchWonBy
  <2> QED
    BY <2>1, <2>2, <2>3 DEF SetsFit
<1>13. ValidateCompletion([kind |-> "retirement", losingSide |-> 1, sets |-> t], rules).valid
  BY <1>7, <1>11, <1>12 DEF ValidateCompletion, Accepted
<1> QED
  BY <1>4, <1>13 DEF Games, t

-----------------------------------------------------------------------------
(* The third part: the readers of a stored result.                         *)

LEMMA MoreSetsRange == \A s : MoreSets(s) \in {0, 1, 2}
BY DEF MoreSets

\* The sets that a side leads are those it has won, if all are complete.
LEMMA LedIsWon ==
  ASSUME NEW s \in Seq(SetTypes), NEW R, NEW side,
         \A i \in 1..Len(s) : SetState(s, i, R) = "complete"
  PROVE  LedSets(s, side) = WonSets(s, Len(s), side, R)
<1>1. DOMAIN s = 1..Len(s)
  OBVIOUS
<1>2. {i \in DOMAIN s : LeaderOf(s[i]) = side}
      = {i \in 1..Len(s) : SetState(s, i, R) = "complete" /\ LeaderOf(s[i]) = side}
  BY <1>1
<1> QED
  BY <1>2 DEF LedSets, WonSets

\* Two sides do not win more sets together than were played.
LEMMA WonTogether ==
  ASSUME NEW s, NEW n \in Nat, NEW R
  PROVE  WonSets(s, n, 1, R) + WonSets(s, n, 2, R) <= n
<1> DEFINE A == WonBy(s, n, 1, R)
           B == WonBy(s, n, 2, R)
<1>1. IsFiniteSet(A) /\ IsFiniteSet(B) /\ WonSets(s, n, 1, R) = Cardinality(A) /\ WonSets(s, n, 2, R) = Cardinality(B)
      /\ Cardinality(A) \in Nat /\ Cardinality(B) \in Nat
  BY WonByFinite, FS_CardinalityType
<1>2. A \cap B = {} /\ A \cup B \in SUBSET (1..n)
  BY DEF WonBy
<1> HIDE DEF A, B
<1>3. Cardinality(A \cup B) = Cardinality(A) + Cardinality(B)
  <2>1. Cardinality(A \cup B) = Cardinality(A) + Cardinality(B) - Cardinality(A \cap B)
    BY <1>1, FS_Union
  <2>2. Cardinality(A \cap B) = 0
    BY <1>2, FS_EmptySet
  <2> QED
    BY <2>1, <2>2, <1>1
<1>4. IsFiniteSet(1..n) /\ Cardinality(1..n) = n
  BY FS_Interval
<1>5. Cardinality(A \cup B) <= Cardinality(1..n)
  BY <1>2, <1>4, FS_Subset
<1> QED
  BY <1>1, <1>3, <1>4, <1>5

LEMMA RegularWinner ==
  ASSUME NEW s \in Seq(SetTypes), NEW R \in RuleTypes, s # <<>>, SetsFit("regular", s, R),
         MatchWonBy(s, Len(s), R) # {}
  PROVE  MoreSets(s) = CHOOSE side \in MatchWonBy(s, Len(s), R) : TRUE
<1> DEFINE n == Len(s)
<1>1. n \in Nat /\ DOMAIN s = 1..n /\ R.winningSets \in Nat \ {0}
  BY DEF RuleTypes
<1>2. \A i \in 1..n : SetState(s, i, R) = "complete"
  BY <1>1 DEF SetsFit
<1>3. LedSets(s, 1) = WonSets(s, n, 1, R) /\ LedSets(s, 2) = WonSets(s, n, 2, R)
      /\ WonSets(s, n, 1, R) \in Nat /\ WonSets(s, n, 2, R) \in Nat
  BY <1>1, <1>2, LedIsWon, WonByFinite
<1>4. WonSets(s, n, 1, R) + WonSets(s, n, 2, R) <= R.winningSets * 2 - 1
  <2>1. n <= R.winningSets * 2 - 1
    BY DEF SetsFit, MaxSets
  <2>2. WonSets(s, n, 1, R) + WonSets(s, n, 2, R) <= n
    BY <1>1, WonTogether
  <2> QED
    BY <2>1, <2>2, <1>1, <1>3
<1>5. PICK w \in {1, 2} : WonSets(s, n, w, R) >= R.winningSets
  BY DEF MatchWonBy
<1>6. WonSets(s, n, 3 - w, R) < R.winningSets
  BY <1>1, <1>3, <1>4, <1>5
<1>7. MoreSets(s) = w
  BY <1>1, <1>3, <1>5, <1>6 DEF MoreSets
<1>8. MatchWonBy(s, Len(s), R) = {w}
  <2>1. \A side \in {1, 2} : WonSets(s, n, side, R) >= R.winningSets <=> side = w
    BY <1>1, <1>3, <1>5, <1>6
  <2> QED
    BY <2>1 DEF MatchWonBy
<1> QED
  BY <1>7, <1>8

\* The group table counts the sets of a walkover for the side that came.
LEMMA WalkoverSets ==
  ASSUME NEW lost, LeaderOf(lost) \in {1, 2}
  PROVE  MoreSets(<<lost, lost>>) = LeaderOf(lost)
<1> DEFINE w == LeaderOf(lost)
<1>1. {i \in DOMAIN <<lost, lost>> : LeaderOf(<<lost, lost>>[i]) = w} = {1} \cup {2}
  OBVIOUS
<1>2. {i \in DOMAIN <<lost, lost>> : LeaderOf(<<lost, lost>>[i]) = 3 - w} = {}
  OBVIOUS
<1>3. Cardinality({1} \cup {2}) = 2
  <2>1. IsFiniteSet({1}) /\ Cardinality({1}) = 1
    BY FS_Singleton
  <2> QED
    BY <2>1, FS_AddElement
<1>4. LedSets(<<lost, lost>>, w) = 2 /\ LedSets(<<lost, lost>>, 3 - w) = 0
  BY <1>1, <1>2, <1>3, FS_EmptySet DEF LedSets
<1> QED
  BY <1>4 DEF MoreSets

LEMMA NoSets == MoreSets(<<>>) = 0
<1>1. \A side : {i \in DOMAIN <<>> : LeaderOf(<<>>[i]) = side} = {}
  OBVIOUS
<1>2. LedSets(<<>>, 1) = 0 /\ LedSets(<<>>, 2) = 0
  BY <1>1, FS_EmptySet DEF LedSets
<1> QED
  BY <1>2 DEF MoreSets

LEMMA ReadersRight ==
  ASSUME ScoreTypes
  PROVE  ReadersAgree
<1> SUFFICES ASSUME NEW kind \in {"regular", "retirement", "walkover"}, NEW side \in {1, 2}, NEW completion,
                    completion = [kind |-> kind, losingSide |-> side, sets |-> IF kind = "walkover" THEN <<>> ELSE sets],
                    ValidateCompletion(completion, rules).valid
             PROVE  /\ WinningSide(completion) = ValidateCompletion(completion, rules).winnerSide
                    /\ GroupWinner(completion) = ValidateCompletion(completion, rules).winnerSide
                    /\ \/ MoreSets(GroupSets(completion)) = ValidateCompletion(completion, rules).winnerSide
                       \/ kind = "retirement"
                    /\ \/ BracketWinner(completion) = ValidateCompletion(completion, rules).winnerSide
                       \/ kind = "retirement" /\ MoreSets(sets) = side
  BY DEF ReadersAgree
<1>1. CASE kind = "walkover"
  <2>1. completion.kind = "walkover" /\ completion.sets = <<>> /\ completion.losingSide = side
    BY <1>1
  <2>2. ValidateCompletion(completion, rules).winnerSide = 3 - side
    BY <2>1 DEF ValidateCompletion, Accepted
  <2>3. MarkedSide(completion) = side
    BY <2>1 DEF MarkedSide
  <2>4. MoreSets(GroupSets(completion)) = 3 - side
    <3> DEFINE lost == IF side = 1 THEN Set(0, 6, NoTiebreak) ELSE Set(6, 0, NoTiebreak)
    <3>1. GroupSets(completion) = <<lost, lost>>
      BY <2>1 DEF GroupSets
    <3>2. LeaderOf(lost) = 3 - side
      BY DEF LeaderOf, Set
    <3> HIDE DEF lost
    <3> QED
      BY <3>1, <3>2, WalkoverSets
  <2> QED
    BY <2>1, <2>2, <2>3, <2>4, NoSets DEF WinningSide, GroupWinner, BracketWinner
<1>2. CASE kind = "retirement"
  <2>1. completion.kind = "retirement" /\ completion.sets = sets /\ completion.losingSide = side
    BY <1>2
  <2>2. ValidateCompletion(completion, rules).winnerSide = 3 - side
    BY <2>1 DEF ValidateCompletion, Accepted, Rejected
  <2>3. MarkedSide(completion) = side
    BY <2>1 DEF MarkedSide
  <2> QED
    BY <1>2, <2>1, <2>2, <2>3, MoreSetsRange DEF WinningSide, GroupWinner, BracketWinner
<1>3. CASE kind = "regular"
  <2>1. completion.kind = "regular" /\ completion.sets = sets /\ completion.losingSide = side
    BY <1>3
  <2> DEFINE winners == MatchWonBy(sets, Len(sets), rules)
  <2>2. sets # <<>> /\ SetsFit("regular", sets, rules) /\ winners # {}
    BY <2>1 DEF ValidateCompletion, Rejected
  <2>3. ValidateCompletion(completion, rules).winnerSide = CHOOSE w \in winners : TRUE
    BY <2>1, <2>2 DEF ValidateCompletion, Accepted
  <2>4. rules \in RuleTypes /\ sets \in Seq(SetTypes)
    BY FormatFacts DEF ScoreTypes
  <2>5. MoreSets(sets) = CHOOSE w \in winners : TRUE
    BY <2>2, <2>4, RegularWinner
  <2>6. MoreSets(sets) \in {1, 2}
    BY <2>2, <2>5 DEF MatchWonBy
  <2>7. MarkedSide(completion) = 0 /\ GroupSets(completion) = sets
    BY <2>1 DEF MarkedSide, GroupSets
  <2> HIDE DEF winners
  <2> QED
    BY <2>1, <2>3, <2>5, <2>6, <2>7 DEF WinningSide, GroupWinner, BracketWinner
<1> QED
  BY <1>1, <1>2, <1>3

-----------------------------------------------------------------------------
(* The fourth part: the dialog keeps a stored score.                       *)

LEMMA SetKept ==
  ASSUME NEW s, NEW i \in Nat, NEW R \in RuleTypes, s[i] \in SetTypes,
         SetState(s, i, R) \in {"complete", "partial"},
         ~(LeaderOf(s[i]) = 0 /\ NeedsTiebreak(s[i], i, R))
  PROVE  Serialized(Columns(s[i], i, R), i, R) = <<s[i]>>
<1> DEFINE set == s[i]
           columns == Columns(set, i, R)
<1>1. set = Set(set.side1, set.side2, set.tb) /\ set.side1 \in Nat /\ set.side2 \in Nat
      /\ set.tb \in Nat \cup {NoTiebreak}
  BY DEF SetTypes, Set
<1>2. CASE set.tb # NoTiebreak
  <2>1. ~IsMatchTiebreak(i, R) /\ LeaderOf(set) # 0 /\ set.tb \in Nat
    BY <1>1, <1>2 DEF SetState, MatchTiebreakState, NormalSetState, RuleTypes, LeaderOf, High, Low, TiebreakAt, NoTiebreak
  <2> DEFINE pointsWon == Max({7, set.tb + 2})
  <2>2. pointsWon = IF 7 >= set.tb + 2 THEN 7 ELSE set.tb + 2
    <3>1. set.tb + 2 \in Nat /\ 7 \in Nat
      BY <2>1
    <3> QED
      BY <3>1, MaxOfTwo
  <2>3. columns.games = <<set.side1, set.side2>>
        /\ columns.points = IF LeaderOf(set) = 1 THEN <<pointsWon, set.tb>> ELSE <<set.tb, pointsWon>>
    BY <1>2, <2>1 DEF Columns
  <2>4. LeaderOf(Set(set.side1, set.side2, NoTiebreak)) = LeaderOf(set) /\ LeaderOf(set) \in {1, 2}
    BY <2>1 DEF LeaderOf, Set
  <2> HIDE DEF pointsWon, columns
  <2>5. pointsWon \in Nat /\ pointsWon >= set.tb + 2 /\ pointsWon >= 7 /\ (pointsWon = 7 \/ pointsWon = set.tb + 2)
    BY <2>1, <2>2
  <2>6. columns.points[LeaderOf(set)] = pointsWon /\ columns.points[3 - LeaderOf(set)] = set.tb
        /\ columns.points # <<>>
    BY <2>3, <2>4
  <2>7. Max({columns.points[1], columns.points[2]}) = pointsWon /\ Min({columns.points[1], columns.points[2]}) = set.tb
    <3>1. Max({columns.points[1], columns.points[2]})
            = IF columns.points[1] >= columns.points[2] THEN columns.points[1] ELSE columns.points[2]
      BY <2>1, <2>3, <2>4, <2>5, MaxOfTwo
    <3>2. Min({columns.points[1], columns.points[2]})
            = IF columns.points[1] <= columns.points[2] THEN columns.points[1] ELSE columns.points[2]
      BY <2>1, <2>3, <2>4, <2>5, MinOfTwo
    <3> QED
      BY <3>1, <3>2, <2>1, <2>3, <2>4, <2>5
  <2>8. columns.games[1] = set.side1 /\ columns.games[2] = set.side2
    BY <2>3
  <2>9. Serialized(columns, i, R) = <<Set(set.side1, set.side2, set.tb)>>
    BY <2>1, <2>4, <2>5, <2>6, <2>7, <2>8 DEF Serialized
  <2> QED
    BY <2>9, <1>1 DEF columns
<1>3. CASE set.tb = NoTiebreak
  <2>1. NeedsTiebreak(set, i, R) => LeaderOf(set) = 0
    BY <1>1, <1>3 DEF NeedsTiebreak, SetState, NormalSetState, RuleTypes, LeaderOf, High, Low, TiebreakAt, NoTiebreak
  <2>2. columns.games = <<set.side1, set.side2>> /\ columns.points = <<>>
    BY <1>3, <2>1 DEF Columns
  <2>3. Serialized(columns, i, R) = <<Set(set.side1, set.side2, NoTiebreak)>>
    BY <2>2 DEF Serialized
  <2> QED
    BY <2>3, <1>1, <1>3
<1> QED
  BY <1>2, <1>3

LEMMA DialogRight ==
  ASSUME ScoreTypes
  PROVE  DialogKeepsScores
<1> SUFFICES ASSUME AcceptedSomehow, NEW i \in DOMAIN sets
             PROVE  \/ Serialized(Columns(sets[i], i, rules), i, rules) = <<sets[i]>>
                    \/ LeaderOf(sets[i]) = 0 /\ NeedsTiebreak(sets[i], i, rules)
  BY DEF DialogKeepsScores
<1>1. sets \in Seq(SetTypes) /\ i \in Nat /\ sets[i] \in SetTypes /\ rules \in RuleTypes
  BY FormatFacts DEF ScoreTypes
<1>2. PICK kind \in {"regular", "retirement"} : SetsFit(kind, sets, rules)
  BY DEF AcceptedSomehow, Verdict, ValidateCompletion, Rejected
<1>3. SetState(sets, i, rules) \in {"complete", "partial"}
  BY <1>2 DEF SetsFit
<1> QED
  BY <1>1, <1>3, SetKept

-----------------------------------------------------------------------------
(***************************************************************************)
(* Everything that can be played is accepted for what it is, nothing else  *)
(* is, everybody reads the same winner from it, and the dialog sends it    *)
(* back as it was: for every match type and scores of any height.          *)
(***************************************************************************)
THEOREM EverythingAgreesOnScores == ScoreSpec => []ScoresAgree
<1>1. ScoreInit => ScoreInv
  BY ScoreStarts
<1>2. ScoreInv /\ [ScoreNext]_scoreVars => ScoreInv'
  BY ScoreStep
<1>3. ScoreInv => ScoresAgree
  BY PlayedAccepted, OnlyPlayed, ReadersRight, DialogRight DEF ScoreInv, ScoresAgree
<1> QED
  BY <1>1, <1>2, <1>3, PTL DEF ScoreSpec
=============================================================================
