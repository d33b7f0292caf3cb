-------------------------------- MODULE Members --------------------------------
(***************************************************************************)
(* The members of the club: what a write does to a person                  *)
(* (Backend/postgresPlayService.js, Backend/memberReconciliation.js), and  *)
(* how an export of the club's administration is compared with the people  *)
(* (Frontend/JS/memberImport.js).                                          *)
(*                                                                         *)
(* A person is a record of `who`, the normalized name and date of birth (0 *)
(* when a part is missing), `ext`, the CD-ID (0 for none), `login` (0 for  *)
(* none), `data`, which stands for every other field of the master data (0 *)
(* when empty), the class of membership, and the two roles.  The people    *)
(* are a function of their ids.  A row of an export has `email`, which may *)
(* become a login, and `faulty` when one of its values cannot be used.     *)
(***************************************************************************)
EXTENDS Integers, FiniteSets

PersonFields == {"who", "ext", "login", "data", "member", "active", "admin", "operator"}
Ids(people) == DOMAIN people
Privileged(person) == person.admin \/ person.operator
Admins(people) == {i \in Ids(people) : people[i].admin}
NoRow == [ext |-> 0, who |-> 0, email |-> 0, data |-> 0, member |-> 0, faulty |-> FALSE]

-----------------------------------------------------------------------------
(***************************************************************************)
(* The service.  `changes` is a record of the fields that change.          *)
(***************************************************************************)
Changes(field, changes) == field \in DOMAIN changes
Deactivates(changes) == Changes("active", changes) /\ ~changes.active

\* ADMIN_SELF_PROTECTION and LAST_ADMIN_PROTECTION: the assignments are counted,
\* whether the people who hold them are active or not.
Protected(people, principal, id) == id = principal \/ Cardinality(Admins(people)) <= 1

\* Why applyPersonChanges, or a constraint of the tables, refuses.
ChangesRefused(people, principal, id, changes) ==
  \/ id \notin Ids(people)
  \/ Deactivates(changes) /\ people[id].admin /\ Protected(people, principal, id)
  \/ /\ Changes("login", changes) /\ changes.login # 0
     /\ \E other \in Ids(people) \ {id} : people[other].login = changes.login

\* The fields of `changes`, the others as they were.
Over(changes, old) ==
  [f \in DOMAIN changes \cup DOMAIN old |-> IF Changes(f, changes) THEN changes[f] ELSE old[f]]
ApplyPersonChanges(people, id, changes) == [people EXCEPT ![id] = Over(changes, people[id])]

\* validateReconciliationRequest.
ValidRequest(r) ==
  CASE r.action = "create" -> r.ext # 0 /\ {"active", "member"} \subseteq DOMAIN r.changes
                              /\ r.changes.active /\ r.changes.member # 0
    [] r.action = "update" -> r.ext # 0 /\ ~Deactivates(r.changes)
                              /\ DOMAIN r.changes \cap {"login", "admin", "operator"} = {}
    [] OTHER -> TRUE

NextId(people) == 1 + CHOOSE i \in Ids(people) : \A other \in Ids(people) : other <= i
Created(r) == Over(r.changes, [who |-> r.who, ext |-> r.ext, login |-> 0, data |-> 0, member |-> 0,
                               active |-> TRUE, admin |-> FALSE, operator |-> FALSE])
With(people, person) ==
  [i \in Ids(people) \cup {NextId(people)} |-> IF i = NextId(people) THEN person ELSE people[i]]

\* reconcilePerson in its transaction: a CD-ID belongs to one person and a person keeps it.
ReconcileRefused(people, principal, r) ==
  \/ ~ValidRequest(r)
  \/ /\ r.action = "create"
     /\ \E i \in Ids(people) :
          people[i].ext = r.ext \/ (Changes("login", r.changes) /\ people[i].login = r.changes.login)
  \/ r.action # "create" /\ ChangesRefused(people, principal, r.id, r.changes)
  \/ /\ r.action = "update" /\ people[r.id].ext # r.ext
     /\ people[r.id].ext # 0 \/ \E i \in Ids(people) : people[i].ext = r.ext

\* The person that is checked in memory: fingerprint, and the roles before a deactivation.
Conflict(people, r) ==
  /\ r.action # "create"
  /\ \/ r.id \notin Ids(people)
     \/ people[r.id] # r.seen
     \/ r.action = "deactivate" /\ Privileged(people[r.id])

\* What the two write endpoints refuse and do.
Refused(people, principal, r) ==
  IF r.action = "normalize" THEN ChangesRefused(people, principal, r.id, r.changes)
  ELSE ReconcileRefused(people, principal, r)
\* Mutant: the CD-ID of a person who is there is not stored.
MutWritten(people, r) ==
  IF r.action = "create" THEN With(people, Created(r))
  ELSE ApplyPersonChanges(people, r.id, r.changes)
Written(people, r) ==
  CASE r.action = "create" -> With(people, Created(r))
    [] r.action = "update" -> [ApplyPersonChanges(people, r.id, r.changes) EXCEPT ![r.id].ext = r.ext]
    [] OTHER -> ApplyPersonChanges(people, r.id, r.changes)

-----------------------------------------------------------------------------
(***************************************************************************)
(* The comparison: compareClubDeskMembers.                                 *)
(***************************************************************************)
ByExternalId(row, people) == {i \in Ids(people) : people[i].ext = row.ext}

\* Only people without a CD-ID are found by name and date of birth, all parts known.
ByIdentity(row, people) ==
  IF ByExternalId(row, people) # {} \/ row.who = 0 THEN {}
  ELSE {i \in Ids(people) : people[i].ext = 0 /\ people[i].who = row.who}
Matches(row, people) == ByExternalId(row, people) \cup ByIdentity(row, people)

Several(ids) == \E i, j \in ids : i # j

Conflicting(row, export, people) ==
  \/ row.faulty
  \/ Several(ByIdentity(row, people))
  \/ /\ ByExternalId(row, people) = {} /\ row.who # 0
     /\ \E other \in export \ {row} : other.who = row.who

\* differencesFor: an empty value of the export changes nothing.
Differences(row, person) ==
  {f \in {"data", "active", "member"} :
     CASE f = "data"   -> row.data # 0 /\ row.data # person.data
       [] f = "active" -> ~person.active
       [] OTHER        -> ~Privileged(person) /\ row.member # person.member}

Match(row, people) == IF Matches(row, people) = {} THEN 0 ELSE CHOOSE i \in Matches(row, people) : TRUE

Category(row, export, people) ==
  IF Conflicting(row, export, people) THEN "conflict"
  ELSE IF ByIdentity(row, people) # {} THEN "unclear"
  ELSE IF Matches(row, people) = {} THEN "new"
  ELSE IF Differences(row, people[Match(row, people)]) # {} THEN "changed" ELSE "identical"

\* The address of a new member becomes the login when nobody else has it.
ProposedLogin(row, export, people) ==
  IF /\ row.email # 0 /\ \A other \in export \ {row} : other.email # row.email
     /\ \A i \in Ids(people) : people[i].login # row.email
  THEN row.email ELSE 0

\* An entry holds what its signature compares: category, person with fingerprint, CD-ID, login.
Entry(category, row, id, person, login) ==
  [category |-> category, row |-> row, id |-> id, person |-> person, login |-> login]
Nobody == [who |-> 0]
RowEntry(row, export, people) ==
  LET category == Category(row, export, people)
      id == IF category = "conflict" /\ Several(Matches(row, people)) THEN 0 ELSE Match(row, people)
  IN Entry(category, row, id, IF id = 0 THEN Nobody ELSE people[id],
           IF category = "new" THEN ProposedLogin(row, export, people) ELSE 0)

Handled(export, people) == UNION {Matches(row, people) : row \in export}
\* A person whom no row means.
PersonEntry(id, people) ==
  Entry(IF people[id].active /\ ~Privileged(people[id]) THEN "missing" ELSE "identical", NoRow, id, people[id], 0)

Entries(export, people) ==
  {RowEntry(row, export, people) : row \in export}
  \cup {PersonEntry(id, people) : id \in Ids(people) \ Handled(export, people)}

Actionable == {"changed", "new", "missing", "unclear"}

-----------------------------------------------------------------------------
(***************************************************************************)
(* The request of a selected entry (actionRequests): `fields` are the ones *)
(* that are ticked.                                                        *)
(***************************************************************************)
RowValues(row, login) == [data |-> row.data, member |-> row.member, active |-> TRUE, login |-> login]
Only(values, fields) == [f \in fields |-> values[f]]

\* The fields that can be ticked; for a new member all that are not empty.
Choosable(e) ==
  CASE e.category = "missing" -> {"active"}
    [] e.category = "new" -> {f \in {"data", "member", "active", "login"} :
                                f \in {"member", "active"} \/ RowValues(e.row, e.login)[f] # 0}
    [] OTHER -> Differences(e.row, e.person)

Request(action, id, ext, who, changes, seen) ==
  [action |-> action, id |-> id, ext |-> ext, who |-> who, changes |-> changes, seen |-> seen]
ActionRequest(e, fields) ==
  CASE e.category = "missing" -> Request("deactivate", e.id, 0, 0, [active |-> FALSE], e.person)
    [] e.category = "new" -> Request("create", 0, e.row.ext, e.row.who, Only(RowValues(e.row, e.login), fields), Nobody)
    [] OTHER -> Request("update", e.id, e.row.ext, 0, Only(RowValues(e.row, 0), fields), e.person)
=============================================================================
