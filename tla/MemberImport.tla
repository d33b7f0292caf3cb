------------------------------ MODULE MemberImport ------------------------------
(***************************************************************************)
(* One administrator compares an export with the people and has everything *)
(* written that the page offers, action by action, nobody else writing     *)
(* (Frontend/JS/mitgliederAbgleichen.js with the rules of Members).        *)
(***************************************************************************)
EXTENDS Members

CONSTANTS Imports,      \* the exports with the people they meet: records [export, people]
          Importer      \* the id of the administrator

\* The export has its CD-IDs once (parseClubDeskCsv) and gives each row a class of membership (groupRole); people
\* have ids from 1 on, and a CD-ID belongs to one of them.
ASSUME ImportsAssumption ==
  \A i \in Imports :
    /\ \A r \in i.export : r.ext # 0 /\ r.member # 0 /\ \A o \in i.export : o.ext = r.ext => o = r
    /\ 0 \notin Ids(i.people) /\ Ids(i.people) \subseteq Nat
    /\ \E m \in Ids(i.people) : \A p \in Ids(i.people) : p <= m
    /\ \A p \in Ids(i.people) : PersonFields \subseteq DOMAIN i.people[p]
    /\ \A p, o \in Ids(i.people) : (i.people[p].ext # 0 /\ i.people[p].ext = i.people[o].ext) => p = o

VARIABLES export,   \* the rows of the file (never change)
          members,  \* the people in the database
          pending,  \* the requests that are still to be sent
          refusals  \* how many the service has refused

importVars == <<export, members, pending, refusals>>

Offered(entries) == {ActionRequest(e, Choosable(e)) : e \in {e \in entries : e.category \in Actionable}}

ImportInit ==
  \E i \in Imports :
    /\ export = i.export /\ members = i.people
    /\ pending = Offered(Entries(i.export, i.people))
    /\ refusals = 0

\* One turn of submitActions' loop.
Submit(r) ==
  /\ r \in pending /\ refusals = 0
  /\ pending' = pending \ {r}
  /\ IF Conflict(members, r) \/ Refused(members, Importer, r)
     THEN refusals' = 1 /\ UNCHANGED members
     ELSE refusals' = 0 /\ members' = Written(members, r)
  /\ UNCHANGED export

ImportNext == \E r \in pending : Submit(r)

ImportSpec == ImportInit /\ [][ImportNext]_importVars

-----------------------------------------------------------------------------
Of(entries, id) == {e \in entries : e.id = id}

\* The comparison is sound whatever the export holds: nobody is acted on twice or
\* is acted on while another row may mean them; who is missing is meant by no row;
\* and no two new members, nor a new member and a person, get the same login.
ComparisonSound ==
  LET entries == Entries(export, members)
      acted == {e \in entries : e.category \in Actionable /\ e.id # 0}
      fresh == {e \in entries : e.category = "new" /\ e.login # 0}
  IN /\ \A e \in acted : Of(entries, e.id) = {e}
     /\ \A e \in entries : e.category = "missing" =>
          \A row \in export : /\ row.ext # e.person.ext
                              /\ ByExternalId(row, members) # {} \/ e.person.ext # 0 \/ row.who \notin {e.person.who} \ {0}
     /\ \A e \in fresh : /\ \A other \in fresh \ {e} : other.login # e.login
                         /\ \A i \in Ids(members) : members[i].login # e.login

\* An import that is carried out completely is accepted action by action, in any
\* order, and leaves nothing to do: comparing the same export again offers nothing.
ImportSettles ==
  /\ refusals = 0
  /\ pending = {} => Offered(Entries(export, members)) = {}
ImportSound == ComparisonSound /\ ImportSettles
=============================================================================
