-------------------------------- MODULE MCPeople --------------------------------
(***************************************************************************)
(* The people, the administration of the diagnostics and the development   *)
(* workflow for TLC.                                                       *)
(***************************************************************************)
EXTENDS People, MemberImport, Logging, Workflow

VARIABLE half       \* the part that moves: a complete import, the pages, the diagnostics' settings, or the workflow

vars == <<half, importVars, peopleVars, loggingVars, workflowVars>>

-----------------------------------------------------------------------------
Person(who, ext, login, data, member, active, admin, operator) ==
  [who |-> who, ext |-> ext, login |-> login, data |-> data, member |-> member,
   active |-> active, admin |-> admin, operator |-> operator]
Row(ext, who, email, data, member, faulty) ==
  [ext |-> ext, who |-> who, email |-> email, data |-> data, member |-> member, faulty |-> faulty]

\* The importer, and two people whose identity, CD-ID, state and role vary.
Somebody(login) ==
  {Person(who, ext, login, 1, 1, active, FALSE, FALSE) : who \in 0..2, ext \in 0..2, active \in BOOLEAN}
Others(login) == Somebody(login) \cup {Person(1, 0, login, 1, 1, TRUE, FALSE, TRUE), Person(2, 2, login, 0, 0, FALSE, FALSE, TRUE)}
Rows == {Row(ext, who, email, 2 * (ext - 1), 2, FALSE) : ext \in 1..2, who \in 0..2, email \in 0..1}
        \cup {Row(1, 1, 1, 0, 1, TRUE)}
Exports == {e \in SUBSET Rows : Cardinality(e) <= 2 /\ Cardinality({r.ext : r \in e}) = Cardinality(e)}
ManyImports ==
  {[export |-> e, people |-> 1 :> Person(3, 0, 2, 1, 0, TRUE, TRUE, FALSE) @@ 2 :> a @@ 3 :> b] :
     e \in Exports, a \in Others(1), b \in Somebody(0)}
SmallImports == {i \in ManyImports : i.people[2].ext = 0 \/ i.people[2].ext # i.people[3].ext}
OneImport == CHOOSE i \in SmallImports : i.export = {}

-----------------------------------------------------------------------------
Team == 1 :> Person(1, 0, 1, 1, 0, TRUE, TRUE, FALSE) @@ 2 :> Person(2, 0, 2, 1, 0, TRUE, TRUE, FALSE)
        @@ 3 :> Person(3, 3, 0, 1, 1, TRUE, FALSE, FALSE)
Page(kind, actor, rows, edits) == [kind |-> kind, actor |-> actor, export |-> rows, edits |-> edits]
To(id, field, value) == [id |-> id, field |-> field, value |-> value]
Bounds(writes, faults, reloads) == [writes |-> writes, faults |-> faults, reloads |-> reloads]
Members3 == {Row(3, 3, 0, 2, 1, FALSE), Row(4, 4, 3, 1, 2, FALSE)}

Importing == Page("reconcile", 1, Members3, {})
Alone == [people |-> Team, bounds |-> Bounds(2, 1, 1), pages |-> <<Importing>>]
Together == [people |-> Team, bounds |-> Bounds(2, 0, 0),
             pages |-> <<Page("reconcile", 1, {Row(3, 3, 0, 2, 1, FALSE)}, {}), Page("normalize", 2, {}, {To(3, "data", 0)})>>]
Cleaners == [people |-> Team, bounds |-> Bounds(2, 0, 0),
             pages |-> <<Page("normalize", 1, {}, {To(2, "active", FALSE), To(3, "data", 2)}),
                         Page("normalize", 2, {}, {To(1, "active", FALSE)})>>]
SmallScenes == {Alone, Together}
TwoCleaners == {Cleaners}

-----------------------------------------------------------------------------
Logged(saves, faults, refreshesOf, news, reloads) ==
  [saves |-> saves, faults |-> faults, refreshes |-> refreshesOf, news |-> news, reloads |-> reloads]
SmallLogging == {Logged(2, 0, 1, 0, 0), Logged(1, 0, 2, 0, 0), Logged(2, 1, 0, 0, 0), Logged(1, 1, 1, 1, 1)}

-----------------------------------------------------------------------------
Workspace(groups, edits, suites, faults, rivals, releases, branches, commits) ==
  [groups |-> groups, values |-> 0..1, edits |-> edits, suites |-> suites, faults |-> faults, rivals |-> rivals,
   releases |-> releases, branches |-> branches, commits |-> commits, main |-> 1]
SmallWorkflow ==
  {Workspace({"backend", "docs"}, 2, 1, 0, 0, 0, 1, 2), Workspace({"backend", "docs"}, 2, 2, 0, 0, 0, 1, 1),
   Workspace({"client"}, 1, 2, 0, 0, 0, 1, 2), Workspace({"client"}, 2, 1, 0, 0, 0, 1, 2),
   Workspace({"docs"}, 2, 0, 1, 0, 0, 1, 3), Workspace({}, 0, 0, 1, 1, 2, 2, 2)}

-----------------------------------------------------------------------------
ImportRests == export = OneImport.export /\ members = OneImport.people
PeopleRest == scene.bounds = CHOOSE b \in {s.bounds : s \in PeopleScenes} : TRUE
LoggingRests == tables.settings = (CHOOSE m \in Modes : TRUE) /\ allowance = CHOOSE s \in LoggingScenes : TRUE
WorkflowRests == story = CHOOSE s \in WorkflowScenes : TRUE

Init == /\ ImportInit /\ PeopleInit /\ LoggingInit /\ WorkflowInit
        /\ \/ half = "import" /\ PeopleRest /\ LoggingRests /\ WorkflowRests
           \/ half = "pages" /\ ImportRests /\ LoggingRests /\ WorkflowRests
           \/ half = "logging" /\ ImportRests /\ PeopleRest /\ WorkflowRests
           \/ half = "workflow" /\ ImportRests /\ PeopleRest /\ LoggingRests

Next == \/ half = "import" /\ ImportNext /\ UNCHANGED <<half, peopleVars, loggingVars, workflowVars>>
        \/ half = "pages" /\ PeopleNext /\ UNCHANGED <<half, importVars, loggingVars, workflowVars>>
        \/ half = "logging" /\ LoggingNext /\ UNCHANGED <<half, importVars, peopleVars, workflowVars>>
        \/ half = "workflow" /\ WorkflowNext /\ UNCHANGED <<half, importVars, peopleVars, loggingVars>>

Spec == Init /\ [][Next]_vars
=============================================================================
