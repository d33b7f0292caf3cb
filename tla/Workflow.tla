------------------------------ MODULE Workflow ------------------------------
(***************************************************************************)
(* How a change becomes a release: the numbered side branches, the proof   *)
(* that a task was tested as it is committed, and the merge into main      *)
(* (scripts/version-workflow.mjs, verification-state.mjs and               *)
(* verification-workflow.mjs).  One checkout, the repository it pushes to, *)
(* a developer who edits whenever he likes, and others who release.        *)
(*                                                                         *)
(* The files are groups that the policy of the suites tells apart.  A main *)
(* commit is the version it carries and the branch tip it merges; a SHA of *)
(* main is the sequence of its releases, a SHA of a side branch the number *)
(* of its last commit.  Package files and branch changelog hold the number *)
(* of a commit, or the number it follows and a mark of open work.          *)
(* A command's checks and what it writes up to the commit are one step,    *)
(* but for next-task and finish-branch, which check, stage and commit.     *)
(***************************************************************************)
EXTENDS Integers, Sequences, FiniteSets

CONSTANTS CoreProfiles,     \* CORE_BROWSER_PROFILES
          AllProfiles,      \* ALL_BROWSER_PROFILES
          WorkflowScenes    \* groups edited, values a group takes, and bounds

\* The files as the policy of the suites tells them apart.
Groups == {"docs", "packages", "backend", "script", "client", "page"}

ASSUME ProfilesAssumption == CoreProfiles \subseteq AllProfiles
ASSUME WorkflowScenesAssumption ==
    \A s \in WorkflowScenes : s.main \in Nat /\ s.groups \subseteq Groups /\ s.values \subseteq Nat

VARIABLES spot,       \* the branch that is checked out, 0 for main
          sides,      \* the commits of each side branch: package version, changelog, files
          stems,      \* main when the branch was started
          trunk,      \* the releases on the checkout's main
          origin,     \* [main, sides]: what is pushed
          packages,   \* version in the package files of the working tree: [num, open]
          changelog,  \* branch changelog of the working tree: [final, open]
          tree,       \* the files of the working tree
          index,      \* what is staged, <<>> when the index is that of HEAD
          job,        \* next-task or finish-branch between its steps, <<>> without one
          receipt,    \* the verification receipt
          suiteRun,   \* the suite that runs, <<>> without one; `edited`: a file was changed since it started
          evidence,   \* history: each suite and profile that passed, the fingerprints at start and end, `edited`
          tasks,      \* history: what next-task committed on which head: the files checked and those committed
          confirmed,  \* the version the user confirmed, for which main and tip
          merging,    \* MERGE_HEAD: <<branch, tip>> or <<>>
          settled,    \* the merge's changelogs are transferred
          spent,      \* [edits, suites, faults, rivals] that may still happen
          story       \* the scene

sideVars == <<spot, sides, stems, packages, changelog, tree, index, job>>
testVars == <<receipt, suiteRun, evidence, tasks>>
mainVars == <<trunk, origin, confirmed, merging, settled>>
workflowVars == <<sideVars, testVars, mainVars, spent, story>>

-----------------------------------------------------------------------------
(* The working tree *)
Fresh == [g \in Groups |-> 0]
Tip(b) == Len(sides[b])
CommittedTree(b) == IF b = 0 \/ Tip(b) = 0 THEN Fresh ELSE sides[b][Tip(b)].tree
HeadTree == IF spot = 0 THEN Fresh ELSE CommittedTree(spot)
\* The commit the checkout is at; the initial commits of branches are told apart by the branch.
Sha == IF spot = 0 THEN <<0, Len(trunk)>> ELSE <<spot, Tip(spot)>>
Changed(from, to) == {g \in Groups : from[g] # to[g]}
Version(v) == [num |-> v, open |-> FALSE]
Released == Version(trunk[Len(trunk)].version)
Sections(n, target) == [final |-> n, open |-> target]

NoCommand == job = <<>>
NumberedBranch == spot # 0 /\ merging = <<>> /\ Tip(spot) > 0
assertClean ==
    /\ tree = HeadTree /\ index = <<>> /\ merging = <<>>
    /\ IF spot = 0 THEN packages = Released
       ELSE Tip(spot) > 0 /\ packages = sides[spot][Tip(spot)].packages /\ changelog = sides[spot][Tip(spot)].changelog

-----------------------------------------------------------------------------
(* The proof that something was tested *)
Suites == {"docs", "build", "browser-core", "browser-lifecycle", "browser-full"}
Browser(suite) == suite \notin {"docs", "build"}
Frontend == {"script", "client", "page"}

requiredSuites(paths) ==
    CASE paths = {} -> {}
      [] paths = {"docs"} -> {"docs"}
      [] OTHER -> {"build"} \cup (IF "page" \in paths THEN {"browser-full"}
                                 ELSE IF "client" \in paths THEN {"browser-lifecycle"}
                                 ELSE IF "script" \in paths THEN {"browser-core"} ELSE {})

suiteIncludes(suite) ==
    CASE suite = "docs" -> {"docs"}
      [] suite = "build" -> Groups \ {"docs"}
      [] OTHER -> Frontend \cup {"packages"}

\* suiteFingerprint: HEAD and the suite's files as far as they are changed; all browser suites share theirs.
SuitePrint(suite, head, from, to) ==
    [suite |-> IF Browser(suite) THEN "browser" ELSE suite, head |-> head,
     files |-> [g \in suiteIncludes(suite) |-> IF g \in Changed(from, to) \cup {"packages"} THEN to[g] ELSE 0 - 1]]
suiteFingerprint(suite) == SuitePrint(suite, Sha, HeadTree, tree)

browserProfilesForSuite(suite) == IF suite = "browser-core" THEN CoreProfiles ELSE AllProfiles
suiteSatisfied(suite, completed) ==
    \/ suite \in completed
    \/ suite = "docs" /\ "build" \in completed
    \/ suite \in {"browser-core", "browser-lifecycle"} /\ "browser-full" \in completed

NoEntry == [success |-> FALSE, print |-> <<>>, profiles |-> {}]
NoReceipt == [head |-> <<0, 0>>, suites |-> [s \in Suites |-> NoEntry]]
Known == IF receipt.head = Sha THEN receipt.suites ELSE NoReceipt.suites
completedSuites == {s \in Suites : Known[s].success /\ Known[s].print = <<suiteFingerprint(s)>>}
missingSuites == {s \in requiredSuites(Changed(HeadTree, tree)) : ~suiteSatisfied(s, completedSuites)}
missingProfiles(suite) ==
    {p \in browserProfilesForSuite(suite) :
       ~(Known[suite].print = <<suiteFingerprint(suite)>> /\ p \in Known[suite].profiles)}

WriteReceipt(suite, entry) == receipt' = [head |-> Sha, suites |-> [Known EXCEPT ![suite] = entry]]

\* `verify --suite auto` runs what is missing, `verify --suite s` runs the whole suite.
RunSuite(suite, force) ==
    /\ suiteRun = <<>> /\ spot # 0 /\ spent.suites > 0
    /\ ~force => suite \in missingSuites
    /\ suiteRun' = <<[suite |-> suite, print |-> suiteFingerprint(suite),
                      edited |-> FALSE,
                      todo |-> IF ~Browser(suite) THEN {} ELSE IF force THEN browserProfilesForSuite(suite) ELSE missingProfiles(suite)]>>
    /\ IF Browser(suite) THEN UNCHANGED receipt
       ELSE WriteReceipt(suite, [success |-> FALSE, print |-> <<suiteFingerprint(suite)>>, profiles |-> {}])
    /\ spent' = [spent EXCEPT !.suites = @ - 1]
    /\ UNCHANGED <<sideVars, mainVars, evidence, tasks, story>>

\* What is known of the suite or profile that passes now.
Evidence(profile) ==
    [suite |-> suiteRun[1].suite, profile |-> profile, start |-> suiteRun[1].print,
     end |-> suiteFingerprint(suiteRun[1].suite), edited |-> suiteRun[1].edited]

\* Mutant: the files are not compared with those the suite started with.
MutSuitePasses ==
    /\ suiteRun # <<>> /\ ~Browser(suiteRun[1].suite)
    /\ LET suite == suiteRun[1].suite print == suiteRun[1].print
       IN /\ evidence' = evidence \cup {Evidence("")}
          /\ WriteReceipt(suite, [success |-> TRUE, print |-> <<suiteFingerprint(suite)>>, profiles |-> {}])
    /\ suiteRun' = <<>>
    /\ UNCHANGED <<sideVars, mainVars, tasks, spent, story>>

\* The end of the docs or build suite; the receipt is written only when its files are still those of its start.
SuitePasses ==
    /\ suiteRun # <<>> /\ ~Browser(suiteRun[1].suite)
    /\ LET suite == suiteRun[1].suite print == suiteRun[1].print
       IN /\ evidence' = evidence \cup {Evidence("")}
          /\ IF suiteFingerprint(suite) = print
             THEN WriteReceipt(suite, [success |-> TRUE, print |-> <<print>>, profiles |-> {}])
             ELSE UNCHANGED receipt
    /\ suiteRun' = <<>>
    /\ UNCHANGED <<sideVars, mainVars, tasks, spent, story>>

\* writeBrowserProfileReceipt, for a profile that passed or failed: recorded with the fingerprint of the start.
RecordProfile(suite, print, profile, passes) ==
    LET kept == IF Known[suite].print = <<print>> THEN Known[suite].profiles ELSE {}
        now == IF passes THEN kept \cup {profile} ELSE kept \ {profile}
    IN WriteReceipt(suite, [success |-> browserProfilesForSuite(suite) \subseteq now, print |-> <<print>>, profiles |-> now])

ProfileEnds(profile, passes) ==
    /\ suiteRun # <<>> /\ profile \in suiteRun[1].todo
    /\ LET suite == suiteRun[1].suite print == suiteRun[1].print
       IN /\ RecordProfile(suite, print, profile, passes)
          /\ evidence' = IF passes THEN evidence \cup {Evidence(profile)} ELSE evidence
          /\ suiteRun' = IF passes /\ suiteRun[1].todo # {profile}
                          THEN <<[suite |-> suite, print |-> print, edited |-> suiteRun[1].edited,
                                  todo |-> suiteRun[1].todo \ {profile}]>> ELSE <<>>
    /\ UNCHANGED <<sideVars, mainVars, tasks, spent, story>>

\* The docs or build suite fails; a browser run with nothing to do ends.
SuiteFails ==
    /\ suiteRun # <<>> /\ suiteRun[1].todo = {}
    /\ suiteRun' = <<>>
    /\ UNCHANGED <<sideVars, mainVars, receipt, evidence, tasks, spent, story>>

-----------------------------------------------------------------------------
(* Side branches *)
WorkVersion == [num |-> Tip(spot), open |-> TRUE]
NextCommit == Tip(spot) + 1
OpenSection == Sections(Tip(spot), NextCommit)

\* The developer changes a file, whatever runs; he unstages, or switches between branches.
EditFile(g, value) ==
    /\ spot # 0 /\ spent.edits > 0 /\ g \in story.groups /\ value \in story.values /\ tree[g] # value
    /\ tree' = [tree EXCEPT ![g] = value]
    /\ spent' = [spent EXCEPT !.edits = @ - 1]
    /\ suiteRun' = IF suiteRun = <<>> THEN <<>> ELSE <<[suiteRun[1] EXCEPT !.edited = TRUE]>>
    /\ UNCHANGED <<spot, sides, stems, packages, changelog, index, job, receipt, evidence, tasks, mainVars, story>>
Unstage ==
    /\ NoCommand /\ index # <<>>
    /\ index' = <<>>
    /\ UNCHANGED <<spot, sides, stems, packages, changelog, tree, job, testVars, mainVars, spent, story>>
CheckOut(b) ==
    /\ spot' = b
    /\ tree' = CommittedTree(b)
    /\ packages' = IF b = 0 THEN Released ELSE sides[b][Tip(b)].packages
    /\ changelog' = IF b = 0 THEN Sections(0, 0) ELSE sides[b][Tip(b)].changelog
Switch(b) ==
    /\ NoCommand /\ suiteRun = <<>> /\ assertClean /\ b # spot
    /\ b # 0 => Tip(b) > 0
    /\ CheckOut(b)
    /\ UNCHANGED <<sides, stems, index, job, testVars, mainVars, spent, story>>

\* The initial commit and the first open section; when git refuses the commit the branch has none.
branchStart ==
    /\ NoCommand /\ spot = 0 /\ assertClean /\ Len(sides) < story.branches
    /\ spot' = Len(sides) + 1
    /\ stems' = Append(stems, trunk)
    /\ \/ /\ sides' = Append(sides, <<[packages |-> Version(1), changelog |-> Sections(1, 0), tree |-> Fresh]>>)
          /\ packages' = [num |-> 1, open |-> TRUE]
          /\ changelog' = Sections(1, 2)
          /\ UNCHANGED <<index, spent>>
       \/ /\ spent.faults > 0
          /\ spent' = [spent EXCEPT !.faults = @ - 1]
          /\ sides' = Append(sides, <<>>)
          /\ packages' = Version(1)
          /\ changelog' = Sections(1, 0)
          /\ index' = <<Fresh>>
    /\ UNCHANGED <<tree, job, testVars, mainVars, story>>

workStart ==
    /\ NoCommand /\ NumberedBranch /\ assertClean
    /\ packages = Version(Tip(spot)) /\ changelog.open = 0
    /\ packages' = WorkVersion
    /\ changelog' = OpenSection
    /\ UNCHANGED <<spot, sides, stems, tree, index, job, testVars, mainVars, spent, story>>

branchFinalize ==
    /\ NoCommand /\ NumberedBranch
    /\ packages = WorkVersion /\ changelog = OpenSection
    /\ packages' = Version(NextCommit)
    /\ changelog' = Sections(NextCommit, 0)
    /\ UNCHANGED <<spot, sides, stems, tree, index, job, testVars, mainVars, spent, story>>

branchReopen ==
    /\ NoCommand /\ NumberedBranch
    /\ packages = Version(NextCommit) /\ changelog.final = NextCommit
    /\ packages' = WorkVersion
    /\ changelog' = OpenSection
    /\ UNCHANGED <<spot, sides, stems, tree, index, job, testVars, mainVars, spent, story>>

\* The files as they are, of those that were allowed.
Staged(allowed) == [g \in Groups |-> IF g \in allowed THEN tree[g] ELSE HeadTree[g]]

\* The commit takes the versions and the changelog with the files that were allowed.
Record(files) == Append(sides[spot], [packages |-> packages, changelog |-> changelog, tree |-> files])
branchCommit(allowed) ==
    /\ NoCommand /\ NumberedBranch /\ index = <<>> /\ Tip(spot) < story.commits
    /\ packages = Version(NextCommit) /\ changelog = Sections(NextCommit, 0)
    /\ \/ sides' = [sides EXCEPT ![spot] = Record(Staged(allowed))] /\ UNCHANGED <<index, spent>>
       \/ /\ spent.faults > 0
          /\ index' = <<Staged(allowed)>>
          /\ spent' = [spent EXCEPT !.faults = @ - 1]
          /\ UNCHANGED sides
    /\ UNCHANGED <<spot, stems, packages, changelog, tree, job, testVars, mainVars, story>>

CheckedJob(openNext, allowed) ==
    [openNext |-> openNext, step |-> "stage", allowed |-> allowed, checked |-> tree, moved |-> FALSE,
     packages |-> packages, changelog |-> changelog]

\* Mutant: the section is not finalized with the versions.
MutCompleteBranchWork(openNext, allowed) ==
    /\ NoCommand /\ NumberedBranch /\ index = <<>> /\ Tip(spot) < story.commits
    /\ packages = WorkVersion /\ changelog = OpenSection
    /\ Changed(HeadTree, tree) \subseteq allowed
    /\ openNext => missingSuites = {}
    /\ packages' = Version(NextCommit)
    /\ job' = <<CheckedJob(openNext, allowed)>>
    /\ UNCHANGED <<spot, sides, stems, tree, index, changelog, testVars, mainVars, spent, story>>

\* completeBranchWork: every check, then the final versions and section.
completeBranchWork(openNext, allowed) ==
    /\ NoCommand /\ NumberedBranch /\ index = <<>> /\ Tip(spot) < story.commits
    /\ packages = WorkVersion /\ changelog = OpenSection
    /\ Changed(HeadTree, tree) \subseteq allowed
    /\ openNext => missingSuites = {}
    /\ packages' = Version(NextCommit)
    /\ changelog' = Sections(NextCommit, 0)
    /\ job' = <<CheckedJob(openNext, allowed)>>
    /\ UNCHANGED <<spot, sides, stems, tree, index, testVars, mainVars, spent, story>>

\* The files are staged as they are by now; whether they are still those that were checked is not looked at.
StageTask ==
    /\ job # <<>> /\ job[1].step = "stage"
    /\ index' = <<Staged(job[1].allowed)>>
    /\ job' = <<[job[1] EXCEPT !.step = "commit", !.moved = (tree # job[1].checked)]>>
    /\ UNCHANGED <<spot, sides, stems, packages, changelog, tree, testVars, mainVars, spent, story>>

CommitTask ==
    /\ job # <<>> /\ job[1].step = "commit"
    /\ sides' = [sides EXCEPT ![spot] = Record(index[1])]
    /\ index' = <<>>
    /\ tasks' = IF job[1].openNext
                THEN tasks \cup {[head |-> Sha, from |-> HeadTree, checked |-> job[1].checked, to |-> index[1],
                                  moved |-> job[1].moved]}
                ELSE tasks
    /\ job' = <<[job[1] EXCEPT !.step = "open"]>>
    /\ UNCHANGED <<spot, stems, packages, changelog, tree, receipt, suiteRun, evidence, mainVars, spent, story>>

\* Mutant: the changelog keeps the section that was finalized.
MutRestore ==
    /\ job # <<>> /\ job[1].step \in {"stage", "commit"} /\ spent.faults > 0
    /\ packages' = job[1].packages
    /\ index' = <<>>
    /\ job' = <<>>
    /\ spent' = [spent EXCEPT !.faults = @ - 1]
    /\ UNCHANGED <<spot, sides, stems, tree, changelog, testVars, mainVars, story>>

\* Staging or the commit fails: versions, changelog and index become what they were.
Restore ==
    /\ job # <<>> /\ job[1].step \in {"stage", "commit"} /\ spent.faults > 0
    /\ packages' = job[1].packages
    /\ changelog' = job[1].changelog
    /\ index' = <<>>
    /\ job' = <<>>
    /\ spent' = [spent EXCEPT !.faults = @ - 1]
    /\ UNCHANGED <<spot, sides, stems, tree, testVars, mainVars, story>>

\* The next section is opened, unless a file was changed meanwhile or the opening fails: then the commit stays.
OpenNext ==
    /\ job # <<>> /\ job[1].step = "open"
    /\ \/ /\ job[1].openNext /\ tree = HeadTree
          /\ packages' = WorkVersion
          /\ changelog' = OpenSection
          /\ UNCHANGED spent
       \/ /\ job[1].openNext /\ tree = HeadTree /\ spent.faults > 0
          /\ spent' = [spent EXCEPT !.faults = @ - 1]
          /\ UNCHANGED <<packages, changelog>>
       \/ /\ ~job[1].openNext \/ tree # HeadTree
          /\ UNCHANGED <<packages, changelog, spent>>
    /\ job' = <<>>
    /\ UNCHANGED <<spot, sides, stems, tree, index, testVars, mainVars, story>>

-----------------------------------------------------------------------------
(* Release *)
pushBranch ==
    /\ NoCommand /\ NumberedBranch /\ assertClean /\ packages = Version(Tip(spot))
    /\ origin' = [origin EXCEPT !.sides = [b \in DOMAIN sides |->
                    IF b = spot THEN Tip(b) ELSE IF b \in DOMAIN origin.sides THEN origin.sides[b] ELSE 0]]
    /\ UNCHANGED <<sideVars, testVars, trunk, confirmed, merging, settled, spent, story>>

FastForward(old, new) == Len(old) <= Len(new) /\ \A i \in 1..Len(old) : old[i] = new[i]
\* git pull --ff-only on main.
Pull ==
    /\ NoCommand /\ spot = 0 /\ assertClean
    /\ trunk # origin.main /\ FastForward(trunk, origin.main)
    /\ trunk' = origin.main
    /\ packages' = Version(origin.main[Len(origin.main)].version)
    /\ UNCHANGED <<spot, sides, stems, changelog, tree, index, job, testVars, origin, confirmed, merging, settled, spent, story>>

\* The user confirms a version for the main and the tip he was told; both commands of the release get it.
Confirm(b, version) ==
    /\ NoCommand /\ merging = <<>> /\ b \in DOMAIN origin.sides /\ origin.sides[b] > 0 /\ spent.confirmations > 0
    /\ confirmed' = <<[branch |-> b, tip |-> origin.sides[b], main |-> trunk, version |-> version]>>
    /\ spent' = [spent EXCEPT !.confirmations = @ - 1]
    /\ UNCHANGED <<sideVars, testVars, trunk, origin, merging, settled, story>>

\* Mutant: the version may be any.
MutAssertReleaseRefs(c) ==
    /\ trunk = c.main /\ origin.main = c.main
    /\ Tip(c.branch) = c.tip /\ origin.sides[c.branch] = c.tip
    /\ sides[c.branch][c.tip].packages = Version(c.tip)

assertReleaseRefs(c) ==
    /\ trunk = c.main /\ origin.main = c.main
    /\ Tip(c.branch) = c.tip /\ origin.sides[c.branch] = c.tip
    /\ c.version > c.main[Len(c.main)].version
    /\ sides[c.branch][c.tip].packages = Version(c.tip)

\* Both sides change the version line: the merge conflicts unless main is still the one the branch came from.
Merges(c) == stems[c.branch] = trunk
releaseOpen ==
    /\ NoCommand /\ suiteRun = <<>> /\ assertClean /\ confirmed # <<>>
    /\ assertReleaseRefs(confirmed[1])
    /\ LET c == confirmed[1]
       IN /\ spot' = 0 /\ tree' = Fresh /\ changelog' = Sections(0, 0)
          /\ IF Merges(c)
             THEN merging' = <<[branch |-> c.branch, tip |-> Tip(c.branch)]>> /\ packages' = sides[c.branch][Tip(c.branch)].packages
             ELSE merging' = <<>> /\ packages' = Released
    /\ settled' = FALSE
    /\ UNCHANGED <<sides, stems, index, job, testVars, trunk, origin, confirmed, spent, story>>

\* The developer transfers the branch's changelog into that of main and removes it.
TransferLogs ==
    /\ merging # <<>> /\ ~settled
    /\ settled' = TRUE
    /\ UNCHANGED <<sideVars, testVars, trunk, origin, confirmed, merging, spent, story>>

\* The merge commit; when git refuses it, the version stays and the command can be repeated.
releaseCommit ==
    /\ NoCommand /\ spot = 0 /\ confirmed # <<>> /\ merging # <<>> /\ settled
    /\ LET c == confirmed[1]
       IN /\ merging = <<[branch |-> c.branch, tip |-> c.tip]>> /\ trunk = c.main
          /\ packages' = Version(c.version)
          /\ \/ /\ trunk' = Append(trunk, [version |-> c.version, branch |-> c.branch, tip |-> c.tip])
                /\ merging' = <<>>
                /\ UNCHANGED spent
             \/ /\ spent.faults > 0
                /\ spent' = [spent EXCEPT !.faults = @ - 1]
                /\ UNCHANGED <<trunk, merging>>
    /\ UNCHANGED <<spot, sides, stems, changelog, tree, index, job, testVars, origin, confirmed, settled, story>>

\* git refuses what is not a fast-forward.
pushMain ==
    /\ NoCommand /\ spot = 0 /\ assertClean /\ packages = Released
    /\ FastForward(origin.main, trunk)
    /\ origin' = [origin EXCEPT !.main = trunk]
    /\ UNCHANGED <<sideVars, testVars, trunk, confirmed, merging, settled, spent, story>>

\* Another checkout releases, by the same rules.
RivalRelease ==
    /\ spent.rivals > 0
    /\ origin' = [origin EXCEPT !.main = Append(@, [version |-> @[Len(@)].version + 1, branch |-> 0, tip |-> 0])]
    /\ spent' = [spent EXCEPT !.rivals = @ - 1]
    /\ UNCHANGED <<sideVars, testVars, trunk, confirmed, merging, settled, story>>

-----------------------------------------------------------------------------
FirstMain(s) == <<[version |-> s.main, branch |-> 0, tip |-> 0]>>
WorkflowInit ==
    /\ story \in WorkflowScenes
    /\ spent = [edits |-> story.edits, suites |-> story.suites, faults |-> story.faults,
                rivals |-> story.rivals, confirmations |-> story.releases]
    /\ spot = 0 /\ sides = <<>> /\ stems = <<>>
    /\ trunk = FirstMain(story) /\ origin = [main |-> trunk, sides |-> <<>>]
    /\ packages = Version(story.main) /\ changelog = Sections(0, 0)
    /\ tree = Fresh /\ index = <<>> /\ job = <<>>
    /\ receipt = NoReceipt /\ suiteRun = <<>> /\ evidence = {} /\ tasks = {}
    /\ confirmed = <<>> /\ merging = <<>> /\ settled = FALSE

BranchStep ==
    \/ branchStart \/ workStart \/ branchFinalize \/ branchReopen
    \/ \E allowed \in SUBSET story.groups :
          branchCommit(allowed) \/ \E openNext \in BOOLEAN : completeBranchWork(openNext, allowed)
    \/ StageTask \/ CommitTask \/ Restore \/ OpenNext
    \/ Unstage \/ (\E g \in Groups, value \in story.values : EditFile(g, value))
    \/ \E b \in 0..Len(sides) : Switch(b)
TestStep ==
    \/ \E suite \in Suites, force \in BOOLEAN : RunSuite(suite, force)
    \/ SuitePasses \/ SuiteFails
    \/ \E profile \in AllProfiles, passes \in BOOLEAN : ProfileEnds(profile, passes)
ReleaseStep ==
    \/ pushBranch \/ Pull \/ releaseOpen \/ TransferLogs \/ releaseCommit \/ pushMain \/ RivalRelease
    \/ \E b \in DOMAIN sides, v \in 1..(trunk[Len(trunk)].version + 2) : Confirm(b, v)
WorkflowNext == BranchStep \/ TestStep \/ ReleaseStep
WorkflowSpec == WorkflowInit /\ [][WorkflowNext]_workflowVars

-----------------------------------------------------------------------------
(* Properties *)

\* The commits of a side branch are numbered without a gap: the n-th carries the version n in its package
\* files, a changelog that is final up to n, and never the mark of open work, whichever commands and
\* failures came before it.
Numbered ==
    \A b \in DOMAIN sides : \A n \in DOMAIN sides[b] :
        sides[b][n].packages = Version(n) /\ sides[b][n].changelog = Sections(n, 0)

\* Between two commands versions and changelog of a side branch agree with its last commit and with each
\* other, so that one of the commands can go on: the work is closed, open or finalized. Only a branch whose
\* initial commit was refused is left to the developer.
OnTheWay ==
    NoCommand /\ spot # 0 /\ Tip(spot) > 0 =>
        \/ packages = Version(Tip(spot)) /\ changelog = Sections(Tip(spot), 0)
        \/ packages = WorkVersion /\ changelog = OpenSection
        \/ packages = Version(NextCommit) /\ changelog = Sections(NextCommit, 0)

\* What next-task commits was tested as it is committed: for each suite its files call for, that suite or
\* one that stands for it passed, docs and build with exactly those files at their start and their end, each
\* profile of a browser suite in a run that started with exactly those files. There are two exceptions. A
\* profile counts for the files its run started with even if a file was changed before it ended
\* (verification-state.mjs:355, and :363 takes nothing back); and files changed between next-task's check
\* and its staging are committed as they are then (version-workflow.mjs:577, 612).
Passed(suite, head, from, files) ==
    LET print == SuitePrint(suite, head, from, files)
    IN IF Browser(suite)
       THEN \A p \in browserProfilesForSuite(suite) :
               \E e \in evidence : /\ e.suite = suite /\ e.profile = p /\ e.start = print
                                   /\ e.end = print \/ e.edited
       ELSE \E e \in evidence : e.suite = suite /\ e.start = print /\ e.end = print
TestedAs(head, from, files) ==
    \A suite \in requiredSuites(Changed(from, files)) :
        suiteSatisfied(suite, {s \in Suites : Passed(s, head, from, files)})
Tested ==
    \A task \in tasks : /\ TestedAs(task.head, task.from, task.checked)
                        /\ task.to = task.checked \/ task.moved

\* Releases on the pushed main have rising versions, and each of this checkout's merges a pushed commit of a
\* side branch that started from the very main it is merged into, so no branch is released twice; others
\* may release at the same time.
InOrder(main) ==
    \A i \in 1..Len(main) :
        /\ i > 1 => main[i].version > main[i - 1].version
        /\ LET b == main[i].branch
           IN b # 0 => /\ b \in DOMAIN origin.sides
                       /\ main[i].tip \in 1..origin.sides[b] /\ origin.sides[b] <= Tip(b)
                       /\ Len(stems[b]) = i - 1 /\ FastForward(stems[b], main)
ReleasesInOrder == InOrder(origin.main)

WorkflowSound == Numbered /\ OnTheWay /\ Tested /\ ReleasesInOrder
=============================================================================
