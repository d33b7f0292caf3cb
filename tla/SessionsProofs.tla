---------------------------- MODULE SessionsProofs ----------------------------
(***************************************************************************)
(* Proofs about module Sessions, for any accounts, browsers, pages, bounds *)
(* and any number of requests.                                             *)
(***************************************************************************)
EXTENDS Sessions, FiniteSetTheorems, WellFoundedInduction, TLAPS

-----------------------------------------------------------------------------
(* Least and greatest elements, by a least counterexample.                 *)
-----------------------------------------------------------------------------
\* A set of natural numbers that is not empty has a least one.
LEMMA NatLeast ==
  ASSUME NEW S \in SUBSET Nat, S # {}
  PROVE  \E x \in S : \A y \in S : x <= y
<1> DEFINE Below(n) == 0..(n - 1)
           T == {Below(n) : n \in S}
<1>1. T \subseteq FiniteSubsetsOf(Nat)
  <2>1. \A n \in Nat : Below(n) \in SUBSET Nat /\ IsFiniteSet(Below(n))
    BY FS_Interval
  <2> QED BY <2>1 DEF FiniteSubsetsOf
<1>2. T # {}
  OBVIOUS
<1>3. PICK t \in T : \A u \in T : <<u, t>> \notin StrictSubsetOrdering(Nat)
  <2> HIDE DEF T
  <2> QED BY <1>1, <1>2, WFMin, FS_StrictSubsetOrderingWellFounded
<1>4. PICK x \in S : t = Below(x)
  BY <1>3
<1>5. ASSUME NEW y \in S PROVE x <= y
  <2>1. SUFFICES ASSUME y < x PROVE FALSE
    OBVIOUS
  <2>2. Below(y) \subseteq Below(x) /\ Below(y) # Below(x)
    <3>1. y \in Below(x) /\ y \notin Below(y)
      BY <2>1
    <3> QED BY <2>1, <3>1
  <2>3. <<Below(y), Below(x)>> \in StrictSubsetOrdering(Nat)
    BY <2>2 DEF StrictSubsetOrdering
  <2> QED BY <1>3, <1>4, <2>3
<1> QED BY <1>5

\* Of a finite set that is not empty, an element with the greatest value.
LEMMA Greatest ==
  ASSUME NEW S, IsFiniteSet(S), S # {}, NEW f \in [S -> Nat]
  PROVE  \E x \in S : \A y \in S : f[y] <= f[x]
<1> DEFINE Above(x) == {y \in S : f[y] > f[x]}
           T == {Above(x) : x \in S}
<1>1. T \subseteq FiniteSubsetsOf(S) /\ T # {}
  <2>1. \A x \in S : Above(x) \in SUBSET S /\ IsFiniteSet(Above(x))
    BY FS_Subset
  <2> HIDE DEF Above
  <2> QED BY <2>1 DEF FiniteSubsetsOf
<1>2. PICK t \in T : \A u \in T : <<u, t>> \notin StrictSubsetOrdering(S)
  <2> HIDE DEF T
  <2> QED BY <1>1, WFMin, FS_StrictSubsetOrderingWellFounded
<1>3. PICK x \in S : t = Above(x)
  BY <1>2
<1>4. ASSUME NEW y \in S, f[y] > f[x] PROVE FALSE
  <2>1. Above(y) \subseteq Above(x) /\ y \in Above(x) /\ y \notin Above(y)
    BY <1>4
  <2>2. <<Above(y), Above(x)>> \in StrictSubsetOrdering(S)
    BY <2>1 DEF StrictSubsetOrdering
  <2> QED BY <1>2, <1>3, <2>2
<1> QED BY <1>4

-----------------------------------------------------------------------------
(* Sessions in the order they were seen.                                   *)
-----------------------------------------------------------------------------
OrderOK ==
  /\ \A t \in live : newer[t] \subseteq live \ {t}
  /\ \A t, u \in live : t # u => t \in newer[u] \/ u \in newer[t]
  /\ \A t, u, v \in live : u \in newer[t] /\ v \in newer[u] => v \in newer[t]

\* The k newest of a finite set of sessions are at most k.
LEMMA FewNewest ==
  ASSUME OrderOK, IsFiniteSet(live), NEW S \in SUBSET live, NEW k \in Nat
  PROVE  Cardinality({t \in S : ~(Cardinality(newer[t] \intersect S) >= k)}) <= k
<1> DEFINE K == {t \in S : ~(Cardinality(newer[t] \intersect S) >= k)}
           Newer(t) == newer[t] \intersect S
           f == [t \in K |-> Cardinality(Newer(t))]
<1> SUFFICES Cardinality(K) <= k
  OBVIOUS
<1>1. IsFiniteSet(S) /\ IsFiniteSet(K) /\ Cardinality(K) \in Nat
  BY FS_Subset, FS_CardinalityType
<1>2. \A t \in S : IsFiniteSet(Newer(t)) /\ Cardinality(Newer(t)) \in Nat
  BY <1>1, FS_Subset, FS_CardinalityType
<1>3. CASE K = {}
  <2> HIDE DEF K
  <2> QED BY <1>3, FS_EmptySet
<1>4. CASE K # {}
  <2>1. f \in [K -> Nat]
    BY <1>2
  <2>2. PICK t \in K : \A u \in K : f[u] <= f[t]
    <3> HIDE DEF f, K
    <3> QED BY <1>1, <1>4, <2>1, Greatest
  <2>3. ASSUME NEW u \in K \ {t} PROVE u \in Newer(t)
    <3> SUFFICES ASSUME u \notin Newer(t) PROVE FALSE
      OBVIOUS
    <3>1. t \in Newer(u) /\ Newer(t) \subseteq Newer(u) /\ t \notin Newer(t)
      BY DEF OrderOK
    <3>2. Cardinality(Newer(t)) < Cardinality(Newer(u))
      <4>1. Cardinality(Newer(t)) <= Cardinality(Newer(u)) /\ (Cardinality(Newer(t)) = Cardinality(Newer(u)) => Newer(t) = Newer(u))
        BY <1>2, <3>1, FS_Subset
      <4> HIDE DEF Newer
      <4> QED BY <4>1, <3>1, <1>2
    <3>3. f[u] <= f[t]
      BY <2>2
    <3> QED BY <3>2, <3>3, <1>2
  <2>4. Cardinality(K \ {t}) = Cardinality(K) - 1
    <3> HIDE DEF K
    <3> QED BY <1>1, FS_RemoveElement
  <2>5. Cardinality(K \ {t}) <= Cardinality(Newer(t))
    <3>1. K \ {t} \subseteq Newer(t) /\ IsFiniteSet(Newer(t))
      BY <2>3, <1>2
    <3> HIDE DEF K, Newer
    <3> QED BY <3>1, FS_Subset
  <2>6. Cardinality(Newer(t)) < k /\ Cardinality(Newer(t)) \in Nat
    BY <1>2
  <2> HIDE DEF K, Newer
  <2> QED BY <1>1, <2>4, <2>5, <2>6
<1> QED BY <1>3, <1>4

\* Revoking sessions and seeing one keeps the order.
LEMMA OrderKept ==
  ASSUME OrderOK, IsFiniteSet(live), TypeOK, NEW revoked, NEW seen \in SUBSET Tokens,
         seen = {} \/ \E t \in Tokens : seen = {t}, seen \intersect (live \ revoked) = {},
         SessionsBecome(revoked, seen)
  PROVE  /\ OrderOK' /\ IsFiniteSet(live') /\ live' \in SUBSET Tokens /\ newer' \in [Tokens -> SUBSET Tokens]
         /\ live' = (live \ revoked) \union seen
<1>1. /\ live' = (live \ revoked) \union seen
      /\ newer' = [t \in Tokens |-> IF t \in live \ revoked THEN (newer[t] \ revoked) \union seen ELSE {}]
  BY DEF SessionsBecome
<1>2. live \subseteq Tokens /\ \A t \in Tokens : newer[t] \subseteq Tokens
  BY DEF TypeOK
<1>3. /\ \A t \in live \ revoked : newer'[t] = (newer[t] \ revoked) \union seen
      /\ \A t \in Tokens \ (live \ revoked) : newer'[t] = {}
  BY <1>1, <1>2
<1>4. live' \in SUBSET Tokens /\ newer' \in [Tokens -> SUBSET Tokens]
  BY <1>1, <1>2
<1>5. IsFiniteSet(live')
  <2>1. IsFiniteSet(live \ revoked) /\ IsFiniteSet(seen)
    BY FS_Subset, FS_EmptySet, FS_Singleton
  <2> QED BY <1>1, <2>1, FS_Union
<1>6. \A t \in live' : newer'[t] \subseteq live' \ {t}
  BY <1>1, <1>2, <1>3 DEF OrderOK
<1>7. \A t, u \in live' : t # u => t \in newer'[u] \/ u \in newer'[t]
  BY <1>1, <1>2, <1>3 DEF OrderOK
<1>8. ASSUME NEW t \in live', NEW u \in live', NEW v \in live', u \in newer'[t], v \in newer'[u]
      PROVE  v \in newer'[t]
  <2>1. t \in live \ revoked
    BY <1>1, <1>2, <1>3, <1>8
  <2>2. CASE u \in live \ revoked
    BY <1>1, <1>2, <1>3, <1>8, <2>1, <2>2 DEF OrderOK
  <2>3. CASE u \notin live \ revoked
    BY <1>1, <1>2, <1>3, <1>8, <2>3
  <2> QED BY <2>2, <2>3
<1> QED BY <1>1, <1>4, <1>5, <1>6, <1>7, <1>8 DEF OrderOK

-----------------------------------------------------------------------------
(* The inductive invariant of the server.                                  *)
-----------------------------------------------------------------------------
Mutations == {"login", "logout", "change"}
Queued == {"login", "change", "setup", "set"}
Running == {"replace", "current", "create"}
Waiting == {"queued"} \union Running

\* The queues hold the requests that wait or run, each once, and only the first one runs.
QueueOK ==
  /\ \A r \in Requests : req[r].pc \in Waiting =>
       /\ req[r].kind \in Queued /\ req[r].acc \in Accounts
       /\ \E i \in 1..Len(queue[req[r].acc]) : queue[req[r].acc][i] = r
  /\ \A a \in Accounts : \A i \in 1..Len(queue[a]) :
       /\ req[queue[a][i]].acc = a /\ req[queue[a][i]].pc \in Waiting
       /\ i > 1 => req[queue[a][i]].pc = "queued"
       /\ \A j \in 1..Len(queue[a]) : queue[a][i] = queue[a][j] => i = j
\* A login past its verification, and whoever is about to open a session, has the password
\* that counts: while it is the first in the queue nobody can set another.
Knows(r) == req[r].pc = "create" \/ (req[r].kind = "login" /\ req[r].pc \in Running)
HandlersOK ==
  \A r \in Requests : /\ req[r].pc \in {"current", "create"} => req[r].kind \in {"login", "change"}
                      /\ req[r].pc = "current" => req[r].kind = "login"
                      /\ Knows(r) => req[r].pw = acct[req[r].acc].pw
SessionsOK ==
  \A t \in live : /\ tok[t].acc \in Accounts /\ tok[t].rev <= acct[tok[t].acc].rev
                  /\ tok[t].rev = acct[tok[t].acc].rev => tok[t].pw = acct[tok[t].acc].pw
\* Each use of an authorisation has closed one that was granted.
GrantsOK == \A a \in Accounts : acct[a].uses + (IF acct[a].open THEN 1 ELSE 0) <= acct[a].grants
ServerInv == /\ QueueOK /\ HandlersOK /\ SessionsOK /\ GrantsOK
             /\ OrderOK /\ IsFiniteSet(live) /\ AtMostMaxSessions

\* The first of a queue is the only request of its account that runs.
LEMMA OneRuns ==
  ASSUME TypeOK, QueueOK, NEW r \in Requests, req[r].pc \in Running
  PROVE  /\ req[r].acc \in Accounts /\ queue[req[r].acc] # <<>> /\ Head(queue[req[r].acc]) = r
         /\ \A q \in Requests : req[q].pc \in Running /\ req[q].acc = req[r].acc => q = r
<1>1. ASSUME NEW q \in Requests, req[q].pc \in Running
      PROVE  /\ req[q].acc \in Accounts /\ queue[req[q].acc] \in Seq(Requests)
             /\ Len(queue[req[q].acc]) > 0 /\ queue[req[q].acc][1] = q
  <2>1. req[q].acc \in Accounts /\ queue[req[q].acc] \in Seq(Requests)
    BY <1>1 DEF QueueOK, TypeOK, Waiting
  <2>2. PICK i \in 1..Len(queue[req[q].acc]) : queue[req[q].acc][i] = q
    BY <1>1 DEF QueueOK, Waiting
  <2>3. i = 1
    <3>1. req[q].pc # "queued"
      BY <1>1 DEF Running
    <3> QED BY <2>1, <2>2, <3>1 DEF QueueOK
  <2> QED BY <2>1, <2>2, <2>3
<1>2. /\ req[r].acc \in Accounts /\ queue[req[r].acc] \in Seq(Requests)
      /\ Len(queue[req[r].acc]) > 0 /\ queue[req[r].acc][1] = r
  BY <1>1
<1>3. queue[req[r].acc] # <<>> /\ Head(queue[req[r].acc]) = r
  BY <1>2
<1>4. ASSUME NEW q \in Requests, req[q].pc \in Running, req[q].acc = req[r].acc PROVE q = r
  BY <1>1, <1>2, <1>4
<1> QED BY <1>2, <1>3, <1>4

\* Requests change only outside the queues: their part of the invariant stays.
LEMMA QueueKept ==
  ASSUME TypeOK, QueueOK, HandlersOK, UNCHANGED queue, UNCHANGED acct,
         NEW r \in Requests, \A q \in Requests \ {r} : req'[q] = req[q],
         \/ req[r].pc \notin Waiting /\ req'[r].pc \notin Waiting
         \/ /\ req'[r].kind = req[r].kind /\ req'[r].acc = req[r].acc
            /\ req'[r].pw = req[r].pw /\ req'[r].pc = req[r].pc
  PROVE  QueueOK' /\ HandlersOK'
<1>1. \A q \in Requests : req'[q].pc \in Waiting \/ req[q].pc \in Waiting =>
        /\ req'[q].kind = req[q].kind /\ req'[q].acc = req[q].acc
        /\ req'[q].pw = req[q].pw /\ req'[q].pc = req[q].pc
  OBVIOUS
<1>2. QueueOK'
  <2>1. \A q \in Requests : req'[q].pc \in Waiting =>
          /\ req'[q].kind \in Queued /\ req'[q].acc \in Accounts
          /\ \E i \in 1..Len(queue'[req'[q].acc]) : queue'[req'[q].acc][i] = q
    BY <1>1 DEF QueueOK
  <2>2. ASSUME NEW a \in Accounts, NEW i \in 1..Len(queue'[a])
        PROVE  /\ req'[queue'[a][i]].acc = a /\ req'[queue'[a][i]].pc \in Waiting
               /\ i > 1 => req'[queue'[a][i]].pc = "queued"
               /\ \A j \in 1..Len(queue'[a]) : queue'[a][i] = queue'[a][j] => i = j
    <3>1. queue'[a] = queue[a] /\ queue[a] \in Seq(Requests) /\ queue[a][i] \in Requests
      BY DEF TypeOK
    <3>2. /\ req[queue[a][i]].acc = a /\ req[queue[a][i]].pc \in Waiting
          /\ i > 1 => req[queue[a][i]].pc = "queued"
          /\ \A j \in 1..Len(queue[a]) : queue[a][i] = queue[a][j] => i = j
      BY <3>1 DEF QueueOK
    <3> QED BY <1>1, <3>1, <3>2
  <2> QED BY <2>1, <2>2 DEF QueueOK
<1>3. HandlersOK'
  <2>1. "current" \in Waiting /\ "create" \in Waiting /\ Running \subseteq Waiting
    BY DEF Waiting, Running
  <2> QED BY <1>1, <2>1 DEF HandlersOK, Knows
<1> QED BY <1>2, <1>3

\* The same, when everything else of the server is unchanged.
LEMMA ServerKept ==
  ASSUME TypeOK, ServerInv, UNCHANGED server,
         NEW r \in Requests, \A q \in Requests \ {r} : req'[q] = req[q],
         \/ req[r].pc \notin Waiting /\ req'[r].pc \notin Waiting
         \/ /\ req'[r].kind = req[r].kind /\ req'[r].acc = req[r].acc
            /\ req'[r].pw = req[r].pw /\ req'[r].pc = req[r].pc
  PROVE  ServerInv'
<1>1. UNCHANGED <<acct, tok, live, newer, queue>>
  BY DEF server
<1>2. QueueOK' /\ HandlersOK'
  BY <1>1, QueueKept DEF ServerInv
<1>3. SessionsOK' /\ GrantsOK' /\ OrderOK' /\ IsFiniteSet(live)' /\ AtMostMaxSessions'
  BY <1>1 DEF ServerInv, SessionsOK, GrantsOK, OrderOK, AtMostMaxSessions, SessionsOf
<1> QED BY <1>2, <1>3 DEF ServerInv

\* The first of a queue runs on, or leaves it.
LEMMA QueueSteps ==
  ASSUME TypeOK, QueueOK, NEW r \in Requests, req[r].pc \in Waiting, AtHead(r),
         \A q \in Requests \ {r} : req'[q] = req[q],
         \/ UNCHANGED queue /\ req'[r].pc \in Running /\ req'[r].acc = req[r].acc /\ req'[r].kind = req[r].kind
         \/ Leave(r) /\ req'[r].pc \notin Waiting
  PROVE  QueueOK'
<1> DEFINE a0 == req[r].acc
<1>0. /\ a0 \in Accounts /\ queue[a0] \in Seq(Requests) /\ Len(queue[a0]) > 0 /\ queue[a0][1] = r
      /\ req[r].kind \in Queued
  <2>1. a0 \in Accounts /\ req[r].kind \in Queued
    BY DEF QueueOK
  <2>2. queue[a0] \in Seq(Requests) /\ queue[a0] # <<>> /\ Head(queue[a0]) = r
    BY <2>1 DEF TypeOK, AtHead
  <2> QED BY <2>1, <2>2
<1>1. \A a \in Accounts : queue[a] \in Seq(Requests) /\ \A i \in 1..Len(queue[a]) : queue[a][i] \in Requests
  BY DEF TypeOK
<1>2. \A a \in Accounts : \A i \in 1..Len(queue[a]) :
        /\ req[queue[a][i]].acc = a /\ req[queue[a][i]].pc \in Waiting
        /\ i > 1 => req[queue[a][i]].pc = "queued"
        /\ \A j \in 1..Len(queue[a]) : queue[a][i] = queue[a][j] => i = j
  BY DEF QueueOK
<1>3. \A a \in Accounts : \A i \in 1..Len(queue[a]) : queue[a][i] = r => a = a0 /\ i = 1
  BY <1>0, <1>1, <1>2
<1> HIDE DEF a0
<1>4. CASE UNCHANGED queue /\ req'[r].pc \in Running /\ req'[r].acc = a0 /\ req'[r].kind = req[r].kind
  <2>1. req'[r].pc \in Waiting
    BY <1>4 DEF Waiting
  <2>2. \A q \in Requests : req'[q].pc \in Waiting =>
          /\ req'[q].kind \in Queued /\ req'[q].acc \in Accounts
          /\ \E i \in 1..Len(queue'[req'[q].acc]) : queue'[req'[q].acc][i] = q
    <3> TAKE q \in Requests
    <3>1. CASE q = r
      BY <1>0, <1>4, <3>1
    <3>2. CASE q # r
      <4>1. req'[q] = req[q] /\ queue' = queue
        BY <1>4, <3>2
      <4> QED BY <4>1 DEF QueueOK
    <3> QED BY <3>1, <3>2
  <2>3. ASSUME NEW a \in Accounts, NEW i \in 1..Len(queue'[a])
        PROVE  /\ req'[queue'[a][i]].acc = a /\ req'[queue'[a][i]].pc \in Waiting
               /\ i > 1 => req'[queue'[a][i]].pc = "queued"
               /\ \A j \in 1..Len(queue'[a]) : queue'[a][i] = queue'[a][j] => i = j
    <3>0. queue'[a] = queue[a] /\ queue[a][i] \in Requests
      BY <1>1, <1>4, <2>3
    <3>1. CASE queue[a][i] = r
      BY <1>2, <1>3, <1>4, <2>1, <3>0, <3>1
    <3>2. CASE queue[a][i] # r
      BY <1>2, <1>4, <3>0, <3>2
    <3> QED BY <3>1, <3>2
  <2> QED BY <2>2, <2>3 DEF QueueOK
<1>5. CASE Leave(r) /\ req'[r].pc \notin Waiting
  <2>1. /\ \A a \in Accounts \ {a0} : queue'[a] = queue[a]
        /\ queue'[a0] = Tail(queue[a0])
    BY <1>0, <1>5 DEF Leave, TypeOK, a0
  <2>2. /\ Len(queue'[a0]) = Len(queue[a0]) - 1 /\ queue'[a0] \in Seq(Requests)
        /\ \A i \in 1..Len(queue'[a0]) : i + 1 \in 1..Len(queue[a0]) /\ queue'[a0][i] = queue[a0][i + 1]
    BY <1>0, <2>1
  <2>3. \A q \in Requests : req'[q].pc \in Waiting =>
          /\ req'[q].kind \in Queued /\ req'[q].acc \in Accounts
          /\ \E i \in 1..Len(queue'[req'[q].acc]) : queue'[req'[q].acc][i] = q
    <3> TAKE q \in Requests
    <3> HAVE req'[q].pc \in Waiting
    <3>1. q # r /\ req'[q] = req[q]
      BY <1>5
    <3>2. /\ req[q].kind \in Queued /\ req[q].acc \in Accounts
          /\ \E i \in 1..Len(queue[req[q].acc]) : queue[req[q].acc][i] = q
      BY <3>1 DEF QueueOK
    <3>3. PICK i \in 1..Len(queue[req[q].acc]) : queue[req[q].acc][i] = q
      BY <3>2
    <3>4. CASE req[q].acc = a0
      <4>1. i # 1
        BY <1>0, <3>1, <3>3, <3>4
      <4>2. i - 1 \in 1..Len(queue'[a0]) /\ queue'[a0][i - 1] = q
        BY <1>0, <2>2, <3>3, <3>4, <4>1
      <4> QED BY <3>1, <3>2, <3>4, <4>2
    <3>5. CASE req[q].acc # a0
      BY <2>1, <3>1, <3>2, <3>3, <3>5
    <3> QED BY <3>4, <3>5
  <2>4. ASSUME NEW a \in Accounts, NEW i \in 1..Len(queue'[a])
        PROVE  /\ req'[queue'[a][i]].acc = a /\ req'[queue'[a][i]].pc \in Waiting
               /\ i > 1 => req'[queue'[a][i]].pc = "queued"
               /\ \A j \in 1..Len(queue'[a]) : queue'[a][i] = queue'[a][j] => i = j
    <3>1. CASE a = a0
      <4>1. /\ i + 1 \in 1..Len(queue[a0]) /\ queue'[a0][i] = queue[a0][i + 1] /\ i \in Nat \ {0}
            /\ queue[a0][i + 1] \in Requests
        BY <1>0, <1>1, <2>2, <2>4, <3>1
      <4>2. queue'[a0][i] # r
        BY <1>0, <1>3, <4>1
      <4>3. /\ req[queue[a0][i + 1]].acc = a0 /\ req[queue[a0][i + 1]].pc = "queued"
            /\ \A j \in 1..Len(queue[a0]) : queue[a0][i + 1] = queue[a0][j] => i + 1 = j
        BY <1>0, <1>2, <4>1
      <4>4. \A j \in 1..Len(queue'[a0]) : queue'[a0][i] = queue'[a0][j] => i = j
        BY <2>2, <4>1, <4>3
      <4>5. req'[queue'[a0][i]] = req[queue[a0][i + 1]]
        BY <4>1, <4>2
      <4> QED BY <3>1, <4>3, <4>4, <4>5 DEF Waiting
    <3>2. CASE a # a0
      BY <1>1, <1>2, <1>3, <2>1, <2>4, <3>2
    <3> QED BY <3>1, <3>2
  <2> QED BY <2>3, <2>4 DEF QueueOK
<1> QED BY <1>4, <1>5 DEF a0

-----------------------------------------------------------------------------
(* The inductive invariant of the pages.  A request that is under way and  *)
(* the page that waits for it know each other, until the page gives it up. *)
-----------------------------------------------------------------------------
PageOK(p) ==
  /\ page[p].fresh # Nobody => /\ req[page[p].fresh].kind = "get" /\ req[page[p].fresh].page = p
                               /\ req[page[p].fresh].after = page[p].done
  /\ page[p].mut # Nobody => req[page[p].mut].kind \in Mutations /\ req[page[p].mut].page = p
AskedOK(r) ==
  req[r].page # Nobody => /\ req[r].kind \in {"get"} \union Mutations
                          /\ req[r].kind \in Mutations => page[req[r].page].mut = r
\* What names an account names one that exists.
NamedOK(r) == req[r].kind \in {"login", "setup", "set"} => req[r].acc \in Accounts
PageInv == (\A p \in Pages : PageOK(p)) /\ (\A r \in Requests : AskedOK(r) /\ NamedOK(r))

IInv == scene \in Scenes /\ TypeOK /\ ServerInv /\ PageInv

-----------------------------------------------------------------------------
(* Steps of the pages.                                                     *)
-----------------------------------------------------------------------------
LEMMA SlotIsFree == ASSUME Free # {} PROVE Slot \in Requests /\ req[Slot].kind = "none"
<1>1. Free \in SUBSET Nat
  BY BoundsAssumption DEF Free
<1>2. \E x \in Free : \A y \in Free : x <= y
  BY <1>1, NatLeast
<1>3. Slot \in Free
  BY <1>2 DEF Slot, Min
<1> QED BY <1>3 DEF Free

LEMMA PagesAreNames == ASSUME scene \in Scenes PROVE Nobody \notin Pages /\ \A p \in Pages : scene.home[p] \in Browsers
BY NamesAssumption DEF Pages, Nobody

LEMMA RequestNames == 0 \notin Requests /\ Nobody \notin Requests
BY BoundsAssumption DEF Nobody

LEMMA NoRefreshOK ==
  ASSUME NEW pg \in PageStates
  PROVE  /\ NoRefresh(pg) \in PageStates /\ NoRefresh(pg).fresh = Nobody
         /\ NoRefresh(pg).mut = pg.mut /\ NoRefresh(pg).done = pg.done
BY DEF NoRefresh, PageStates

LEMMA NoRequestOK == NoRequest \in RequestStates /\ NoRequest.kind = "none" /\ NoRequest.pc = "none" /\ NoRequest.page = Nobody
BY DEF NoRequest, RequestStates, Kinds

\* A request is sent, or forgotten, outside the queues.
LEMMA SendingOK ==
  ASSUME TypeOK, ServerInv, UNCHANGED server, UNCHANGED scene, jar' \in [Browsers -> Tokens \union {Nobody}],
         NEW r \in Requests, req[r].pc \notin Waiting,
         NEW x \in RequestStates, x.pc \notin Waiting, req' = [req EXCEPT ![r] = x],
         page' \in [Pages -> PageStates]
  PROVE  TypeOK' /\ ServerInv' /\ req'[r] = x /\ \A q \in Requests \ {r} : req'[q] = req[q]
<1>1. req'[r] = x /\ \A q \in Requests \ {r} : req'[q] = req[q]
  BY DEF TypeOK
<1>2. TypeOK'
  <2>1. RequestStates' = RequestStates /\ Pages' = Pages
    BY DEF RequestStates, Pages
  <2>2. req' \in [Requests -> RequestStates]
    BY DEF TypeOK
  <2>3. UNCHANGED <<acct, tok, live, newer, queue>>
    BY DEF server
  <2> QED BY <2>1, <2>2, <2>3 DEF TypeOK
<1>3. ServerInv'
  BY <1>1, ServerKept
<1> QED BY <1>1, <1>2, <1>3

LEMMA FreeIsIdle == ASSUME ServerInv, NEW r \in Requests, req[r].kind \notin Queued PROVE req[r].pc \notin Waiting
BY DEF ServerInv, QueueOK

LEMMA SendGetOK ==
  ASSUME IInv, NEW p \in Pages, NEW rec \in {"no", "changed", "force"}, SendGet(p, rec) PROVE IInv'
<1> DEFINE r == Slot
           x == [NoRequest EXCEPT !.kind = "get", !.page = p, !.cookie = Cookie(p), !.pc = "sent", !.after = page[p].done]
           told == page[p].told /\ rec # "force"
           retry == page[p].retry /\ rec # "changed"
           pg == [page[p] EXCEPT !.fresh = r, !.rec = rec, !.prev = page[p].shown, !.told = told, !.retry = retry]
<1>1. /\ Free # {} /\ req' = [req EXCEPT ![r] = x] /\ page' = [page EXCEPT ![p] = pg]
      /\ UNCHANGED <<scene, jar, server>> /\ jar' \in [Browsers -> Tokens \union {Nobody}]
  BY DEF SendGet, IInv, TypeOK
<1>2. /\ r \in Requests /\ req[r].kind = "none" /\ req[r].pc \notin Waiting
  BY <1>1, SlotIsFree, FreeIsIdle DEF IInv, Queued
<1>3. TypeOK /\ ServerInv /\ PageInv /\ scene \in Scenes
  BY DEF IInv
<1>4. page[p] \in PageStates /\ Cookie(p) \in Tokens \union {Nobody}
  BY <1>3, PagesAreNames DEF TypeOK, Cookie
<1>5. x \in RequestStates /\ x.kind = "get" /\ x.page = p /\ x.after = page[p].done /\ x.pc = "sent"
  BY <1>4 DEF NoRequest, RequestStates, Kinds, PageStates
<1>6. pg \in PageStates /\ pg.fresh = r /\ pg.mut = page[p].mut /\ pg.done = page[p].done
  <2>1. told \in BOOLEAN /\ retry \in BOOLEAN
    OBVIOUS
  <2> HIDE DEF told, retry
  <2> QED BY <2>1, <1>2, <1>4 DEF PageStates
<1> HIDE DEF r, x, pg
<1>7. /\ page' \in [Pages -> PageStates] /\ page'[p] = pg
      /\ \A q \in Pages \ {p} : page'[q] = page[q]
  BY <1>1, <1>3, <1>6 DEF TypeOK
<1>8. x.pc \notin Waiting
  BY <1>5 DEF Waiting, Running
<1>9. TypeOK' /\ ServerInv' /\ req'[r] = x /\ \A q \in Requests \ {r} : req'[q] = req[q]
  BY <1>1, <1>2, <1>3, <1>5, <1>7, <1>8, SendingOK
<1>10. ASSUME NEW q \in Pages PROVE PageOK(q)'
  <2>1. page[q].fresh \in Requests \union {Nobody} /\ page[q].mut \in Requests \union {Nobody}
    BY <1>3 DEF TypeOK, PageStates
  <2>2. page[q].fresh # Nobody => page[q].fresh # r
    BY <1>2, <1>3 DEF PageInv, PageOK
  <2>3. page[q].mut # Nobody => page[q].mut # r
    BY <1>2, <1>3 DEF PageInv, PageOK, Mutations
  <2>4. CASE q = p
    BY <1>3, <1>5, <1>6, <1>7, <1>9, <2>1, <2>3, <2>4 DEF PageInv, PageOK
  <2>5. CASE q # p
    BY <1>3, <1>7, <1>9, <2>1, <2>2, <2>3, <2>5 DEF PageInv, PageOK
  <2> QED BY <2>4, <2>5
<1>11. ASSUME NEW q \in Requests PROVE AskedOK(q)' /\ NamedOK(q)'
  <2>1. CASE q = r
    BY <1>5, <1>9, <2>1 DEF AskedOK, NamedOK, Mutations
  <2>2. CASE q # r
    <3>1. req'[q] = req[q] /\ req[q].page \in Pages \union {Nobody}
      BY <1>3, <1>9, <2>2 DEF TypeOK, RequestStates
    <3>2. \A a \in Pages : page'[a].mut = page[a].mut
      BY <1>6, <1>7
    <3> QED BY <1>3, <3>1, <3>2 DEF PageInv, AskedOK, NamedOK
  <2> QED BY <2>1, <2>2
<1>12. Pages' = Pages /\ scene' = scene
  BY <1>1 DEF Pages
<1> QED BY <1>3, <1>9, <1>10, <1>11, <1>12 DEF IInv, PageInv

LEMMA StartMutationOK ==
  ASSUME IInv, NEW p \in Pages, NEW kind \in Mutations, NEW a \in Accounts \union {Nobody}, NEW pw \in Nat,
         kind = "login" => a \in Accounts, StartMutation(p, kind, a, pw)
  PROVE  IInv'
<1> DEFINE r == Slot
           x == [NoRequest EXCEPT !.kind = kind, !.page = p, !.cookie = Cookie(p), !.acc = a, !.pw = pw, !.pc = "sent"]
           base == IF kind = "change" THEN page[p] ELSE NoRefresh(page[p])
           pg == [base EXCEPT !.mut = r]
<1>1. /\ Free # {} /\ Unlocked(p) /\ req' = [req EXCEPT ![r] = x] /\ page' = [page EXCEPT ![p] = pg]
      /\ UNCHANGED <<scene, jar, server>> /\ jar' \in [Browsers -> Tokens \union {Nobody}]
  BY DEF StartMutation, IInv, TypeOK
<1>2. /\ r \in Requests /\ req[r].kind = "none" /\ req[r].pc \notin Waiting
  BY <1>1, SlotIsFree, FreeIsIdle DEF IInv, Queued
<1>3. TypeOK /\ ServerInv /\ PageInv /\ scene \in Scenes
  BY DEF IInv
<1>4. page[p] \in PageStates /\ Cookie(p) \in Tokens \union {Nobody}
  BY <1>3, PagesAreNames DEF TypeOK, Cookie
<1>5. x \in RequestStates /\ x.kind = kind /\ x.page = p /\ x.acc = a /\ x.pc = "sent"
  BY <1>4 DEF NoRequest, RequestStates, Kinds, Mutations
<1>6. /\ pg \in PageStates /\ pg.mut = r /\ pg.done = page[p].done
      /\ pg.fresh # Nobody => pg.fresh = page[p].fresh
  <2>1. /\ base \in PageStates /\ base.done = page[p].done
        /\ base.fresh # Nobody => base.fresh = page[p].fresh
    BY <1>4, NoRefreshOK
  <2> HIDE DEF base
  <2> QED BY <2>1, <1>2 DEF PageStates
<1>0. page[p].mut = Nobody
  BY <1>1 DEF Unlocked
<1> HIDE DEF r, x, pg, base
<1>7. /\ page' \in [Pages -> PageStates] /\ page'[p] = pg
      /\ \A q \in Pages \ {p} : page'[q] = page[q]
  BY <1>1, <1>3, <1>6 DEF TypeOK
<1>8. x.pc \notin Waiting
  BY <1>5 DEF Waiting, Running
<1>9. TypeOK' /\ ServerInv' /\ req'[r] = x /\ \A q \in Requests \ {r} : req'[q] = req[q]
  BY <1>1, <1>2, <1>3, <1>5, <1>7, <1>8, SendingOK
<1>10. ASSUME NEW q \in Pages PROVE PageOK(q)'
  <2>1. page[q].fresh \in Requests \union {Nobody} /\ page[q].mut \in Requests \union {Nobody}
    BY <1>3 DEF TypeOK, PageStates
  <2>2. page[q].fresh # Nobody => page[q].fresh # r
    BY <1>2, <1>3 DEF PageInv, PageOK
  <2>3. page[q].mut # Nobody => page[q].mut # r
    BY <1>2, <1>3 DEF PageInv, PageOK, Mutations
  <2>4. CASE q = p
    BY <1>3, <1>5, <1>6, <1>7, <1>9, <2>1, <2>2, <2>4 DEF PageInv, PageOK
  <2>5. CASE q # p
    BY <1>3, <1>7, <1>9, <2>1, <2>2, <2>3, <2>5 DEF PageInv, PageOK
  <2> QED BY <2>4, <2>5
<1>11. ASSUME NEW q \in Requests PROVE AskedOK(q)' /\ NamedOK(q)'
  <2>1. CASE q = r
    BY <1>5, <1>6, <1>7, <1>9, <2>1 DEF AskedOK, NamedOK, Mutations
  <2>2. CASE q # r
    <3>1. req'[q] = req[q] /\ req[q].page \in Pages \union {Nobody}
      BY <1>3, <1>9, <2>2 DEF TypeOK, RequestStates
    <3>2. \A b \in Pages \ {p} : page'[b].mut = page[b].mut
      BY <1>7
    <3>3. req[q].kind \in Mutations => req[q].page # p
      BY <1>0, <1>3, <2>2, PagesAreNames, RequestNames DEF PageInv, AskedOK
    <3> QED BY <1>3, <3>1, <3>2, <3>3 DEF PageInv, AskedOK, NamedOK
  <2> QED BY <2>1, <2>2
<1>12. Pages' = Pages /\ scene' = scene
  BY <1>1 DEF Pages
<1> QED BY <1>3, <1>9, <1>10, <1>11, <1>12 DEF IInv, PageInv

LEMMA SetPasswordOK ==
  ASSUME IInv, NEW kind \in {"setup", "set"}, NEW a \in Accounts, SetPassword(kind, a) PROVE IInv'
<1> DEFINE r == Slot
           x == [NoRequest EXCEPT !.kind = kind, !.acc = a, !.pc = "sent"]
<1>1. /\ Free # {} /\ req' = [req EXCEPT ![r] = x] /\ UNCHANGED <<scene, jar, page, server>>
      /\ jar' \in [Browsers -> Tokens \union {Nobody}]
  BY DEF SetPassword, IInv, TypeOK
<1>2. /\ r \in Requests /\ req[r].kind = "none" /\ req[r].pc \notin Waiting
  BY <1>1, SlotIsFree, FreeIsIdle DEF IInv, Queued
<1>3. TypeOK /\ ServerInv /\ PageInv /\ scene \in Scenes
  BY DEF IInv
<1>5. x \in RequestStates /\ x.page = Nobody /\ x.acc = a /\ x.pc = "sent"
  BY DEF NoRequest, RequestStates, Kinds
<1> HIDE DEF r, x
<1>8. x.pc \notin Waiting /\ page' \in [Pages -> PageStates]
  BY <1>1, <1>3, <1>5 DEF Waiting, Running, TypeOK
<1>9. TypeOK' /\ ServerInv' /\ req'[r] = x /\ \A q \in Requests \ {r} : req'[q] = req[q]
  BY <1>1, <1>2, <1>3, <1>5, <1>8, SendingOK
<1>10. ASSUME NEW q \in Pages PROVE PageOK(q)'
  <2>1. page[q].fresh \in Requests \union {Nobody} /\ page[q].mut \in Requests \union {Nobody}
    BY <1>3 DEF TypeOK, PageStates
  <2>2. page[q].fresh # Nobody => page[q].fresh # r
    BY <1>2, <1>3 DEF PageInv, PageOK
  <2>3. page[q].mut # Nobody => page[q].mut # r
    BY <1>2, <1>3 DEF PageInv, PageOK, Mutations
  <2> QED BY <1>1, <1>3, <1>9, <2>1, <2>2, <2>3 DEF PageInv, PageOK
<1>11. ASSUME NEW q \in Requests PROVE AskedOK(q)' /\ NamedOK(q)'
  BY <1>1, <1>3, <1>5, <1>9 DEF PageInv, AskedOK, NamedOK
<1>12. Pages' = Pages /\ scene' = scene
  BY <1>1 DEF Pages
<1> QED BY <1>3, <1>9, <1>10, <1>11, <1>12 DEF IInv, PageInv

\* Each request concerns one page, which waits for at most one refresh and one mutation.
LEMMA WaitsFor ==
  ASSUME IInv, NEW r \in Requests, NEW q \in Pages
  PROVE  /\ page[q].fresh = r => req[r].page = q /\ req[r].kind = "get"
         /\ page[q].mut = r => req[r].page = q /\ req[r].kind \in Mutations
BY RequestNames DEF IInv, PageInv, PageOK

\* What an answer or its loss does to the pages: the one that waits for it waits no longer.
LEMMA ForgottenOK ==
  ASSUME IInv, NEW r \in Requests, UNCHANGED scene,
         \A q \in Requests \ {r} : req'[q] = req[q], req'[r].page = Nobody,
         (req'[r].kind = req[r].kind /\ req'[r].acc = req[r].acc) \/ req'[r].kind = "none",
         \A q \in Pages : /\ page'[q].fresh \in {Nobody, page[q].fresh} /\ page'[q].fresh # r
                          /\ page'[q].mut = IF page[q].mut = r THEN Nobody ELSE page[q].mut
                          /\ page'[q].fresh = Nobody \/ page'[q].done = page[q].done
  PROVE  PageInv'
<1>1. Pages' = Pages /\ PageInv /\ TypeOK
  BY DEF Pages, IInv
<1>2. ASSUME NEW q \in Pages PROVE PageOK(q)'
  <2>1. page[q].fresh \in Requests \union {Nobody} /\ page[q].mut \in Requests \union {Nobody}
    BY <1>1 DEF TypeOK, PageStates
  <2> QED BY <1>1, <2>1, RequestNames DEF PageInv, PageOK
<1>3. ASSUME NEW q \in Requests PROVE AskedOK(q)' /\ NamedOK(q)'
  <2>1. CASE q = r
    BY <1>1, <2>1 DEF AskedOK, NamedOK, PageInv
  <2>2. CASE q # r
    <3>1. req'[q] = req[q] /\ req[q].page \in Pages \union {Nobody}
      BY <1>1, <2>2 DEF TypeOK, RequestStates
    <3> QED BY <1>1, <2>2, <3>1 DEF PageInv, AskedOK, NamedOK
  <2> QED BY <2>1, <2>2
<1> QED BY <1>1, <1>2, <1>3 DEF PageInv

LEMMA RefreshedOK ==
  ASSUME IInv, NEW r \in Requests, NEW p \in Pages, req[r].page = p, NEW c \in Tokens \union {Nobody}
  PROVE  /\ Refreshed(r, c) \in [Pages -> PageStates]
         /\ \A q \in Pages \ {p} : Refreshed(r, c)[q] = page[q]
         /\ Refreshed(r, c)[p].fresh = Nobody /\ Refreshed(r, c)[p].mut = page[p].mut
<1> DEFINE seen == IF req[r].ok THEN req[r].shown ELSE page[p].shown
           retry == ~req[r].ok
           base == NoRefresh(page[p])
           pg == [base EXCEPT !.shown = seen, !.retry = retry]
           done == [page EXCEPT ![p] = pg]
<1>1. page \in [Pages -> PageStates] /\ page[p] \in PageStates /\ req[r] \in RequestStates
  BY DEF IInv, TypeOK
<1>2. seen \in Tokens \union {Nobody, Unknown} /\ retry \in BOOLEAN
  BY <1>1 DEF RequestStates, PageStates
<1>3. base \in PageStates /\ base.fresh = Nobody /\ base.mut = page[p].mut
  BY <1>1, NoRefreshOK
<1>4. Refreshed(r, c) = done \/ Refreshed(r, c) = [done EXCEPT ![p].sock = c]
  BY DEF Refreshed, Restarted
<1> HIDE DEF seen, retry, base
<1>5. pg \in PageStates /\ pg.fresh = Nobody /\ pg.mut = page[p].mut
  BY <1>2, <1>3 DEF PageStates
<1> HIDE DEF pg
<1>6. /\ done \in [Pages -> PageStates] /\ done[p] = pg /\ \A q \in Pages \ {p} : done[q] = page[q]
  BY <1>1, <1>5
<1> HIDE DEF done
<1>7. LET d == [done EXCEPT ![p].sock = c]
      IN  /\ d \in [Pages -> PageStates] /\ d[p].fresh = Nobody /\ d[p].mut = page[p].mut
          /\ \A q \in Pages \ {p} : d[q] = page[q]
  BY <1>5, <1>6 DEF PageStates
<1> QED BY <1>4, <1>5, <1>6, <1>7

LEMMA MutatedOK ==
  ASSUME IInv, NEW r \in Requests, NEW p \in Pages, req[r].page = p, page[p].mut = r, NEW c \in Tokens \union {Nobody}
  PROVE  /\ Mutated(r, c) \in [Pages -> PageStates]
         /\ \A q \in Pages \ {p} : /\ Mutated(r, c)[q].fresh = page[q].fresh /\ Mutated(r, c)[q].mut = page[q].mut
                                   /\ Mutated(r, c)[q].done = page[q].done
         /\ Mutated(r, c)[p].mut = Nobody
         /\ \/ Mutated(r, c)[p].fresh = Nobody
            \/ Mutated(r, c)[p].fresh = page[p].fresh /\ Mutated(r, c)[p].done = page[p].done
<1> DEFINE next == IF Supersedes(p) THEN NoRefresh(page[p]) ELSE page[p]
           done == IF req[r].kind = "change" THEN next.done ELSE next.done + 1
           new == [next EXCEPT !.mut = Nobody, !.shown = req[r].shown, !.retry = FALSE, !.done = done]
           pg == [page EXCEPT ![p] = new]
           res == [pg EXCEPT ![p].sock = c]
<1>1. page \in [Pages -> PageStates] /\ page[p] \in PageStates /\ req[r] \in RequestStates
  BY DEF IInv, TypeOK
<1>2. /\ next \in PageStates /\ next.done = page[p].done
      /\ next.fresh = Nobody \/ (next.fresh = page[p].fresh /\ req[r].kind = "change")
  BY <1>1, NoRefreshOK, RequestNames DEF Supersedes
<1>3. Mutated(r, c) = TellOthers(res, p)
  BY DEF Mutated, Restarted
<1> HIDE DEF next
<1>4. done \in Nat /\ (req[r].kind = "change" => done = page[p].done) /\ req[r].shown \in Tokens \union {Nobody, Unknown}
  BY <1>1, <1>2 DEF PageStates, RequestStates
<1> HIDE DEF done
<1>5. new \in PageStates /\ new.mut = Nobody /\ new.fresh = next.fresh /\ new.done = done
  BY <1>2, <1>4 DEF PageStates
<1> HIDE DEF new
<1>6. pg \in [Pages -> PageStates] /\ pg[p] = new /\ \A q \in Pages \ {p} : pg[q] = page[q]
  BY <1>1, <1>5
<1> HIDE DEF pg
<1>7. /\ res \in [Pages -> PageStates] /\ res[p] = [new EXCEPT !.sock = c]
      /\ \A q \in Pages \ {p} : res[q] = page[q]
  BY <1>5, <1>6 DEF PageStates
<1>8. res[p].mut = Nobody /\ res[p].fresh = next.fresh /\ res[p].done = done
  BY <1>5, <1>7 DEF PageStates
<1> HIDE DEF res
<1>9. ASSUME NEW q \in Pages
      PROVE  /\ TellOthers(res, p)[q] \in PageStates /\ TellOthers(res, p)[q].mut = res[q].mut
             /\ TellOthers(res, p)[q].fresh = res[q].fresh /\ TellOthers(res, p)[q].done = res[q].done
  <2>1. TellOthers(res, p)[q] = [res[q] EXCEPT !.told = TRUE] \/ TellOthers(res, p)[q] = res[q]
    BY DEF TellOthers
  <2>2. res[q] \in PageStates
    BY <1>7
  <2> QED BY <2>1, <2>2 DEF PageStates
<1>10. TellOthers(res, p) = [q \in Pages |-> TellOthers(res, p)[q]]
  BY DEF TellOthers
<1>11. Mutated(r, c) \in [Pages -> PageStates]
  BY <1>3, <1>9, <1>10
<1>12. \A q \in Pages \ {p} : /\ Mutated(r, c)[q].fresh = page[q].fresh /\ Mutated(r, c)[q].mut = page[q].mut
                              /\ Mutated(r, c)[q].done = page[q].done
  BY <1>3, <1>7, <1>9
<1>13. /\ Mutated(r, c)[p].mut = Nobody /\ Mutated(r, c)[p].fresh = next.fresh /\ Mutated(r, c)[p].done = done
  BY <1>3, <1>8, <1>9
<1>14. next.fresh = Nobody \/ (next.fresh = page[p].fresh /\ done = page[p].done)
  BY <1>2, <1>4
<1> QED BY <1>11, <1>12, <1>13, <1>14

LEMMA CookiesOK ==
  ASSUME IInv, NEW r \in Requests PROVE CookiesAfter(r) \in [Browsers -> Tokens \union {Nobody}]
<1>1. jar \in [Browsers -> Tokens \union {Nobody}] /\ req[r] \in RequestStates
  BY DEF IInv, TypeOK
<1>2. req[r].set \in Tokens \union {Nobody, Unknown} /\ req[r].page \in Pages \union {Nobody}
  BY <1>1 DEF RequestStates
<1> QED BY <1>1, <1>2 DEF CookiesAfter

LEMMA AnsweredOK == ASSUME IInv, NEW r \in Requests, Answered(r) PROVE IInv'
<1> DEFINE p == req[r].page
           c == CookiesAfter(r)[scene.home[p]]
<1>1. /\ req[r].pc = "answered" /\ jar' = CookiesAfter(r) /\ req' = [req EXCEPT ![r] = NoRequest]
      /\ page' = IF p = Nobody \/ (req[r].kind = "get" /\ page[p].fresh # r) THEN page
                 ELSE IF req[r].kind = "get" THEN Refreshed(r, c)
                 ELSE IF req[r].ok THEN Mutated(r, c)
                 ELSE [page EXCEPT ![p].mut = Nobody]
      /\ UNCHANGED <<scene, server>>
  BY DEF Answered
<1>2. TypeOK /\ ServerInv /\ PageInv /\ scene \in Scenes /\ page \in [Pages -> PageStates] /\ p \in Pages \union {Nobody}
  BY DEF IInv, TypeOK, RequestStates
<1>3. \A q \in Pages : /\ page[q].fresh = r => p = q /\ req[r].kind = "get"
                       /\ page[q].mut = r => p = q /\ req[r].kind \in Mutations
  BY WaitsFor
<1>4. /\ page' \in [Pages -> PageStates]
      /\ \A q \in Pages : /\ page'[q].fresh \in {Nobody, page[q].fresh} /\ page'[q].fresh # r
                          /\ page'[q].mut = IF page[q].mut = r THEN Nobody ELSE page[q].mut
                          /\ page'[q].fresh = Nobody \/ page'[q].done = page[q].done
  <2>1. CASE p = Nobody \/ (req[r].kind = "get" /\ page[p].fresh # r)
    <3>1. page' = page
      BY <1>1, <2>1
    <3>2. \A q \in Pages : page[q].fresh # r /\ page[q].mut # r
      BY <1>2, <1>3, <2>1, PagesAreNames DEF Mutations
    <3> QED BY <1>2, <3>1, <3>2
  <2>2. CASE p # Nobody /\ req[r].kind = "get" /\ page[p].fresh = r
    <3>1. p \in Pages /\ c \in Tokens \union {Nobody}
      BY <1>2, <2>2, CookiesOK, PagesAreNames
    <3>2. page' = Refreshed(r, c)
      BY <1>1, <2>2
    <3> HIDE DEF c
    <3>3. /\ page' \in [Pages -> PageStates] /\ page'[p].fresh = Nobody /\ page'[p].mut = page[p].mut
          /\ \A q \in Pages \ {p} : page'[q] = page[q]
      BY <3>1, <3>2, RefreshedOK
    <3>4. \A q \in Pages : page[q].mut # r
      BY <1>3, <2>2 DEF Mutations
    <3>5. \A q \in Pages \ {p} : page[q].fresh # r
      BY <1>3
    <3> QED BY <3>1, <3>3, <3>4, <3>5, RequestNames
  <2>3. CASE p # Nobody /\ req[r].kind # "get"
    <3>1. p \in Pages /\ c \in Tokens \union {Nobody}
      BY <1>2, <2>3, CookiesOK, PagesAreNames
    <3>2. page[p].mut = r
      BY <1>2, <2>3 DEF PageInv, AskedOK
    <3>3. \A q \in Pages : page[q].fresh # r
      BY <1>3, <2>3
    <3>4. \A q \in Pages \ {p} : page[q].mut # r
      BY <1>3
    <3>5. page' = IF req[r].ok THEN Mutated(r, c) ELSE [page EXCEPT ![p].mut = Nobody]
      BY <1>1, <2>3
    <3> HIDE DEF c
    <3>6. CASE req[r].ok
      <4>1. page' = Mutated(r, c)
        BY <3>5, <3>6
      <4>2. /\ page' \in [Pages -> PageStates] /\ page'[p].mut = Nobody
            /\ page'[p].fresh = Nobody \/ (page'[p].fresh = page[p].fresh /\ page'[p].done = page[p].done)
            /\ \A q \in Pages \ {p} : page'[q].fresh = page[q].fresh /\ page'[q].mut = page[q].mut
                                      /\ page'[q].done = page[q].done
        BY <3>1, <3>2, <4>1, MutatedOK
      <4> QED BY <3>1, <3>2, <3>3, <3>4, <4>2, RequestNames
    <3>7. CASE ~req[r].ok
      <4>1. page' = [page EXCEPT ![p].mut = Nobody]
        BY <3>5, <3>7
      <4>2. page' \in [Pages -> PageStates]
        BY <1>2, <3>1, <4>1 DEF PageStates
      <4>3. \A q \in Pages : page'[q].fresh = page[q].fresh /\ page'[q].done = page[q].done
        BY <1>2, <3>1, <4>1 DEF PageStates
      <4>4. page'[p].mut = Nobody /\ \A q \in Pages \ {p} : page'[q] = page[q]
        BY <1>2, <3>1, <4>1 DEF PageStates
      <4> QED BY <3>1, <3>2, <3>3, <3>4, <4>2, <4>3, <4>4
    <3> QED BY <3>6, <3>7
  <2> QED BY <2>1, <2>2, <2>3
<1>5. NoRequest \in RequestStates /\ NoRequest.pc \notin Waiting /\ req[r].pc \notin Waiting /\ NoRequest.kind = "none" /\ NoRequest.page = Nobody
  BY <1>1, NoRequestOK DEF Waiting, Running
<1>6. TypeOK' /\ ServerInv' /\ req'[r] = NoRequest /\ \A q \in Requests \ {r} : req'[q] = req[q]
  <2> HIDE DEF p
  <2>1. jar' \in [Browsers -> Tokens \union {Nobody}] /\ UNCHANGED server /\ UNCHANGED scene
    BY <1>1, CookiesOK
  <2>2. req' = [req EXCEPT ![r] = NoRequest]
    BY <1>1
  <2> QED BY <1>2, <1>4, <1>5, <2>1, <2>2, SendingOK
<1>7. PageInv'
  <2>1. UNCHANGED scene
    BY <1>1
  <2> QED BY <2>1, <1>4, <1>5, <1>6, ForgottenOK
<1> QED BY <1>1, <1>2, <1>6, <1>7 DEF IInv

LEMMA GiveUpOK == ASSUME IInv, NEW r \in Requests, GiveUp(r) PROVE IInv'
<1> DEFINE p == req[r].page
           lost == [req[r] EXCEPT !.page = Nobody]
<1>1. /\ req[r].kind # "none" /\ p # Nobody /\ UNCHANGED <<scene, server>>
      /\ \/ req' = [req EXCEPT ![r] = lost] /\ jar' = jar
         \/ req[r].pc = "sent" /\ req' = [req EXCEPT ![r] = NoRequest] /\ jar' = jar
         \/ req[r].pc = "answered" /\ req' = [req EXCEPT ![r] = NoRequest] /\ jar' = CookiesAfter(r)
      /\ page' = IF page[p].mut = r THEN [page EXCEPT ![p].mut = Nobody]
                 ELSE IF page[p].fresh = r THEN [page EXCEPT ![p] = [NoRefresh(@) EXCEPT !.retry = TRUE]]
                 ELSE page
  BY DEF GiveUp
<1>2. /\ TypeOK /\ ServerInv /\ PageInv /\ scene \in Scenes /\ page \in [Pages -> PageStates] /\ p \in Pages
      /\ req \in [Requests -> RequestStates] /\ jar \in [Browsers -> Tokens \union {Nobody}]
  BY <1>1 DEF IInv, TypeOK, RequestStates
<1>3. \A q \in Pages : /\ page[q].fresh = r => p = q /\ req[r].kind = "get"
                       /\ page[q].mut = r => p = q /\ req[r].kind \in Mutations
  BY WaitsFor
<1>4. /\ page' \in [Pages -> PageStates]
      /\ \A q \in Pages : /\ page'[q].fresh \in {Nobody, page[q].fresh} /\ page'[q].fresh # r
                          /\ page'[q].mut = IF page[q].mut = r THEN Nobody ELSE page[q].mut
                          /\ page'[q].fresh = Nobody \/ page'[q].done = page[q].done
  <2>1. CASE page[p].mut = r
    <3>1. page' = [page EXCEPT ![p].mut = Nobody]
      BY <1>1, <2>1
    <3>2. page' \in [Pages -> PageStates]
      BY <1>2, <3>1 DEF PageStates
    <3>3. \A q \in Pages : page'[q].fresh = page[q].fresh /\ page'[q].done = page[q].done
      BY <1>2, <3>1 DEF PageStates
    <3>4. page'[p].mut = Nobody /\ \A q \in Pages \ {p} : page'[q] = page[q]
      BY <1>2, <3>1 DEF PageStates
    <3>5. \A q \in Pages : page[q].fresh # r
      BY <1>2, <1>3, <2>1 DEF Mutations
    <3>6. \A q \in Pages \ {p} : page[q].mut # r
      BY <1>3
    <3> QED BY <1>2, <2>1, <3>2, <3>3, <3>4, <3>5, <3>6
  <2>2. CASE page[p].mut # r /\ page[p].fresh = r
    <3> DEFINE base == NoRefresh(page[p])
               new == [base EXCEPT !.retry = TRUE]
    <3>1. page' = [page EXCEPT ![p] = new]
      BY <1>1, <2>2
    <3>2. base \in PageStates /\ base.fresh = Nobody /\ base.mut = page[p].mut
      BY <1>2, NoRefreshOK
    <3> HIDE DEF base
    <3>3. new \in PageStates /\ new.fresh = Nobody /\ new.mut = page[p].mut
      BY <3>2 DEF PageStates
    <3> HIDE DEF new
    <3>4. page' \in [Pages -> PageStates] /\ page'[p] = new /\ \A q \in Pages \ {p} : page'[q] = page[q]
      BY <1>2, <3>1, <3>3
    <3>5. \A q \in Pages \ {p} : page[q].mut # r /\ page[q].fresh # r
      BY <1>3
    <3> QED BY <2>2, <3>3, <3>4, <3>5, RequestNames
  <2>3. CASE page[p].mut # r /\ page[p].fresh # r
    <3>1. page' = page /\ \A q \in Pages : page[q].mut # r /\ page[q].fresh # r
      BY <1>1, <1>3, <2>3
    <3> QED BY <1>2, <3>1
  <2> QED BY <2>1, <2>2, <2>3
<1>5. lost \in RequestStates /\ lost.page = Nobody /\ lost.kind = req[r].kind /\ lost.acc = req[r].acc /\ lost.pw = req[r].pw /\ lost.pc = req[r].pc
  BY <1>2 DEF RequestStates
<1>6. NoRequest \in RequestStates /\ NoRequest.pc \notin Waiting /\ NoRequest.kind = "none" /\ NoRequest.page = Nobody
  BY NoRequestOK DEF Waiting, Running
<1> HIDE DEF lost, p
<1>7. /\ TypeOK' /\ ServerInv' /\ \A q \in Requests \ {r} : req'[q] = req[q]
      /\ req'[r].page = Nobody /\ ((req'[r].kind = req[r].kind /\ req'[r].acc = req[r].acc) \/ req'[r].kind = "none")
  <2>1. CASE req' = [req EXCEPT ![r] = lost] /\ jar' = jar
    <3>1. req'[r] = lost /\ \A q \in Requests \ {r} : req'[q] = req[q]
      BY <1>2, <2>1
    <3>2. TypeOK'
      <4>1. RequestStates' = RequestStates /\ Pages' = Pages
        BY <1>1 DEF RequestStates, Pages
      <4>2. req' \in [Requests -> RequestStates]
        BY <1>2, <1>5, <2>1
      <4>3. UNCHANGED <<acct, tok, live, newer, queue>>
        BY <1>1 DEF server
      <4> QED BY <1>2, <1>4, <2>1, <4>1, <4>2, <4>3 DEF TypeOK
    <3>3. ServerInv'
      BY <1>1, <1>2, <1>5, <3>1, ServerKept
    <3> QED BY <1>5, <3>1, <3>2, <3>3
  <2>2. CASE req[r].pc \in {"sent", "answered"} /\ req' = [req EXCEPT ![r] = NoRequest] /\ jar' \in {jar, CookiesAfter(r)}
    <3>1. req[r].pc \notin Waiting /\ jar' \in [Browsers -> Tokens \union {Nobody}] /\ UNCHANGED server /\ UNCHANGED scene
      BY <1>1, <1>2, <2>2, CookiesOK DEF Waiting, Running
    <3>2. req' = [req EXCEPT ![r] = NoRequest]
      BY <2>2
    <3>3. TypeOK' /\ ServerInv' /\ req'[r] = NoRequest /\ \A q \in Requests \ {r} : req'[q] = req[q]
      BY <1>2, <1>4, <1>6, <3>1, <3>2, SendingOK
    <3> QED BY <1>6, <3>3
  <2> QED BY <1>1, <2>1, <2>2
<1>8. PageInv'
  <2>1. UNCHANGED scene
    BY <1>1
  <2> QED BY <2>1, <1>4, <1>7, ForgottenOK
<1> QED BY <1>1, <1>2, <1>7, <1>8 DEF IInv

-----------------------------------------------------------------------------
(* What the transactions do.                                               *)
-----------------------------------------------------------------------------
\* Sessions that remain keep counting or stop counting; none starts to.
LEMMA SessionsKept ==
  ASSUME TypeOK, SessionsOK, live' \subseteq live, acct' \in [Accounts -> AccountRows],
         \A t \in live' : /\ tok'[t].acc = tok[t].acc /\ tok'[t].rev = tok[t].rev /\ tok'[t].pw = tok[t].pw
                          /\ acct'[tok[t].acc].pw = acct[tok[t].acc].pw
                          /\ acct'[tok[t].acc].rev >= acct[tok[t].acc].rev
  PROVE  SessionsOK'
<1> SUFFICES ASSUME NEW t \in live'
             PROVE  /\ tok'[t].acc \in Accounts /\ tok'[t].rev <= acct'[tok'[t].acc].rev
                    /\ tok'[t].rev = acct'[tok'[t].acc].rev => tok'[t].pw = acct'[tok'[t].acc].pw
  BY DEF SessionsOK
<1>1. t \in live /\ t \in Tokens /\ tok[t] \in SessionRows /\ tok[t].acc \in Accounts
  BY DEF TypeOK, SessionsOK
<1>2. tok[t].rev \in Nat /\ acct[tok[t].acc].rev \in Nat /\ acct'[tok[t].acc].rev \in Nat
  BY <1>1 DEF TypeOK, SessionRows, AccountRows
<1> QED BY <1>1, <1>2 DEF SessionsOK

\* Sessions are revoked.
LEMMA RevokeOK ==
  ASSUME TypeOK, ServerInv, NEW revoked, SessionsBecome(revoked, {}), UNCHANGED tok
  PROVE  /\ OrderOK' /\ IsFiniteSet(live') /\ AtMostMaxSessions'
         /\ live' \in SUBSET Tokens /\ newer' \in [Tokens -> SUBSET Tokens] /\ live' = live \ revoked
<1>1. OrderOK /\ IsFiniteSet(live) /\ AtMostMaxSessions
  BY DEF ServerInv
<1>2. /\ OrderOK' /\ IsFiniteSet(live') /\ live' \in SUBSET Tokens /\ newer' \in [Tokens -> SUBSET Tokens]
      /\ live' = (live \ revoked) \union {}
  BY <1>1, OrderKept
<1>3. ASSUME NEW a \in Accounts PROVE Cardinality(SessionsOf(a)') <= MaxSessions
  <2>1. SessionsOf(a)' \subseteq SessionsOf(a) /\ IsFiniteSet(SessionsOf(a))
    BY <1>1, <1>2, FS_Subset DEF SessionsOf
  <2>2. /\ Cardinality(SessionsOf(a)') <= Cardinality(SessionsOf(a)) /\ Cardinality(SessionsOf(a)) <= MaxSessions
        /\ Cardinality(SessionsOf(a)') \in Nat /\ Cardinality(SessionsOf(a)) \in Nat
    BY <1>1, <2>1, FS_Subset, FS_CardinalityType DEF AtMostMaxSessions
  <2> QED BY <2>2, BoundsAssumption
<1>4. AtMostMaxSessions'
  BY <1>3 DEF AtMostMaxSessions
<1> QED BY <1>2, <1>4

\* A session is extended.
LEMMA ExtendOK ==
  ASSUME TypeOK, ServerInv, NEW t \in live, Extend(t), UNCHANGED acct
  PROVE  /\ OrderOK' /\ IsFiniteSet(live') /\ AtMostMaxSessions' /\ SessionsOK'
         /\ live' \in SUBSET Tokens /\ newer' \in [Tokens -> SUBSET Tokens] /\ tok' \in [Tokens -> SessionRows]
<1>1. /\ OrderOK /\ IsFiniteSet(live) /\ AtMostMaxSessions /\ SessionsOK /\ t \in Tokens
      /\ tok \in [Tokens -> SessionRows]
  BY DEF ServerInv, TypeOK
<1>2. /\ OrderOK' /\ IsFiniteSet(live') /\ live' \in SUBSET Tokens /\ newer' \in [Tokens -> SUBSET Tokens]
      /\ live' = (live \ {t}) \union {t}
  BY <1>1, OrderKept DEF Extend
<1>3. /\ tok' \in [Tokens -> SessionRows]
      /\ \A u \in Tokens : tok'[u].acc = tok[u].acc /\ tok'[u].rev = tok[u].rev /\ tok'[u].pw = tok[u].pw
  BY <1>1 DEF Extend, SessionRows
<1>4. live' = live /\ live \subseteq Tokens
  BY <1>2 DEF TypeOK
<1>5. SessionsOK'
  BY <1>1, <1>3, <1>4 DEF SessionsOK
<1>6. AtMostMaxSessions'
  <2>1. \A a \in Accounts : SessionsOf(a)' = SessionsOf(a)
    BY <1>3, <1>4 DEF SessionsOf
  <2> QED BY <1>1, <2>1 DEF AtMostMaxSessions
<1> QED BY <1>2, <1>3, <1>5, <1>6

\* replacePassword.
LEMMA ReplaceOK ==
  ASSUME TypeOK, ServerInv, NEW a \in Accounts, NEW kind, NEW pw \in Nat, kind = "setup" => acct[a].open,
         ReplacePassword(a, kind, pw)
  PROVE  /\ OrderOK' /\ IsFiniteSet(live') /\ AtMostMaxSessions' /\ SessionsOK' /\ GrantsOK'
         /\ live' \in SUBSET Tokens /\ newer' \in [Tokens -> SUBSET Tokens] /\ tok' = tok
         /\ acct' \in [Accounts -> AccountRows] /\ acct'[a].pw = pw
         /\ \A b \in Accounts \ {a} : acct'[b] = acct[b]
<1> DEFINE open == acct[a].open /\ ~Consumes(a, kind)
           uses == IF kind = "setup" THEN acct[a].uses + 1 ELSE acct[a].uses
           rev == acct[a].rev + 1
           row == [acct[a] EXCEPT !.pw = pw, !.rev = rev, !.legacy = FALSE, !.open = open, !.uses = uses]
<1>1. acct' = [acct EXCEPT ![a] = row] /\ SessionsBecome(SessionsOf(a), {}) /\ tok' = tok
  BY DEF ReplacePassword
<1>2. /\ acct \in [Accounts -> AccountRows] /\ acct[a] \in AccountRows /\ SessionsOK /\ GrantsOK
      /\ \A t \in live : tok[t].acc \in Accounts
  BY DEF TypeOK, ServerInv, SessionsOK
<1>3. open \in BOOLEAN /\ uses \in Nat /\ rev \in Nat /\ rev >= acct[a].rev
  BY <1>2 DEF AccountRows
<1>4. uses + (IF open THEN 1 ELSE 0) <= acct[a].grants
  <2>1. /\ acct[a].uses + (IF acct[a].open THEN 1 ELSE 0) <= acct[a].grants
        /\ acct[a].uses \in Nat /\ acct[a].grants \in Nat
    BY <1>2 DEF GrantsOK, AccountRows
  <2>2. CASE kind = "setup"
    BY <2>1, <2>2 DEF Consumes
  <2>3. CASE kind # "setup"
    BY <2>1, <2>3 DEF Consumes
  <2> QED BY <2>2, <2>3
<1> HIDE DEF open, uses, rev
<1>5. /\ row \in AccountRows /\ row.pw = pw /\ row.open = open
      /\ row.uses = uses /\ row.grants = acct[a].grants
  BY <1>2, <1>3 DEF AccountRows
<1> HIDE DEF row
<1>6. acct' \in [Accounts -> AccountRows] /\ acct'[a] = row /\ \A b \in Accounts \ {a} : acct'[b] = acct[b]
  BY <1>1, <1>2, <1>5
<1>7. /\ OrderOK' /\ IsFiniteSet(live') /\ AtMostMaxSessions'
      /\ live' \in SUBSET Tokens /\ newer' \in [Tokens -> SUBSET Tokens] /\ live' = live \ SessionsOf(a)
  BY <1>1, RevokeOK
<1>8. GrantsOK'
  <2>1. ASSUME NEW b \in Accounts PROVE acct'[b].uses + (IF acct'[b].open THEN 1 ELSE 0) <= acct'[b].grants
    <3>1. CASE b = a
      BY <1>4, <1>5, <1>6, <3>1
    <3>2. CASE b # a
      BY <1>2, <1>6, <3>2 DEF GrantsOK
    <3> QED BY <3>1, <3>2
  <2> QED BY <2>1 DEF GrantsOK
<1>9. SessionsOK'
  <2>1. \A t \in live' : /\ tok'[t] = tok[t] /\ acct'[tok[t].acc] = acct[tok[t].acc] /\ tok[t].acc \in Accounts
    BY <1>1, <1>2, <1>6, <1>7 DEF SessionsOf
  <2>2. \A t \in live' : acct[tok[t].acc].rev >= acct[tok[t].acc].rev
    BY <1>2, <2>1 DEF AccountRows
  <2> QED BY <1>2, <1>6, <1>7, <2>1, <2>2, SessionsKept
<1> QED BY <1>1, <1>5, <1>6, <1>7, <1>8, <1>9

\* createBoundedSession.
LEMMA CreateOK ==
  ASSUME TypeOK, ServerInv, NEW a \in Accounts, NEW pw, pw = acct[a].pw, Tokens \ Referenced # {},
         CreateSession(a, pw)
  PROVE  /\ OrderOK' /\ IsFiniteSet(live') /\ AtMostMaxSessions' /\ SessionsOK' /\ acct' = acct
         /\ live' \in SUBSET Tokens /\ newer' \in [Tokens -> SUBSET Tokens] /\ tok' \in [Tokens -> SessionRows]
         /\ NewToken \in Tokens
<1> DEFINE n == NewToken
           row == [acc |-> a, rev |-> acct[a].rev, pw |-> pw, old |-> FALSE]
<1>1. tok' = [tok EXCEPT ![n] = row] /\ SessionsBecome(TooMany(a), {n}) /\ acct' = acct
  BY DEF CreateSession
<1>2. n \in Tokens /\ n \notin live
  <2>1. Tokens \ Referenced \in SUBSET Nat
    BY BoundsAssumption
  <2>2. \E x \in Tokens \ Referenced : \A y \in Tokens \ Referenced : x <= y
    BY <2>1, NatLeast
  <2>3. n \in Tokens \ Referenced
    BY <2>2 DEF NewToken, Min
  <2> QED BY <2>3 DEF Referenced
<1>3. OrderOK /\ IsFiniteSet(live) /\ AtMostMaxSessions /\ SessionsOK /\ tok \in [Tokens -> SessionRows] /\ live \subseteq Tokens
  BY DEF ServerInv, TypeOK
<1>4. row \in SessionRows /\ row.acc = a /\ row.rev = acct[a].rev /\ row.pw = acct[a].pw /\ acct[a].rev \in Nat
  BY DEF TypeOK, SessionRows, AccountRows
<1> HIDE DEF n, row
<1>5. /\ OrderOK' /\ IsFiniteSet(live') /\ live' \in SUBSET Tokens /\ newer' \in [Tokens -> SUBSET Tokens]
      /\ live' = (live \ TooMany(a)) \union {n}
  BY <1>1, <1>2, <1>3, OrderKept
<1>6. tok' \in [Tokens -> SessionRows] /\ tok'[n] = row /\ \A t \in live : tok'[t] = tok[t]
  BY <1>1, <1>2, <1>3, <1>4
<1>7. SessionsOK'
  <2>1. ASSUME NEW t \in live'
        PROVE  /\ tok'[t].acc \in Accounts /\ tok'[t].rev <= acct'[tok'[t].acc].rev
               /\ tok'[t].rev = acct'[tok'[t].acc].rev => tok'[t].pw = acct'[tok'[t].acc].pw
    <3>1. CASE t = n
      BY <1>1, <1>4, <1>6, <3>1
    <3>2. CASE t # n
      BY <1>1, <1>3, <1>5, <1>6, <3>2 DEF SessionsOK
    <3> QED BY <3>1, <3>2
  <2> QED BY <2>1 DEF SessionsOK
<1>8. ASSUME NEW b \in Accounts PROVE Cardinality(SessionsOf(b)') <= MaxSessions
  <2>0. /\ IsFiniteSet(SessionsOf(b)) /\ Cardinality(SessionsOf(b)) \in Nat /\ Cardinality(SessionsOf(b)) <= MaxSessions
        /\ MaxSessions \in Nat \ {0} /\ SessionsOf(b) \subseteq live
    BY <1>3, FS_Subset, FS_CardinalityType, BoundsAssumption DEF AtMostMaxSessions, SessionsOf
  <2>1. CASE b # a
    <3>1. SessionsOf(b)' \subseteq SessionsOf(b)
      BY <1>4, <1>5, <1>6, <2>1 DEF SessionsOf
    <3>2. Cardinality(SessionsOf(b)') <= Cardinality(SessionsOf(b)) /\ Cardinality(SessionsOf(b)') \in Nat
      BY <2>0, <3>1, FS_Subset, FS_CardinalityType
    <3> QED BY <2>0, <3>2
  <2>2. CASE b = a
    <3> DEFINE S == SessionsOf(a)
               K == {t \in S : ~(Cardinality(newer[t] \intersect S) >= MaxSessions - 1)}
    <3>1. SessionsOf(a)' = K \union {n} /\ n \notin K
      BY <1>2, <1>4, <1>5, <1>6 DEF SessionsOf, TooMany
    <3>2. MaxSessions - 1 \in Nat /\ S \in SUBSET live
      BY <2>0 DEF SessionsOf
    <3>3. Cardinality(K) <= MaxSessions - 1
      <4> HIDE DEF S
      <4> QED BY <1>3, <3>2, FewNewest
    <3>4. IsFiniteSet(K) /\ Cardinality(K) \in Nat
      BY <2>0, <2>2, FS_Subset, FS_CardinalityType
    <3> HIDE DEF K
    <3>5. Cardinality(K \union {n}) = Cardinality(K) + 1
      BY <3>1, <3>4, FS_AddElement
    <3> QED BY <2>0, <2>2, <3>1, <3>3, <3>4, <3>5
  <2> QED BY <2>1, <2>2
<1>9. AtMostMaxSessions'
  BY <1>8 DEF AtMostMaxSessions
<1> QED BY <1>1, <1>2, <1>5, <1>6, <1>7, <1>9 DEF n

-----------------------------------------------------------------------------
(* Steps of the server.                                                    *)
-----------------------------------------------------------------------------
\* The pages wait for the same requests as before.
LEMMA PagesKept ==
  ASSUME TypeOK, PageInv, UNCHANGED scene, UNCHANGED page,
         \A q \in Requests : /\ req'[q].kind = req[q].kind /\ req'[q].page = req[q].page /\ req'[q].after = req[q].after
                             /\ req'[q].kind \in {"login", "setup", "set"} => req'[q].acc = req[q].acc
  PROVE  PageInv'
<1>1. Pages' = Pages /\ \A p \in Pages : /\ page[p].fresh \in Requests \union {Nobody}
                                         /\ page[p].mut \in Requests \union {Nobody}
  BY DEF Pages, TypeOK, PageStates
<1> QED BY <1>1 DEF PageInv, PageOK, AskedOK, NamedOK

\* A step of the server changes one request and what it keeps in its tables.
LEMMA ServerSteps ==
  ASSUME IInv, UNCHANGED scene, UNCHANGED jar, UNCHANGED page, NEW r \in Requests,
         req' \in [Requests -> RequestStates], \A q \in Requests \ {r} : req'[q] = req[q],
         req'[r].kind = req[r].kind, req'[r].page = req[r].page, req'[r].after = req[r].after,
         req'[r].acc = req[r].acc \/ req[r].kind = "change",
         acct' \in [Accounts -> AccountRows], tok' \in [Tokens -> SessionRows], live' \in SUBSET Tokens,
         newer' \in [Tokens -> SUBSET Tokens], queue' \in [Accounts -> Seq(Requests)],
         QueueOK', HandlersOK', SessionsOK', GrantsOK', OrderOK', IsFiniteSet(live'), AtMostMaxSessions'
  PROVE  IInv'
<1>1. TypeOK /\ PageInv /\ scene \in Scenes
  BY DEF IInv
<1>2. RequestStates' = RequestStates /\ Pages' = Pages
  BY DEF RequestStates, Pages
<1>3. TypeOK'
  BY <1>1, <1>2 DEF TypeOK
<1>4. ServerInv'
  BY DEF ServerInv
<1>5. \A q \in Requests : /\ req'[q].kind = req[q].kind /\ req'[q].page = req[q].page /\ req'[q].after = req[q].after
                          /\ req'[q].kind \in {"login", "setup", "set"} => req'[q].acc = req[q].acc
  OBVIOUS
<1>6. PageInv'
  BY <1>1, <1>5, PagesKept
<1> QED BY <1>1, <1>3, <1>4, <1>6 DEF IInv

\* A request is answered.
LEMMA ReplyOK ==
  ASSUME TypeOK, NEW r \in Requests, NEW ok \in BOOLEAN, NEW shown \in Tokens \union {Nobody},
         NEW set \in Tokens \union {Nobody, Unknown}, Reply(r, ok, shown, set)
  PROVE  /\ req' \in [Requests -> RequestStates] /\ \A q \in Requests \ {r} : req'[q] = req[q]
         /\ req'[r].kind = req[r].kind /\ req'[r].page = req[r].page /\ req'[r].after = req[r].after
         /\ req'[r].acc = req[r].acc /\ req'[r].pw = req[r].pw
         /\ req'[r].pc = "answered" /\ req'[r].pc \notin Waiting
<1> DEFINE x == [req[r] EXCEPT !.pc = "answered", !.ok = ok, !.shown = shown, !.set = set]
<1>1. req' = [req EXCEPT ![r] = x] /\ req \in [Requests -> RequestStates] /\ req[r] \in RequestStates
  BY DEF Reply, TypeOK
<1>2. /\ x \in RequestStates /\ x.kind = req[r].kind /\ x.page = req[r].page /\ x.after = req[r].after
      /\ x.acc = req[r].acc /\ x.pw = req[r].pw /\ x.pc = "answered"
  BY <1>1 DEF RequestStates
<1>3. x.pc \notin Waiting
  BY <1>2 DEF Waiting, Running
<1> HIDE DEF x
<1> QED BY <1>1, <1>2, <1>3

\* While the first of a queue runs, only its account changes, and nobody else's knowledge is affected.
LEMMA HandlersKept ==
  ASSUME TypeOK, QueueOK, HandlersOK, NEW r \in Requests, \A q \in Requests \ {r} : req'[q] = req[q],
         \A a \in Accounts : acct'[a].pw = acct[a].pw \/ (a = req[r].acc /\ req[r].pc \in Running),
         req'[r].pc \in {"current", "create"} => req'[r].kind \in {"login", "change"},
         req'[r].pc = "current" => req'[r].kind = "login",
         Knows(r)' => req'[r].pw = acct'[req'[r].acc].pw
  PROVE  HandlersOK'
<1> SUFFICES ASSUME NEW q \in Requests
             PROVE  /\ req'[q].pc \in {"current", "create"} => req'[q].kind \in {"login", "change"}
                    /\ req'[q].pc = "current" => req'[q].kind = "login"
                    /\ Knows(q)' => req'[q].pw = acct'[req'[q].acc].pw
  BY DEF HandlersOK
<1>1. CASE q = r
  BY <1>1
<1>2. CASE q # r
  <2>1. req'[q] = req[q]
    BY <1>2
  <2>2. ASSUME Knows(q) PROVE req[q].pw = acct'[req[q].acc].pw
    <3>1. req[q].pc \in Running /\ req[q].pw = acct[req[q].acc].pw
      BY <2>2 DEF Knows, Running, HandlersOK
    <3>2. req[q].acc \in Accounts
      BY <3>1, OneRuns
    <3>3. ~(req[q].acc = req[r].acc /\ req[r].pc \in Running)
      BY <1>2, <3>1, OneRuns
    <3> QED BY <3>1, <3>2, <3>3
  <2>3. Knows(q)' <=> Knows(q)
    BY <2>1 DEF Knows
  <2> QED BY <2>1, <2>2, <2>3 DEF HandlersOK
<1> QED BY <1>1, <1>2

\* Leaving a queue keeps it one of requests.
LEMMA LeaveOK ==
  ASSUME TypeOK, NEW r \in Requests, req[r].acc \in Accounts, AtHead(r), Leave(r)
  PROVE  queue' \in [Accounts -> Seq(Requests)]
<1>1. /\ queue \in [Accounts -> Seq(Requests)] /\ queue[req[r].acc] \in Seq(Requests) /\ queue[req[r].acc] # <<>>
      /\ queue' = [queue EXCEPT ![req[r].acc] = Tail(queue[req[r].acc])]
  BY DEF TypeOK, AtHead, Leave
<1>2. Tail(queue[req[r].acc]) \in Seq(Requests)
  BY <1>1
<1> QED BY <1>1, <1>2

LEMMA GetSessionOK == ASSUME IInv, NEW r \in Requests, GetSession(r) PROVE IInv'
<1> DEFINE t == req[r].cookie
<1>1. /\ req[r].kind = "get" /\ req[r].pc = "sent" /\ UNCHANGED <<scene, jar, page, acct, queue>>
      /\ \/ Reply(r, TRUE, Nobody, Unknown) /\ UNCHANGED <<tok, live, newer>>
         \/ t \in live /\ Reply(r, TRUE, t, Unknown) /\ UNCHANGED <<tok, live, newer>>
         \/ t \in live /\ Reply(r, TRUE, t, t) /\ Extend(t)
  BY DEF GetSession, still, Valid
<1>2. TypeOK /\ ServerInv /\ live \subseteq Tokens
  BY DEF IInv, TypeOK
<1> HIDE DEF t
<1>3. /\ req' \in [Requests -> RequestStates] /\ \A q \in Requests \ {r} : req'[q] = req[q]
      /\ req'[r].kind = req[r].kind /\ req'[r].page = req[r].page /\ req'[r].after = req[r].after
      /\ req'[r].acc = req[r].acc /\ req'[r].pc \notin Waiting
  <2>1. CASE Reply(r, TRUE, Nobody, Unknown)
    BY <1>2, <2>1, ReplyOK
  <2>2. CASE t \in live /\ Reply(r, TRUE, t, Unknown)
    BY <1>2, <2>2, ReplyOK
  <2>3. CASE t \in live /\ Reply(r, TRUE, t, t)
    BY <1>2, <2>3, ReplyOK
  <2> QED BY <1>1, <2>1, <2>2, <2>3
<1>4. QueueOK' /\ HandlersOK'
  <2>1. QueueOK /\ HandlersOK /\ req[r].pc \notin Waiting
    BY <1>1, <1>2 DEF ServerInv, Waiting, Running
  <2> QED BY <1>1, <1>2, <1>3, <2>1, QueueKept
<1>5. /\ OrderOK' /\ IsFiniteSet(live') /\ AtMostMaxSessions' /\ SessionsOK'
      /\ live' \in SUBSET Tokens /\ newer' \in [Tokens -> SUBSET Tokens] /\ tok' \in [Tokens -> SessionRows]
  <2>1. CASE UNCHANGED <<tok, live, newer>>
    BY <1>1, <1>2, <2>1 DEF ServerInv, OrderOK, AtMostMaxSessions, SessionsOf, SessionsOK, TypeOK
  <2>2. CASE t \in live /\ Extend(t)
    BY <1>1, <1>2, <2>2, ExtendOK
  <2> QED BY <1>1, <2>1, <2>2
<1>6. acct' \in [Accounts -> AccountRows] /\ queue' \in [Accounts -> Seq(Requests)] /\ GrantsOK'
  BY <1>1, <1>2 DEF TypeOK, ServerInv, GrantsOK
<1> QED BY <1>1, <1>3, <1>4, <1>5, <1>6, ServerSteps

LEMMA DeleteSessionOK == ASSUME IInv, NEW r \in Requests, DeleteSession(r) PROVE IInv'
<1>1. /\ req[r].pc = "sent" /\ UNCHANGED <<scene, jar, page, acct, queue, tok>>
      /\ Reply(r, TRUE, Nobody, Nobody) /\ SessionsBecome({req[r].cookie}, {})
  BY DEF DeleteSession, still, RevokeSession
<1>2. TypeOK /\ ServerInv
  BY DEF IInv
<1>3. /\ req' \in [Requests -> RequestStates] /\ \A q \in Requests \ {r} : req'[q] = req[q]
      /\ req'[r].kind = req[r].kind /\ req'[r].page = req[r].page /\ req'[r].after = req[r].after
      /\ req'[r].acc = req[r].acc /\ req'[r].pc \notin Waiting
  BY <1>1, <1>2, ReplyOK
<1>4. QueueOK' /\ HandlersOK'
  <2>1. QueueOK /\ HandlersOK /\ req[r].pc \notin Waiting
    BY <1>1, <1>2 DEF ServerInv, Waiting, Running
  <2> QED BY <1>1, <1>2, <1>3, <2>1, QueueKept
<1>5. /\ OrderOK' /\ IsFiniteSet(live') /\ AtMostMaxSessions'
      /\ live' \in SUBSET Tokens /\ newer' \in [Tokens -> SUBSET Tokens] /\ live' = live \ {req[r].cookie}
  BY <1>1, <1>2, RevokeOK
<1>6. SessionsOK'
  BY <1>1, <1>2, <1>5 DEF ServerInv, SessionsOK
<1>7. /\ acct' \in [Accounts -> AccountRows] /\ queue' \in [Accounts -> Seq(Requests)] /\ GrantsOK'
      /\ tok' \in [Tokens -> SessionRows]
  BY <1>1, <1>2 DEF TypeOK, ServerInv, GrantsOK
<1> QED BY <1>1, <1>3, <1>4, <1>5, <1>6, <1>7, ServerSteps

\* A request is put at the end of the queue of an account.
LEMMA QueueEnters ==
  ASSUME TypeOK, QueueOK, NEW r \in Requests, req[r].pc \notin Waiting, NEW a0 \in Accounts, queue' = Enqueued(a0, r),
         \A q \in Requests \ {r} : req'[q] = req[q], req'[r].acc = a0, req'[r].kind \in Queued, req'[r].pc = "queued"
  PROVE  QueueOK' /\ queue' \in [Accounts -> Seq(Requests)]
<1>1. \A a \in Accounts : queue[a] \in Seq(Requests) /\ \A i \in 1..Len(queue[a]) : queue[a][i] \in Requests
  BY DEF TypeOK
<1>2. \A a \in Accounts : \A i \in 1..Len(queue[a]) :
        /\ req[queue[a][i]].acc = a /\ req[queue[a][i]].pc \in Waiting
        /\ i > 1 => req[queue[a][i]].pc = "queued"
        /\ \A j \in 1..Len(queue[a]) : queue[a][i] = queue[a][j] => i = j
  BY DEF QueueOK
<1>3. \A a \in Accounts : \A i \in 1..Len(queue[a]) : queue[a][i] # r /\ req'[queue[a][i]] = req[queue[a][i]]
  BY <1>1, <1>2
<1>4. /\ queue' = [queue EXCEPT ![a0] = Append(queue[a0], r)] /\ queue \in [Accounts -> Seq(Requests)]
  BY DEF Enqueued, TypeOK
<1>5. /\ queue' \in [Accounts -> Seq(Requests)] /\ queue'[a0] = Append(queue[a0], r)
      /\ \A a \in Accounts \ {a0} : queue'[a] = queue[a]
  BY <1>1, <1>4
<1>6. /\ Len(queue'[a0]) = Len(queue[a0]) + 1 /\ queue'[a0][Len(queue[a0]) + 1] = r
      /\ \A i \in 1..Len(queue[a0]) : queue'[a0][i] = queue[a0][i]
      /\ Len(queue[a0]) \in Nat
  BY <1>1, <1>5
<1>7. ASSUME NEW q \in Requests, req'[q].pc \in Waiting
      PROVE  /\ req'[q].kind \in Queued /\ req'[q].acc \in Accounts
             /\ \E i \in 1..Len(queue'[req'[q].acc]) : queue'[req'[q].acc][i] = q
  <2>1. CASE q = r
    <3>1. Len(queue[a0]) + 1 \in 1..Len(queue'[a0]) /\ queue'[a0][Len(queue[a0]) + 1] = r
      BY <1>6
    <3> QED BY <2>1, <3>1
  <2>2. CASE q # r
    <3>1. /\ req'[q] = req[q] /\ req[q].kind \in Queued /\ req[q].acc \in Accounts
          /\ \E i \in 1..Len(queue[req[q].acc]) : queue[req[q].acc][i] = q
      BY <1>7, <2>2 DEF QueueOK
    <3>2. CASE req[q].acc = a0
      BY <1>6, <3>1, <3>2
    <3>3. CASE req[q].acc # a0
      BY <1>5, <3>1, <3>3
    <3> QED BY <3>2, <3>3
  <2> QED BY <2>1, <2>2
<1>8. ASSUME NEW a \in Accounts, NEW i \in 1..Len(queue'[a])
      PROVE  /\ req'[queue'[a][i]].acc = a /\ req'[queue'[a][i]].pc \in Waiting
             /\ i > 1 => req'[queue'[a][i]].pc = "queued"
             /\ \A j \in 1..Len(queue'[a]) : queue'[a][i] = queue'[a][j] => i = j
  <2>1. CASE a # a0
    <3>1. queue'[a] = queue[a]
      BY <1>5, <2>1
    <3> QED BY <1>2, <1>3, <1>8, <3>1
  <2>2. CASE a = a0 /\ i = Len(queue[a0]) + 1
    <3>1. queue'[a0][i] = r /\ "queued" \in Waiting
      BY <1>6, <2>2 DEF Waiting
    <3>2. \A j \in 1..Len(queue'[a0]) : queue'[a0][j] = r => j = i
      BY <1>3, <1>6, <2>2
    <3> QED BY <2>2, <3>1, <3>2
  <2>3. CASE a = a0 /\ i # Len(queue[a0]) + 1
    <3>1. i \in 1..Len(queue[a0]) /\ queue'[a0][i] = queue[a0][i] /\ queue[a0][i] # r
      BY <1>3, <1>6, <1>8, <2>3
    <3>2. /\ req[queue[a0][i]].acc = a0 /\ req[queue[a0][i]].pc \in Waiting
          /\ i > 1 => req[queue[a0][i]].pc = "queued"
          /\ req'[queue[a0][i]] = req[queue[a0][i]]
      BY <1>2, <1>3, <3>1
    <3>3. ASSUME NEW j \in 1..Len(queue'[a0]), queue'[a0][i] = queue'[a0][j] PROVE i = j
      <4>1. j # Len(queue[a0]) + 1
        BY <1>6, <3>1, <3>3
      <4>2. j \in 1..Len(queue[a0]) /\ queue[a0][i] = queue[a0][j]
        BY <1>6, <3>1, <3>3, <4>1
      <4> QED BY <1>2, <3>1, <4>2
    <3> QED BY <2>3, <3>1, <3>2, <3>3
  <2> QED BY <2>1, <2>2, <2>3
<1> QED BY <1>5, <1>7, <1>8 DEF QueueOK

\* The tables are as they were.
LEMMA TablesKept ==
  ASSUME IInv, UNCHANGED <<acct, tok, live, newer>>
  PROVE  /\ OrderOK' /\ IsFiniteSet(live') /\ AtMostMaxSessions' /\ SessionsOK' /\ GrantsOK'
         /\ live' \in SUBSET Tokens /\ newer' \in [Tokens -> SUBSET Tokens] /\ tok' \in [Tokens -> SessionRows]
         /\ acct' \in [Accounts -> AccountRows]
BY DEF IInv, ServerInv, OrderOK, AtMostMaxSessions, SessionsOf, SessionsOK, GrantsOK, TypeOK

LEMMA EnterOK == ASSUME IInv, NEW r \in Requests, Enter(r) PROVE IInv'
<1> DEFINE a == IF req[r].kind = "change" THEN tok[req[r].cookie].acc ELSE req[r].acc
           x == [req[r] EXCEPT !.acc = a, !.pc = "queued"]
<1>1. /\ req[r].kind \in Queued /\ req[r].pc = "sent" /\ UNCHANGED <<scene, jar, page, acct, tok, live, newer>>
      /\ \/ Admitted(r) /\ queue' = Enqueued(a, r) /\ req' = [req EXCEPT ![r] = x]
         \/ Fails(r) /\ UNCHANGED queue
  BY DEF Enter, still, Queued
<1>2. /\ TypeOK /\ ServerInv /\ QueueOK /\ HandlersOK /\ req \in [Requests -> RequestStates] /\ req[r] \in RequestStates
      /\ req[r].pc \notin Waiting /\ PageInv
  BY <1>1 DEF IInv, ServerInv, TypeOK, Waiting, Running
<1>3. CASE Admitted(r) /\ queue' = Enqueued(a, r) /\ req' = [req EXCEPT ![r] = x]
  <2>1. a \in Accounts
    <3>1. CASE req[r].kind = "change"
      BY <1>2, <1>3, <3>1 DEF Admitted, Valid, ServerInv, SessionsOK
    <3>2. CASE req[r].kind # "change"
      BY <1>1, <1>2, <3>2 DEF PageInv, NamedOK, Queued
    <3> QED BY <3>1, <3>2
  <2>2. a = req[r].acc \/ req[r].kind = "change"
    OBVIOUS
  <2> HIDE DEF a
  <2>3. /\ x \in RequestStates /\ x.kind = req[r].kind /\ x.page = req[r].page /\ x.after = req[r].after
        /\ x.acc = a /\ x.pc = "queued"
    BY <1>2, <2>1 DEF RequestStates
  <2> HIDE DEF x
  <2>4. req' \in [Requests -> RequestStates] /\ req'[r] = x /\ \A q \in Requests \ {r} : req'[q] = req[q]
    BY <1>2, <1>3, <2>3
  <2>5. QueueOK' /\ queue' \in [Accounts -> Seq(Requests)]
    BY <1>1, <1>2, <1>3, <2>1, <2>3, <2>4, QueueEnters
  <2>6. HandlersOK'
    <3>1. ~Knows(r)' /\ req'[r].pc = "queued"
      BY <2>3, <2>4 DEF Knows, Running
    <3> QED BY <1>1, <1>2, <2>4, <3>1, HandlersKept
  <2> QED BY <1>1, <2>2, <2>3, <2>4, <2>5, <2>6, TablesKept, ServerSteps
<1>4. CASE Fails(r) /\ UNCHANGED queue
  <2>1. /\ req' \in [Requests -> RequestStates] /\ \A q \in Requests \ {r} : req'[q] = req[q]
        /\ req'[r].kind = req[r].kind /\ req'[r].page = req[r].page /\ req'[r].after = req[r].after
        /\ req'[r].acc = req[r].acc /\ req'[r].pc \notin Waiting
    BY <1>2, <1>4, ReplyOK DEF Fails
  <2>2. QueueOK' /\ HandlersOK'
    BY <1>1, <1>2, <1>4, <2>1, QueueKept
  <2>3. queue' \in [Accounts -> Seq(Requests)]
    BY <1>2, <1>4 DEF TypeOK
  <2> QED BY <1>1, <2>1, <2>2, <2>3, TablesKept, ServerSteps
<1> QED BY <1>1, <1>3, <1>4

\* The first of a queue fails, is answered or runs on: what remains to be shown is what it did to the tables.
LEMMA LeavesOK ==
  ASSUME IInv, NEW r \in Requests, req[r].pc \in Waiting, AtHead(r), Leave(r), UNCHANGED scene, UNCHANGED jar, UNCHANGED page,
         NEW ok \in BOOLEAN, NEW shown \in Tokens \union {Nobody}, NEW set \in Tokens \union {Nobody, Unknown},
         Reply(r, ok, shown, set),
         \A a \in Accounts : acct'[a].pw = acct[a].pw \/ (a = req[r].acc /\ req[r].pc \in Running),
         acct' \in [Accounts -> AccountRows], tok' \in [Tokens -> SessionRows], live' \in SUBSET Tokens,
         newer' \in [Tokens -> SUBSET Tokens], SessionsOK', GrantsOK', OrderOK', IsFiniteSet(live'), AtMostMaxSessions'
  PROVE  IInv'
<1>1. TypeOK /\ QueueOK /\ HandlersOK /\ req[r].acc \in Accounts
  BY DEF IInv, ServerInv, QueueOK
<1>2. /\ req' \in [Requests -> RequestStates] /\ \A q \in Requests \ {r} : req'[q] = req[q]
      /\ req'[r].kind = req[r].kind /\ req'[r].page = req[r].page /\ req'[r].after = req[r].after
      /\ req'[r].acc = req[r].acc /\ req'[r].pc = "answered" /\ req'[r].pc \notin Waiting
  BY <1>1, ReplyOK
<1>3. QueueOK' /\ queue' \in [Accounts -> Seq(Requests)]
  BY <1>1, <1>2, QueueSteps, LeaveOK
<1>4. HandlersOK'
  <2>1. ~Knows(r)'
    BY <1>2 DEF Knows, Running
  <2> QED BY <1>1, <1>2, <2>1, HandlersKept
<1> QED BY <1>2, <1>3, <1>4, ServerSteps

LEMMA RunsOnOK ==
  ASSUME IInv, NEW r \in Requests, req[r].pc \in Waiting, AtHead(r), UNCHANGED queue,
         UNCHANGED scene, UNCHANGED jar, UNCHANGED page,
         NEW x \in RequestStates, req' = [req EXCEPT ![r] = x], x.pc \in Running,
         x.kind = req[r].kind, x.page = req[r].page, x.after = req[r].after, x.acc = req[r].acc,
         \A a \in Accounts : acct'[a].pw = acct[a].pw \/ (a = req[r].acc /\ req[r].pc \in Running),
         x.pc \in {"current", "create"} => x.kind \in {"login", "change"}, x.pc = "current" => x.kind = "login",
         x.pc = "create" \/ x.kind = "login" => x.pw = acct'[x.acc].pw,
         acct' \in [Accounts -> AccountRows], tok' \in [Tokens -> SessionRows], live' \in SUBSET Tokens,
         newer' \in [Tokens -> SUBSET Tokens], SessionsOK', GrantsOK', OrderOK', IsFiniteSet(live'), AtMostMaxSessions'
  PROVE  IInv'
<1>1. TypeOK /\ QueueOK /\ HandlersOK /\ queue' \in [Accounts -> Seq(Requests)]
  BY DEF IInv, ServerInv, TypeOK
<1>2. req' \in [Requests -> RequestStates] /\ req'[r] = x /\ \A q \in Requests \ {r} : req'[q] = req[q]
  BY <1>1 DEF TypeOK
<1>3. QueueOK'
  BY <1>1, <1>2, QueueSteps
<1>4. HandlersOK'
  <2>1. Knows(r)' => x.pc = "create" \/ x.kind = "login"
    BY <1>2 DEF Knows
  <2> QED BY <1>1, <1>2, <2>1, HandlersKept
<1> QED BY <1>1, <1>2, <1>3, <1>4, ServerSteps

LEMMA VerifyOK == ASSUME IInv, NEW r \in Requests, Verify(r) PROVE IInv'
<1> DEFINE a == req[r].acc
           pc == IF req[r].kind = "login" /\ ~acct[a].legacy THEN "current" ELSE "replace"
           x == [req[r] EXCEPT !.rev = acct[a].rev, !.pc = pc]
<1>1. /\ req[r].pc = "queued" /\ AtHead(r) /\ UNCHANGED <<scene, jar, page, acct, tok, live, newer>>
      /\ \/ Verified(r) /\ req' = [req EXCEPT ![r] = x] /\ UNCHANGED queue
         \/ Fails(r) /\ Leave(r)
  BY DEF Verify, still
<1>2. /\ req[r] \in RequestStates /\ req[r].pc \in Waiting /\ a \in Accounts /\ acct[a].rev \in Nat
  BY <1>1 DEF IInv, ServerInv, QueueOK, TypeOK, Waiting, AccountRows
<1>3. CASE Verified(r) /\ req' = [req EXCEPT ![r] = x] /\ UNCHANGED queue
  <2>1. /\ pc \in {"current", "replace"} /\ (pc = "current" => req[r].kind = "login")
        /\ req[r].kind = "login" => req[r].pw = acct[a].pw
    BY <1>3 DEF Verified
  <2> HIDE DEF pc
  <2>2. /\ x \in RequestStates /\ x.kind = req[r].kind /\ x.page = req[r].page /\ x.after = req[r].after
        /\ x.acc = a /\ x.pw = req[r].pw /\ x.pc = pc
    BY <1>2, <2>1 DEF RequestStates
  <2>3. pc \in Running /\ pc # "create"
    BY <2>1 DEF Running
  <2> HIDE DEF x
  <2> QED BY <1>1, <1>2, <1>3, <2>1, <2>2, <2>3, TablesKept, RunsOnOK
<1>4. CASE Fails(r) /\ Leave(r)
  BY <1>1, <1>2, <1>4, TablesKept, LeavesOK DEF Fails
<1> QED BY <1>1, <1>3, <1>4

LEMMA RequestRow == ASSUME IInv, NEW r \in Requests PROVE req[r] \in RequestStates /\ req[r].pw \in Nat /\ req[r].rev \in Nat
BY DEF IInv, TypeOK, RequestStates

LEMMA AccountRow == ASSUME IInv, NEW a \in Accounts PROVE acct[a] \in AccountRows /\ acct[a].pw \in Nat /\ acct[a].rev \in Nat
BY DEF IInv, TypeOK, AccountRows

\* What a request that sets a password does to the tables.
LEMMA ReplacesOK ==
  ASSUME IInv, NEW r \in Requests, req[r].acc \in Accounts, MayReplace(r), Replaces(r)
  PROVE  /\ OrderOK' /\ IsFiniteSet(live') /\ AtMostMaxSessions' /\ SessionsOK' /\ GrantsOK'
         /\ live' \in SUBSET Tokens /\ newer' \in [Tokens -> SUBSET Tokens] /\ tok' \in [Tokens -> SessionRows]
         /\ acct' \in [Accounts -> AccountRows]
         /\ acct'[req[r].acc].pw = IF req[r].kind = "login" THEN req[r].pw ELSE FreshPassword(req[r].acc)
         /\ \A b \in Accounts : acct'[b].pw = acct[b].pw \/ b = req[r].acc
<1> DEFINE pw == IF req[r].kind = "login" THEN req[r].pw ELSE FreshPassword(req[r].acc)
<1>0. req[r].pw \in Nat /\ acct[req[r].acc].pw \in Nat
  BY RequestRow, AccountRow
<1>1. TypeOK /\ ServerInv /\ pw \in Nat /\ tok \in [Tokens -> SessionRows]
  BY <1>0 DEF IInv, TypeOK, FreshPassword
<1>2. ReplacePassword(req[r].acc, req[r].kind, pw) /\ (req[r].kind = "setup" => acct[req[r].acc].open)
  BY DEF Replaces, MayReplace
<1> HIDE DEF pw
<1>3. /\ OrderOK' /\ IsFiniteSet(live') /\ AtMostMaxSessions' /\ SessionsOK' /\ GrantsOK'
      /\ live' \in SUBSET Tokens /\ newer' \in [Tokens -> SUBSET Tokens] /\ tok' = tok
      /\ acct' \in [Accounts -> AccountRows] /\ acct'[req[r].acc].pw = pw
      /\ \A b \in Accounts \ {req[r].acc} : acct'[b] = acct[b]
  BY <1>1, <1>2, ReplaceOK
<1> QED BY <1>1, <1>3 DEF pw

LEMMA ReplaceStepOK == ASSUME IInv, NEW r \in Requests, Replace(r) PROVE IInv'
<1> DEFINE a == req[r].acc
           x == [req[r] EXCEPT !.pc = "current"]
           rev == req[r].rev + 1
           y == [req[r] EXCEPT !.pc = "create", !.rev = rev, !.pw = FreshPassword(a)]
<1>1. /\ req[r].pc = "replace" /\ AtHead(r) /\ UNCHANGED <<scene, jar, page>>
      /\ \/ /\ MayReplace(r) /\ Replaces(r)
            /\ \/ req[r].kind = "login" /\ req' = [req EXCEPT ![r] = x] /\ UNCHANGED queue
               \/ req[r].kind = "change" /\ req' = [req EXCEPT ![r] = y] /\ UNCHANGED queue
               \/ req[r].kind \notin {"login", "change"} /\ Reply(r, TRUE, Nobody, Unknown) /\ Leave(r)
         \/ Fails(r) /\ Leave(r) /\ UNCHANGED <<acct, tok, live, newer>>
  BY DEF Replace, still, Goto
<1>2. /\ req[r] \in RequestStates /\ req[r].pc \in Waiting /\ req[r].pc \in Running /\ a \in Accounts
      /\ FreshPassword(a) \in Nat /\ rev \in Nat
  <2>1. req[r].pc \in Waiting /\ req[r].pc \in Running /\ a \in Accounts
    BY <1>1 DEF IInv, ServerInv, QueueOK, Waiting, Running
  <2>2. FreshPassword(a) \in Nat /\ rev \in Nat /\ req[r] \in RequestStates
    BY <2>1, RequestRow, AccountRow DEF FreshPassword
  <2> QED BY <2>1, <2>2
<1>3. CASE MayReplace(r) /\ Replaces(r)
  <2>1. /\ OrderOK' /\ IsFiniteSet(live') /\ AtMostMaxSessions' /\ SessionsOK' /\ GrantsOK'
        /\ live' \in SUBSET Tokens /\ newer' \in [Tokens -> SUBSET Tokens] /\ tok' \in [Tokens -> SessionRows]
        /\ acct' \in [Accounts -> AccountRows]
        /\ acct'[a].pw = IF req[r].kind = "login" THEN req[r].pw ELSE FreshPassword(a)
        /\ \A b \in Accounts : acct'[b].pw = acct[b].pw \/ (b = a /\ req[r].pc \in Running)
    BY <1>2, <1>3, ReplacesOK
  <2>2. CASE req[r].kind = "login" /\ req' = [req EXCEPT ![r] = x] /\ UNCHANGED queue
    <3>1. /\ x \in RequestStates /\ x.kind = "login" /\ x.page = req[r].page /\ x.after = req[r].after
          /\ x.acc = a /\ x.pw = req[r].pw /\ x.pc = "current" /\ x.pc \in Running
      BY <1>2, <2>2 DEF RequestStates, Running
    <3> HIDE DEF x
    <3> QED BY <1>1, <1>2, <2>1, <2>2, <3>1, RunsOnOK
  <2>3. CASE req[r].kind = "change" /\ req' = [req EXCEPT ![r] = y] /\ UNCHANGED queue
    <3> HIDE DEF rev
    <3>1. /\ y \in RequestStates /\ y.kind = "change" /\ y.page = req[r].page /\ y.after = req[r].after
          /\ y.acc = a /\ y.pw = FreshPassword(a) /\ y.pc = "create" /\ y.pc \in Running
      BY <1>2, <2>3 DEF RequestStates, Running
    <3> HIDE DEF y
    <3> QED BY <1>1, <1>2, <2>1, <2>3, <3>1, RunsOnOK
  <2>4. CASE req[r].kind \notin {"login", "change"} /\ Reply(r, TRUE, Nobody, Unknown) /\ Leave(r)
    BY <1>1, <1>2, <2>1, <2>4, LeavesOK
  <2>5. Fails(r) /\ Leave(r) /\ UNCHANGED <<acct, tok, live, newer>> => IInv'
    BY <1>1, <1>2, TablesKept, LeavesOK DEF Fails
  <2> QED BY <1>1, <2>2, <2>3, <2>4, <2>5
<1>4. CASE Fails(r) /\ Leave(r) /\ UNCHANGED <<acct, tok, live, newer>>
  BY <1>1, <1>2, <1>4, TablesKept, LeavesOK DEF Fails
<1> QED BY <1>1, <1>3, <1>4

LEMMA ReadCurrentOK == ASSUME IInv, NEW r \in Requests, ReadCurrent(r) PROVE IInv'
<1> DEFINE a == req[r].acc
           x == [req[r] EXCEPT !.rev = acct[a].rev, !.pc = "create"]
<1>1. /\ req[r].pc = "current" /\ AtHead(r) /\ UNCHANGED <<scene, jar, page, acct, tok, live, newer, queue>>
      /\ req' = [req EXCEPT ![r] = x]
  BY DEF ReadCurrent, still, server
<1>2. /\ req[r] \in RequestStates /\ req[r].pc \in Waiting /\ req[r].pc \in Running /\ a \in Accounts
      /\ acct[a].rev \in Nat /\ req[r].kind = "login" /\ req[r].pw = acct[a].pw
  BY <1>1 DEF IInv, ServerInv, QueueOK, HandlersOK, Knows, TypeOK, Waiting, Running, AccountRows
<1>3. /\ x \in RequestStates /\ x.kind = req[r].kind /\ x.page = req[r].page /\ x.after = req[r].after
      /\ x.acc = a /\ x.pw = req[r].pw /\ x.pc = "create" /\ x.pc \in Running
  BY <1>2 DEF RequestStates, Running
<1> HIDE DEF x
<1> QED BY <1>1, <1>2, <1>3, TablesKept, RunsOnOK

\* What opening a session does to the tables.
LEMMA CreatesOK ==
  ASSUME IInv, NEW r \in Requests, req[r].acc \in Accounts, req[r].pc = "create", Tokens \ Referenced # {},
         CreateSession(req[r].acc, req[r].pw)
  PROVE  /\ OrderOK' /\ IsFiniteSet(live') /\ AtMostMaxSessions' /\ SessionsOK' /\ GrantsOK'
         /\ live' \in SUBSET Tokens /\ newer' \in [Tokens -> SUBSET Tokens] /\ tok' \in [Tokens -> SessionRows]
         /\ acct' \in [Accounts -> AccountRows] /\ acct' = acct /\ NewToken \in Tokens
<1>1. TypeOK /\ ServerInv /\ req[r].pw = acct[req[r].acc].pw
  BY DEF IInv, ServerInv, HandlersOK, Knows
<1>2. /\ OrderOK' /\ IsFiniteSet(live') /\ AtMostMaxSessions' /\ SessionsOK' /\ acct' = acct
      /\ live' \in SUBSET Tokens /\ newer' \in [Tokens -> SUBSET Tokens] /\ tok' \in [Tokens -> SessionRows]
      /\ NewToken \in Tokens
  BY <1>1, CreateOK
<1>3. GrantsOK' /\ acct' \in [Accounts -> AccountRows]
  BY <1>1, <1>2 DEF TypeOK, ServerInv, GrantsOK
<1> QED BY <1>2, <1>3

LEMMA CreateStepOK == ASSUME IInv, NEW r \in Requests, Create(r) PROVE IInv'
<1>1. /\ req[r].pc = "create" /\ AtHead(r) /\ Leave(r) /\ UNCHANGED <<scene, jar, page>>
      /\ \/ /\ Tokens \ Referenced # {} /\ CreateSession(req[r].acc, req[r].pw)
            /\ Reply(r, TRUE, NewToken, NewToken)
         \/ Fails(r) /\ UNCHANGED <<acct, tok, live, newer>>
  BY DEF Create, still
<1>2. req[r].pc \in Waiting /\ req[r].acc \in Accounts
  BY <1>1 DEF IInv, ServerInv, QueueOK, Waiting, Running
<1>3. CASE /\ Tokens \ Referenced # {} /\ CreateSession(req[r].acc, req[r].pw)
           /\ Reply(r, TRUE, NewToken, NewToken)
  <2>1. /\ OrderOK' /\ IsFiniteSet(live') /\ AtMostMaxSessions' /\ SessionsOK' /\ GrantsOK'
        /\ live' \in SUBSET Tokens /\ newer' \in [Tokens -> SUBSET Tokens] /\ tok' \in [Tokens -> SessionRows]
        /\ acct' \in [Accounts -> AccountRows] /\ acct' = acct /\ NewToken \in Tokens
    BY <1>1, <1>2, <1>3, CreatesOK
  <2>2. Reply(r, TRUE, NewToken, NewToken)
    BY <1>3
  <2> QED BY <1>1, <1>2, <2>1, <2>2, LeavesOK
<1>4. CASE Fails(r) /\ UNCHANGED <<acct, tok, live, newer>>
  BY <1>1, <1>2, <1>4, TablesKept, LeavesOK DEF Fails
<1> QED BY <1>1, <1>3, <1>4

LEMMA StepFailsOK == ASSUME IInv, NEW r \in Requests, StepFails(r) PROVE IInv'
<1>1. /\ req[r].pc = "sent" \/ (req[r].pc \in Waiting /\ AtHead(r) /\ Leave(r))
      /\ req[r].pc = "sent" => UNCHANGED queue
      /\ Fails(r) /\ UNCHANGED <<scene, jar, page>>
      /\ \/ UNCHANGED <<acct, tok, live, newer>>
         \/ req[r].pc = "replace" /\ MayReplace(r) /\ Replaces(r)
         \/ req[r].pc = "create" /\ Tokens \ Referenced # {} /\ CreateSession(req[r].acc, req[r].pw)
  BY DEF StepFails, Waiting, Running
<1>2. TypeOK /\ ServerInv /\ QueueOK /\ HandlersOK
  BY DEF IInv, ServerInv
<1>3. CASE req[r].pc = "sent"
  <2>1. req[r].pc \notin Waiting /\ UNCHANGED <<acct, tok, live, newer, queue>> /\ queue' \in [Accounts -> Seq(Requests)]
    BY <1>1, <1>2, <1>3 DEF Waiting, Running, TypeOK
  <2>2. /\ req' \in [Requests -> RequestStates] /\ \A q \in Requests \ {r} : req'[q] = req[q]
        /\ req'[r].kind = req[r].kind /\ req'[r].page = req[r].page /\ req'[r].after = req[r].after
        /\ req'[r].acc = req[r].acc /\ req'[r].pc \notin Waiting
    BY <1>1, <1>2, ReplyOK DEF Fails
  <2>3. QueueOK' /\ HandlersOK'
    BY <1>2, <2>1, <2>2, QueueKept
  <2> QED BY <1>1, <2>1, <2>2, <2>3, TablesKept, ServerSteps
<1>4. CASE req[r].pc \in Waiting /\ AtHead(r) /\ Leave(r)
  <2>0. req[r].acc \in Accounts
    BY <1>2, <1>4 DEF QueueOK
  <2>1. CASE UNCHANGED <<acct, tok, live, newer>>
    BY <1>1, <1>4, <2>1, TablesKept, LeavesOK DEF Fails
  <2>2. CASE req[r].pc = "replace" /\ MayReplace(r) /\ Replaces(r)
    <3>1. /\ OrderOK' /\ IsFiniteSet(live') /\ AtMostMaxSessions' /\ SessionsOK' /\ GrantsOK'
          /\ live' \in SUBSET Tokens /\ newer' \in [Tokens -> SUBSET Tokens] /\ tok' \in [Tokens -> SessionRows]
          /\ acct' \in [Accounts -> AccountRows]
          /\ \A b \in Accounts : acct'[b].pw = acct[b].pw \/ (b = req[r].acc /\ req[r].pc \in Running)
      BY <2>0, <2>2, ReplacesOK DEF Running
    <3> QED BY <1>1, <1>4, <3>1, LeavesOK DEF Fails
  <2>3. CASE req[r].pc = "create" /\ Tokens \ Referenced # {} /\ CreateSession(req[r].acc, req[r].pw)
    <3>1. /\ OrderOK' /\ IsFiniteSet(live') /\ AtMostMaxSessions' /\ SessionsOK' /\ GrantsOK'
          /\ live' \in SUBSET Tokens /\ newer' \in [Tokens -> SUBSET Tokens] /\ tok' \in [Tokens -> SessionRows]
          /\ acct' \in [Accounts -> AccountRows] /\ acct' = acct
      BY <2>0, <2>3, CreatesOK
    <3> QED BY <1>1, <1>4, <3>1, LeavesOK DEF Fails
  <2> QED BY <1>1, <2>1, <2>2, <2>3
<1> QED BY <1>1, <1>3, <1>4

LEMMA RestartOK == ASSUME IInv, Restart PROVE IInv'
<1> DEFINE x(r) == IF req[r].pc \in {"none", "answered"} THEN req[r] ELSE [req[r] EXCEPT !.pc = "answered"]
<1>1. /\ req' = [r \in Requests |-> x(r)] /\ queue' = [a \in Accounts |-> <<>>]
      /\ UNCHANGED <<scene, acct, tok, live, newer, jar, page>>
  BY DEF Restart
<1>2. TypeOK /\ PageInv /\ scene \in Scenes
  BY DEF IInv
<1>3. ASSUME NEW r \in Requests
      PROVE  /\ x(r) \in RequestStates /\ x(r).pc \in {"none", "answered"} /\ x(r).kind = req[r].kind
             /\ x(r).page = req[r].page /\ x(r).after = req[r].after /\ x(r).acc = req[r].acc
  <2>1. req[r] \in RequestStates
    BY <1>2 DEF TypeOK
  <2> QED BY <2>1 DEF RequestStates
<1> HIDE DEF x
<1>4. \A r \in Requests : /\ req'[r].kind = req[r].kind /\ req'[r].page = req[r].page /\ req'[r].after = req[r].after
                          /\ req'[r].acc = req[r].acc /\ req'[r].pc \in {"none", "answered"}
  BY <1>1, <1>3
<1>5. TypeOK'
  <2>1. RequestStates' = RequestStates /\ Pages' = Pages
    BY <1>1 DEF RequestStates, Pages
  <2>2. req' \in [Requests -> RequestStates] /\ queue' \in [Accounts -> Seq(Requests)]
    BY <1>1, <1>3
  <2> QED BY <1>1, <1>2, <2>1, <2>2 DEF TypeOK
<1>6. PageInv'
  BY <1>1, <1>2, <1>4, PagesKept
<1>7. QueueOK' /\ HandlersOK'
  <2>1. \A r \in Requests : req'[r].pc \notin Waiting /\ ~Knows(r)' /\ req'[r].pc \notin {"current", "create"}
    BY <1>4 DEF Waiting, Running, Knows
  <2>2. \A a \in Accounts : Len(queue'[a]) = 0
    BY <1>1
  <2> QED BY <2>1, <2>2 DEF QueueOK, HandlersOK
<1>8. ServerInv'
  BY <1>1, <1>7, TablesKept DEF ServerInv
<1> QED BY <1>1, <1>2, <1>5, <1>6, <1>8 DEF IInv

\* Somebody changes the tables, and no request moves.
LEMMA TableSteps ==
  ASSUME IInv, UNCHANGED <<scene, jar, page, req, queue>>, \A a \in Accounts : acct'[a].pw = acct[a].pw,
         acct' \in [Accounts -> AccountRows], tok' \in [Tokens -> SessionRows], live' \in SUBSET Tokens,
         newer' \in [Tokens -> SUBSET Tokens],
         SessionsOK', GrantsOK', OrderOK', IsFiniteSet(live'), AtMostMaxSessions'
  PROVE  IInv'
<1>1. TypeOK /\ PageInv /\ QueueOK /\ HandlersOK /\ scene \in Scenes
  BY DEF IInv, ServerInv
<1>2. RequestStates' = RequestStates /\ Pages' = Pages
  BY DEF RequestStates, Pages
<1>3. TypeOK'
  BY <1>1, <1>2 DEF TypeOK
<1>4. PageInv'
  BY <1>1, PagesKept
<1>5. QueueOK'
  BY <1>1 DEF QueueOK
<1>6. HandlersOK'
  <2>1. \A r \in Requests : (Knows(r)' <=> Knows(r)) /\ (Knows(r) => req[r].acc \in Accounts)
    BY <1>1, OneRuns DEF Knows, Running
  <2> QED BY <1>1, <2>1 DEF HandlersOK
<1>7. ServerInv'
  BY <1>5, <1>6 DEF ServerInv
<1> QED BY <1>1, <1>3, <1>4, <1>7 DEF IInv

LEMMA AuthoriseOK == ASSUME IInv, NEW a \in Accounts, Authorise(a) PROVE IInv'
<1>1. PICK allowed \in BOOLEAN :
        acct' = [acct EXCEPT ![a].open = allowed, ![a].grants = IF allowed THEN @ + 1 ELSE @]
  BY DEF Authorise
<1> DEFINE grants == IF allowed THEN acct[a].grants + 1 ELSE acct[a].grants
           row == [acct[a] EXCEPT !.open = allowed, !.grants = grants]
<1>2. acct' = [acct EXCEPT ![a] = row] /\ UNCHANGED <<scene, tok, live, newer, jar, page, req, queue>>
  BY <1>1 DEF Authorise
<1>3. /\ acct \in [Accounts -> AccountRows] /\ acct[a] \in AccountRows /\ acct[a].grants \in Nat /\ acct[a].uses \in Nat
      /\ SessionsOK /\ GrantsOK /\ TypeOK
  BY DEF IInv, ServerInv, TypeOK, AccountRows
<1>4. grants \in Nat /\ acct[a].uses + (IF allowed THEN 1 ELSE 0) <= grants
  <2>1. acct[a].uses + (IF acct[a].open THEN 1 ELSE 0) <= acct[a].grants
    BY <1>3 DEF GrantsOK
  <2> QED BY <1>3, <2>1
<1> HIDE DEF grants
<1>5. /\ row \in AccountRows /\ row.pw = acct[a].pw /\ row.rev = acct[a].rev /\ row.open = allowed
      /\ row.uses = acct[a].uses /\ row.grants = grants
  BY <1>3, <1>4 DEF AccountRows
<1> HIDE DEF row
<1>6. acct' \in [Accounts -> AccountRows] /\ acct'[a] = row /\ \A b \in Accounts \ {a} : acct'[b] = acct[b]
  BY <1>2, <1>3, <1>5
<1>7. GrantsOK'
  <2>1. ASSUME NEW b \in Accounts PROVE acct'[b].uses + (IF acct'[b].open THEN 1 ELSE 0) <= acct'[b].grants
    <3>1. CASE b = a
      BY <1>4, <1>5, <1>6, <3>1
    <3>2. CASE b # a
      BY <1>3, <1>6, <3>2 DEF GrantsOK
    <3> QED BY <3>1, <3>2
  <2> QED BY <2>1 DEF GrantsOK
<1>8. SessionsOK' /\ \A b \in Accounts : acct'[b].pw = acct[b].pw
  <2>1. \A b \in Accounts : acct'[b].pw = acct[b].pw /\ acct'[b].rev = acct[b].rev
    BY <1>5, <1>6
  <2> QED BY <1>2, <1>3, <2>1 DEF SessionsOK
<1>9. /\ OrderOK' /\ IsFiniteSet(live') /\ AtMostMaxSessions' /\ live' \in SUBSET Tokens
      /\ newer' \in [Tokens -> SUBSET Tokens] /\ tok' \in [Tokens -> SessionRows]
  BY <1>2, <1>3 DEF IInv, ServerInv, OrderOK, AtMostMaxSessions, SessionsOf, TypeOK
<1> QED BY <1>2, <1>6, <1>7, <1>8, <1>9, TableSteps

LEMMA PersonChangedOK == ASSUME IInv, NEW a \in Accounts, PersonChanged(a) PROVE IInv'
<1> DEFINE rev == acct[a].rev + 1
           row == [acct[a] EXCEPT !.active = FALSE, !.rev = rev]
<1>1. /\ acct' = [acct EXCEPT ![a] = row] \/ acct' = acct
      /\ SessionsBecome(SessionsOf(a), {}) /\ UNCHANGED <<scene, tok, jar, page, req, queue>>
  BY DEF PersonChanged
<1>2. /\ acct \in [Accounts -> AccountRows] /\ acct[a] \in AccountRows /\ acct[a].rev \in Nat
      /\ TypeOK /\ ServerInv /\ SessionsOK /\ GrantsOK /\ tok \in [Tokens -> SessionRows]
      /\ \A b \in Accounts : acct[b].rev \in Nat
  BY DEF IInv, ServerInv, TypeOK, AccountRows
<1>3. rev \in Nat /\ rev >= acct[a].rev
  BY <1>2
<1> HIDE DEF rev
<1>4. /\ row \in AccountRows /\ row.pw = acct[a].pw /\ row.rev = rev /\ row.open = acct[a].open
      /\ row.uses = acct[a].uses /\ row.grants = acct[a].grants
  BY <1>2, <1>3 DEF AccountRows
<1> HIDE DEF row
<1>5. /\ acct' \in [Accounts -> AccountRows]
      /\ \A b \in Accounts : /\ acct'[b].pw = acct[b].pw /\ acct'[b].rev >= acct[b].rev /\ acct'[b].open = acct[b].open
                             /\ acct'[b].uses = acct[b].uses /\ acct'[b].grants = acct[b].grants
  <2>1. CASE acct' = acct
    BY <1>2, <2>1
  <2>2. CASE acct' = [acct EXCEPT ![a] = row]
    <3>1. acct' \in [Accounts -> AccountRows] /\ acct'[a] = row /\ \A b \in Accounts \ {a} : acct'[b] = acct[b]
      BY <1>2, <1>4, <2>2
    <3> QED BY <1>2, <1>3, <1>4, <3>1
  <2> QED BY <1>1, <2>1, <2>2
<1>6. /\ OrderOK' /\ IsFiniteSet(live') /\ AtMostMaxSessions' /\ live' \in SUBSET Tokens
      /\ newer' \in [Tokens -> SUBSET Tokens] /\ live' = live \ SessionsOf(a)
  BY <1>1, <1>2, RevokeOK
<1>7. SessionsOK'
  <2>1. \A t \in live' : tok'[t] = tok[t] /\ tok[t].acc \in Accounts
    BY <1>1, <1>2, <1>6 DEF SessionsOK
  <2> QED BY <1>2, <1>5, <1>6, <2>1, SessionsKept
<1>8. GrantsOK'
  BY <1>2, <1>5 DEF GrantsOK
<1> QED BY <1>1, <1>2, <1>5, <1>6, <1>7, <1>8, TableSteps

LEMMA ExpireOK == ASSUME IInv, NEW t \in Tokens, Expire(t) PROVE IInv'
<1>1. SessionsBecome({t}, {}) /\ UNCHANGED <<scene, acct, tok, jar, page, req, queue>>
  BY DEF Expire
<1>2. /\ TypeOK /\ ServerInv /\ SessionsOK /\ GrantsOK /\ tok \in [Tokens -> SessionRows]
      /\ acct \in [Accounts -> AccountRows]
  BY DEF IInv, ServerInv, TypeOK
<1>3. /\ OrderOK' /\ IsFiniteSet(live') /\ AtMostMaxSessions' /\ live' \in SUBSET Tokens
      /\ newer' \in [Tokens -> SUBSET Tokens] /\ live' = live \ {t}
  BY <1>1, <1>2, RevokeOK
<1>4. SessionsOK' /\ GrantsOK'
  BY <1>1, <1>2, <1>3 DEF SessionsOK, GrantsOK
<1> QED BY <1>1, <1>2, <1>3, <1>4, TableSteps

-----------------------------------------------------------------------------
(* The invariant and what follows from it.                                 *)
-----------------------------------------------------------------------------
LEMMA InitIInv == Init => IInv
<1> SUFFICES ASSUME Init PROVE IInv
  OBVIOUS
<1> DEFINE first == Min(Accounts)
<1>1. first \in Accounts
  <2>1. \E x \in Accounts : \A y \in Accounts : x <= y
    BY NamesAssumption, NatLeast
  <2> QED BY <2>1 DEF Min
<1>2. MaxSessions \in Nat \ {0} /\ Tokens \subseteq Nat \ {0} /\ 1..MaxSessions \subseteq Tokens /\ MaxSessions \in Tokens
  BY BoundsAssumption
<1>3. /\ scene \in Scenes /\ live = 1..MaxSessions /\ newer = [t \in Tokens |-> (t + 1)..MaxSessions]
      /\ req = [r \in Requests |-> NoRequest] /\ queue = [a \in Accounts |-> <<>>]
  BY DEF Init
<1> HIDE DEF first
<1>4. /\ acct \in [Accounts -> AccountRows]
      /\ \A a \in Accounts : acct[a].pw = 0 /\ acct[a].rev = 1 /\ acct[a].uses = 0 /\ acct[a].grants = 0 /\ acct[a].open = FALSE
  <2>1. acct = [a \in Accounts |-> [active |-> TRUE, pw |-> 0, legacy |-> scene.legacy, rev |-> 1, open |-> FALSE,
                                    grants |-> 0, uses |-> 0]] /\ scene.legacy \in BOOLEAN
    BY NamesAssumption DEF Init
  <2> QED BY <2>1 DEF AccountRows
<1>5. /\ tok \in [Tokens -> SessionRows]
      /\ \A t \in 1..MaxSessions : tok[t].acc = first /\ tok[t].rev = 1 /\ tok[t].pw = 0
  <2> DEFINE opened == [NoToken EXCEPT !.acc = first, !.rev = 1, !.old = TRUE]
  <2>1. tok = [t \in Tokens |-> IF t <= MaxSessions THEN opened ELSE NoToken]
    BY DEF Init, first
  <2>2. /\ opened \in SessionRows /\ opened.acc = first /\ opened.rev = 1 /\ opened.pw = 0
        /\ NoToken \in SessionRows
    BY <1>1 DEF NoToken, SessionRows
  <2> HIDE DEF opened
  <2> QED BY <1>2, <2>1, <2>2
<1>6. jar \in [Browsers -> Tokens \union {Nobody}]
  BY <1>2 DEF Init
<1>7. page \in [Pages -> PageStates] /\ \A p \in Pages : page[p].fresh = Nobody /\ page[p].mut = Nobody
  <2> DEFINE shown(p) == IF scene.loaded THEN Cookie(p) ELSE Unknown
             x(p) == [shown |-> shown(p), fresh |-> Nobody, rec |-> "no", prev |-> Nobody, mut |-> Nobody,
                      sock |-> jar[scene.home[p]], told |-> FALSE, retry |-> FALSE, done |-> 0]
  <2>1. page = [p \in Pages |-> x(p)]
    BY DEF Init
  <2>2. ASSUME NEW p \in Pages PROVE shown(p) \in Tokens \union {Nobody, Unknown} /\ jar[scene.home[p]] \in Tokens \union {Nobody}
    BY <1>3, <1>6, PagesAreNames DEF Cookie
  <2> HIDE DEF shown
  <2>3. ASSUME NEW p \in Pages PROVE x(p) \in PageStates /\ x(p).fresh = Nobody /\ x(p).mut = Nobody
    BY <2>2 DEF PageStates
  <2> HIDE DEF x
  <2> QED BY <2>1, <2>3
<1>8. TypeOK
  <2>1. live \in SUBSET Tokens /\ newer \in [Tokens -> SUBSET Tokens]
    BY <1>2, <1>3
  <2>2. req \in [Requests -> RequestStates] /\ queue \in [Accounts -> Seq(Requests)]
    BY <1>3, NoRequestOK
  <2> QED BY <1>4, <1>5, <1>6, <1>7, <2>1, <2>2 DEF TypeOK
<1>9. QueueOK /\ HandlersOK
  <2>1. \A r \in Requests : req[r].pc \notin Waiting /\ ~Knows(r) /\ req[r].pc \notin {"current", "create"}
    BY <1>3, NoRequestOK DEF Waiting, Running, Knows
  <2>2. \A a \in Accounts : Len(queue[a]) = 0
    BY <1>3
  <2> QED BY <2>1, <2>2 DEF QueueOK, HandlersOK
<1>10. SessionsOK /\ GrantsOK
  <2>1. SessionsOK
    BY <1>1, <1>3, <1>4, <1>5 DEF SessionsOK
  <2>2. GrantsOK
    BY <1>4 DEF GrantsOK
  <2> QED BY <2>1, <2>2
<1>11. OrderOK
  BY <1>2, <1>3 DEF OrderOK
<1>12. IsFiniteSet(live) /\ Cardinality(live) = MaxSessions
  BY <1>2, <1>3, FS_Interval
<1>13. AtMostMaxSessions
  <2>1. \A a \in Accounts : SessionsOf(a) \subseteq live
    BY DEF SessionsOf
  <2> QED BY <1>12, <2>1, FS_Subset DEF AtMostMaxSessions
<1>14. PageInv
  BY <1>3, <1>7, NoRequestOK DEF PageInv, PageOK, AskedOK, NamedOK
<1> QED BY <1>3, <1>8, <1>9, <1>10, <1>11, <1>12, <1>13, <1>14 DEF IInv, ServerInv

LEMMA NextIInv == IInv /\ [Next]_vars => IInv'
<1> SUFFICES ASSUME IInv, [Next]_vars PROVE IInv'
  OBVIOUS
<1>1. ASSUME NEW p \in Pages, Validate(p) \/ Retry(p) \/ Told(p) \/ Event(p) PROVE IInv'
  BY <1>1, SendGetOK DEF Validate, Retry, Told, Event
<1>2. ASSUME NEW r \in Requests, Serve(r) PROVE IInv'
  <2>1. GetSession(r) => IInv'
    BY GetSessionOK
  <2>2. DeleteSession(r) => IInv'
    BY DeleteSessionOK
  <2>3. Enter(r) => IInv'
    BY EnterOK
  <2>4. Verify(r) => IInv'
    BY VerifyOK
  <2>5. Replace(r) => IInv'
    BY ReplaceStepOK
  <2>6. ReadCurrent(r) => IInv'
    BY ReadCurrentOK
  <2>7. Create(r) => IInv'
    BY CreateStepOK
  <2>8. Answered(r) => IInv'
    BY AnsweredOK
  <2> QED BY <1>2, <2>1, <2>2, <2>3, <2>4, <2>5, <2>6, <2>7, <2>8 DEF Serve
<1>3. ASSUME NEW p \in scene.users, Login(p) \/ Logout(p) \/ ChangePassword(p) PROVE IInv'
  <2>1. p \in Pages
    BY NamesAssumption DEF IInv, Pages
  <2>2. \A a \in Accounts : \A pw \in 0..acct[a].pw : pw \in Nat
    BY AccountRow
  <2>3. CASE Login(p)
    <3>1. PICK a \in Accounts : \E pw \in 0..acct[a].pw : StartMutation(p, "login", a, pw)
      BY <2>3 DEF Login
    <3>2. PICK pw \in 0..acct[a].pw : StartMutation(p, "login", a, pw)
      BY <3>1
    <3>3. pw \in Nat /\ "login" \in Mutations /\ a \in Accounts \union {Nobody}
      BY <2>2 DEF Mutations
    <3> QED BY <2>1, <3>2, <3>3, StartMutationOK
  <2>4. CASE Logout(p)
    <3>1. StartMutation(p, "logout", Nobody, 0) /\ "logout" \in Mutations
      BY <2>4 DEF Logout, Mutations
    <3> QED BY <2>1, <3>1, StartMutationOK
  <2>5. CASE ChangePassword(p)
    <3>1. PICK a \in Accounts : \E pw \in 0..acct[a].pw : StartMutation(p, "change", Nobody, pw)
      BY <2>5 DEF ChangePassword
    <3>2. PICK pw \in 0..acct[a].pw : StartMutation(p, "change", Nobody, pw)
      BY <3>1
    <3>3. pw \in Nat /\ "change" \in Mutations
      BY <2>2 DEF Mutations
    <3> QED BY <2>1, <3>2, <3>3, StartMutationOK
  <2> QED BY <1>3, <2>3, <2>4, <2>5
<1>4. ASSUME NEW a \in Accounts, SetPassword("setup", a) \/ SetPassword("set", a) \/ Authorise(a) PROVE IInv'
  BY <1>4, SetPasswordOK, AuthoriseOK
<1>5. ASSUME NEW r \in Requests, GiveUp(r) \/ StepFails(r) PROVE IInv'
  BY <1>5, GiveUpOK, StepFailsOK
<1>6. ASSUME NEW a \in Accounts, PersonChanged(a) PROVE IInv'
  BY <1>6, PersonChangedOK
<1>7. ASSUME NEW t \in Tokens, Expire(t) PROVE IInv'
  BY <1>7, ExpireOK
<1>8. CASE Restart
  BY <1>8, RestartOK
<1>9. CASE UNCHANGED vars
  <2>1. UNCHANGED <<scene, acct, tok, live, newer, jar, page, req, queue>>
    BY <1>9 DEF vars
  <2>2. \A a \in Accounts : acct'[a].pw = acct[a].pw
    BY <2>1
  <2>3. /\ OrderOK' /\ IsFiniteSet(live') /\ AtMostMaxSessions' /\ SessionsOK' /\ GrantsOK'
        /\ live' \in SUBSET Tokens /\ newer' \in [Tokens -> SUBSET Tokens] /\ tok' \in [Tokens -> SessionRows]
        /\ acct' \in [Accounts -> AccountRows]
    BY <2>1, TablesKept
  <2> QED BY <2>1, <2>2, <2>3, TableSteps
<1>10. CASE Browser
  BY <1>1, <1>10 DEF Browser, PageSteps
<1>11. CASE Users
  BY <1>3, <1>4, <1>11 DEF Users
<1>12. CASE Disturbance
  BY <1>1, <1>5, <1>6, <1>7, <1>8, <1>12 DEF Disturbance
<1> QED BY <1>2, <1>9, <1>10, <1>11, <1>12 DEF Next

LEMMA SpecSteps == Spec => Init /\ [][Next]_vars
BY PTL DEF Spec

\* The inductive invariant holds in every reachable state.
THEOREM SessionsInvariant == Spec => []IInv
BY InitIInv, NextIInv, SpecSteps, PTL

\* Whatever logins, password changes, failures and restarts come together, an account never has more sessions
\* than the limit, a session opened with an earlier password does not count, and an authorisation
\* sets one password (createBoundedSession, runForUser, replacePassword).
THEOREM SessionsStaySound == Spec => []SessionsSound
<1>1. IInv => SessionsSound
  <2>1. ASSUME IInv PROVE OldPasswordIsDead
    BY <2>1 DEF IInv, ServerInv, SessionsOK, OldPasswordIsDead, Valid
  <2>2. ASSUME IInv PROVE SetupOncePerGrant
    <3>1. ASSUME NEW a \in Accounts PROVE acct[a].uses <= acct[a].grants
      <4>1. /\ acct[a].uses + (IF acct[a].open THEN 1 ELSE 0) <= acct[a].grants
            /\ acct[a].uses \in Nat /\ acct[a].grants \in Nat
        BY <2>2 DEF IInv, ServerInv, GrantsOK, TypeOK, AccountRows
      <4> QED BY <4>1
    <3> QED BY <3>1 DEF SetupOncePerGrant
  <2> QED BY <2>1, <2>2 DEF IInv, ServerInv, SessionsSound
<1> QED BY <1>1, SessionsInvariant, PTL

\* refreshGeneration: a page that waits for a refresh has asked it after the last login or logout it was answered.
THEOREM RefreshIsCurrent == Spec => []LoginNotOverwritten
<1>1. IInv => LoginNotOverwritten
  BY DEF IInv, PageInv, PageOK, LoginNotOverwritten
<1> QED BY <1>1, SessionsInvariant, PTL
=============================================================================
