----------------------------- MODULE PoolProofs -----------------------------
(***************************************************************************)
(* Who may execute on a chain, for every number of accounts, messages,     *)
(* changes, failing requests and crashes.                                  *)
(***************************************************************************)
EXTENDS WorkerPool, TLAPS, FiniteSetTheorems, SequenceTheorems, WellFoundedInduction

LEMMA LeastExists ==
  ASSUME NEW S \in SUBSET Nat, S # {}
  PROVE  \E k \in S : \A l \in S : k <= l
<1> DEFINE Smaller == {ss \in Nat \X Nat : ss[1] < ss[2]}
<1>1. IsWellFoundedOn(Smaller, Nat)
  BY NatLessThanWellFounded DEF OpToRel
<1>2. PICK x \in S : \A y \in S : <<y, x>> \notin Smaller
  <2> HIDE DEF Smaller
  <2> QED BY <1>1, WFMin
<1>3. \A y \in S : ~(y < x)
  BY <1>2
<1> QED BY <1>3

LEMMA EmptyIffZero ==
  ASSUME NEW S, NEW s \in Seq(S)
  PROVE  Len(s) \in Nat /\ (Len(s) = 0 <=> s = <<>>)
BY EmptySeq

LEMMA AccountFacts ==
  /\ N \in Nat \ {0}
  /\ Checked \in Seq(Eoas)
  /\ \A i \in 1..N : Checked[i] \in Eoas
  /\ \A e \in Eoas : \E i \in 1..N : Checked[i] = e
  /\ \A i, j \in 1..N : Checked[i] = Checked[j] => i = j
<1> DEFINE S == {Extra[i] : i \in 1..Len(Extra)}
<1>1. /\ Extra \in Seq(S) /\ WorkerCount \in Nat
      /\ \A i, j \in 1..Len(Extra) : i # j => Extra[i] # Extra[j]
  BY PoolConstantsOK
<1>2. /\ Known \in Seq(S \cup {Master}) /\ Len(Known) \in Nat \ {0}
      /\ \A i, j \in 1..Len(Known) : Known[i] = Known[j] => i = j
  <2>1. CASE Extra = <<>>
    BY <2>1 DEF Known
  <2>2. CASE Extra # <<>>
    <3>1. Extra \in Seq(S \cup {Master})
      BY <1>1, SeqMonotonic
    <3>2. Known = Extra
      BY <2>2 DEF Known
    <3> HIDE DEF S
    <3> QED BY <1>1, <2>2, <3>1, <3>2, EmptySeq
  <2> QED BY <2>1, <2>2
<1>3. /\ Checked \in Seq(S \cup {Master}) /\ N \in Nat \ {0}
      /\ \A i, j \in 1..N : Checked[i] = Checked[j] => i = j
  <2> HIDE DEF S
  <2>1. CASE WorkerCount = 0
    BY <2>1 DEF Checked, N
  <2>2. CASE WorkerCount # 0
    <3> DEFINE n == IF WorkerCount < Len(Known) THEN WorkerCount ELSE Len(Known)
    <3>1. n \in 1..Len(Known) /\ Checked = SubSeq(Known, 1, n)
      BY <1>1, <1>2, <2>2 DEF Checked
    <3>2. \A i \in 1..n : Known[i] \in S \cup {Master}
      BY <1>2, <3>1, ElementOfSeq
    <3> HIDE DEF n
    <3>3. Checked \in Seq(S \cup {Master}) /\ Len(Checked) = n /\ \A i \in 1..n : Checked[i] = Known[i]
      BY <1>2, <3>1, <3>2, SubSeqProperties
    <3> QED BY <1>2, <3>1, <3>3 DEF N
  <2> QED BY <2>1, <2>2
<1>4. \A i \in 1..N : Checked[i] \in Eoas
  BY DEF Eoas
<1>5. Checked \in Seq(Eoas)
  BY <1>3, <1>4 DEF N
<1> QED BY <1>3, <1>4, <1>5 DEF Eoas

-----------------------------------------------------------------------------
(* The walk of a handler *)

LEMMA NextFacts ==
  ASSUME NEW A, NEW i \in 1..(N + 1), NEW reg
  PROVE  /\ NextToCreate(A, i, reg) \in i..(N + 1)
         /\ NextToCreate(A, i, reg) <= N =>
              /\ Checked[NextToCreate(A, i, reg)] \in A
              /\ reg[Checked[NextToCreate(A, i, reg)]] = 0
<1> DEFINE missing == {k \in i..N : Checked[k] \in A /\ reg[Checked[k]] = 0}
<1>1. N \in Nat
  BY AccountFacts
<1>2. NextToCreate(A, i, reg)
        = IF missing = {} THEN N + 1 ELSE CHOOSE k \in missing : \A l \in missing : k <= l
  BY DEF NextToCreate
<1>3. CASE missing = {}
  BY <1>1, <1>2, <1>3
<1>4. CASE missing # {}
  <2>1. missing \in SUBSET Nat
    BY <1>1
  <2>2. \E k \in missing : \A l \in missing : k <= l
    <3> HIDE DEF missing
    <3> QED BY <1>4, <2>1, LeastExists
  <2>3. NextToCreate(A, i, reg) \in missing
    <3> HIDE DEF missing
    <3> QED BY <1>2, <1>4, <2>2
  <2> QED BY <1>1, <2>3
<1> QED BY <1>3, <1>4

LEMMA WalkedFacts ==
  ASSUME NEW A, NEW i, NEW k, NEW ws \in Seq(Worker), NEW reg
  PROVE  /\ Walked(A, i, k, ws, reg) \in Seq(Worker)
         /\ Len(Walked(A, i, k, ws, reg)) = Len(ws)
         /\ \A x \in 1..Len(ws) : Walked(A, i, k, ws, reg)[x].eoa = ws[x].eoa
<1> DEFINE W == Walked(A, i, k, ws, reg)
<1>1. DOMAIN W = 1..Len(ws) /\ Len(ws) \in Nat /\ DOMAIN ws = 1..Len(ws)
  BY DEF Walked
<1>2. \A x \in 1..Len(ws) : ws[x] \in Worker
  OBVIOUS
<1>3. \A x \in 1..Len(ws) : W[x] \in Worker /\ W[x].eoa = ws[x].eoa
  BY <1>1, <1>2 DEF Walked, Worker, Switched
<1>4. W \in [1..Len(ws) -> Worker]
  BY <1>1, <1>3 DEF Walked
<1>5. W \in Seq(Worker) /\ Len(W) = Len(ws)
  <2> HIDE DEF W
  <2> QED BY <1>1, <1>4, SeqDef, LenProperties
<1> QED BY <1>3, <1>5

LEMMA ExitedTypes ==
  Exited => /\ thread' \in {"online", "exited"} /\ inbox' \in Seq(SUBSET Eoas)
            /\ handlers' \in Seq(Handler) /\ workers' \in Seq(Worker)
            /\ registered' \in [Eoas -> 0..Len(workers')]
BY DEF Exited

\* A walk ends the thread, or leaves it well formed.
LEMMA WalkOnTypes ==
  ASSUME NEW A \in SUBSET Eoas, NEW i \in 1..(N + 1), NEW hs \in Seq(Handler),
         NEW ws \in Seq(Worker), NEW reg \in [Eoas -> 0..Len(ws)],
         thread \in {"online", "exited"}, WalkOn(A, i, hs, ws, reg)
  PROVE  /\ thread' \in {"online", "exited"} /\ handlers' \in Seq(Handler)
         /\ workers' \in Seq(Worker) /\ registered' \in [Eoas -> 0..Len(workers')]
<1> DEFINE k == NextToCreate(A, i, reg)
<1>1. k \in i..(N + 1) /\ N \in Nat \ {0}
  BY NextFacts, AccountFacts
<1>2. CASE k <= N /\ Checked[k] \notin Accounts
  BY <1>2, ExitedTypes DEF WalkOn
<1>3. CASE ~(k <= N /\ Checked[k] \notin Accounts)
  <2>1. /\ workers' = Walked(A, i, k, ws, reg)
        /\ handlers' = IF k > N THEN hs ELSE Append(hs, [active |-> A, at |-> k])
        /\ registered' = reg /\ thread' = thread
    BY <1>3 DEF WalkOn
  <2>2. k <= N => [active |-> A, at |-> k] \in Handler
    BY <1>1 DEF Handler
  <2>3. handlers' \in Seq(Handler)
    <3> HIDE DEF k
    <3>1. CASE k > N
      BY <2>1, <3>1
    <3>2. CASE k <= N
      BY <1>1, <2>1, <2>2, <3>2, AppendProperties
    <3> QED BY <1>1, <3>1, <3>2
  <2>4. workers' \in Seq(Worker) /\ Len(workers') = Len(ws)
    <3> HIDE DEF k
    <3> QED BY <2>1, WalkedFacts
  <2> QED BY <2>1, <2>3, <2>4
<1> QED BY <1>2, <1>3

LEMMA WithoutFacts ==
  ASSUME NEW S, NEW s \in Seq(S), NEW i \in 1..Len(s)
  PROVE  Without(s, i) \in Seq(S) /\ Len(Without(s, i)) = Len(s) - 1
<1> DEFINE a == SubSeq(s, 1, i - 1)
           b == SubSeq(s, i + 1, Len(s))
<1>0. Len(s) \in Nat
  OBVIOUS
<1>1. a \in Seq(S) /\ Len(a) = i - 1
  BY <1>0, SubSeqProperties, ElementOfSeq
<1>2. b \in Seq(S) /\ Len(b) = Len(s) - i
  BY <1>0, SubSeqProperties, ElementOfSeq
<1>3. Without(s, i) = a \o b
  BY DEF Without
<1> HIDE DEF a, b
<1>4. a \o b \in Seq(S) /\ Len(a \o b) = Len(a) + Len(b)
  BY <1>1, <1>2, ConcatProperties
<1> QED BY <1>0, <1>1, <1>2, <1>3, <1>4

-----------------------------------------------------------------------------
(* Types *)

MasterOK == /\ funded \subseteq Eoas /\ backed \in BOOLEAN
            /\ budget \in [{"change", "rpc", "redis", "crash"} -> Nat]
            /\ checkPc \in {"sleep", "post"} \cup Queues
            /\ seen \in [active: SUBSET Eoas, status: Healths]
            /\ latest \in Healths
            /\ missed \subseteq Queues /\ overlap \in BOOLEAN
            /\ paused \in [Queues -> BOOLEAN]
ThreadOK == /\ thread \in {"online", "exited"}
            /\ inbox \in Seq(SUBSET Eoas)
            /\ handlers \in Seq(Handler)
            /\ workers \in Seq(Worker)
            /\ registered \in [Eoas -> 0..Len(workers)]

LEMMA TypeParts == TypeOK <=> MasterOK /\ ThreadOK
BY DEF TypeOK, MasterOK, ThreadOK

LEMMA TypeInit == Init => TypeOK
<1> SUFFICES ASSUME Init PROVE TypeOK
  OBVIOUS
<1>a. overlap \in BOOLEAN
  BY Zenon DEF Init
<1>1. MasterOK
  BY <1>a, PoolConstantsOK DEF Init, MasterOK, Healths
<1>2. ThreadOK
  BY DEF Init, ThreadOK
<1> QED BY <1>1, <1>2, TypeParts

LEMMA TypeStep == TypeOK /\ [Next]_vars => TypeOK'
<1> SUFFICES ASSUME TypeOK, [Next]_vars PROVE MasterOK' /\ ThreadOK'
  BY DEF TypeOK, MasterOK, ThreadOK
<1>0. MasterOK /\ ThreadOK
  BY TypeParts
<1>1. CASE Gather
  <2>1. MasterOK'
    BY <1>0, <1>1 DEF Gather, MasterOK, Spend, Healths, Queues, execThread
  <2> QED BY <1>0, <1>1, <2>1 DEF Gather, ThreadOK, execThread
<1>2. ASSUME NEW q \in Queues, SetQueue(q) PROVE MasterOK' /\ ThreadOK'
  <2> DEFINE sick == seen.status = "unhealthy"
  <2>1. paused' = [paused EXCEPT ![q] = sick] \/ UNCHANGED paused
    BY <1>2 DEF SetQueue, Told
  <2>2. sick \in BOOLEAN
    OBVIOUS
  <2> HIDE DEF sick
  <2>3. paused' \in [Queues -> BOOLEAN]
    BY <1>0, <2>1, <2>2 DEF MasterOK
  <2>a. missed' \subseteq Queues
    BY <1>0, <1>2 DEF SetQueue, Told, MasterOK
  <2>4. latest' \in Healths /\ checkPc' \in {"sleep", "post"} \cup Queues /\ budget' \in [{"change", "rpc", "redis", "crash"} -> Nat]
    BY <1>0, <1>2 DEF SetQueue, MasterOK, Spend, Queues
  <2>5. MasterOK'
    BY <1>0, <1>2, <2>a, <2>3, <2>4 DEF SetQueue, MasterOK
  <2> QED BY <1>0, <1>2, <2>5 DEF SetQueue, ThreadOK, execThread
<1>3. CASE Post
  <2>1. MasterOK'
    BY <1>0, <1>3 DEF Post, MasterOK
  <2>2. inbox' \in Seq(SUBSET Eoas)
    BY <1>0, <1>3 DEF Post, MasterOK, ThreadOK
  <2> QED BY <1>0, <1>3, <2>1, <2>2 DEF Post, ThreadOK
<1>4. CASE Receive
  <2>1. MasterOK'
    BY <1>0, <1>4 DEF Receive, MasterOK, master
  <2>2. /\ Head(inbox) \in SUBSET Eoas /\ Tail(inbox) \in Seq(SUBSET Eoas)
        /\ 1 \in 1..(N + 1)
    BY <1>0, <1>4, AccountFacts DEF Receive, ThreadOK
  <2>3. WalkOn(Head(inbox), 1, handlers, workers, registered) /\ inbox' \in Seq(SUBSET Eoas)
    BY <1>4, <2>2 DEF Receive
  <2> QED BY <1>0, <2>1, <2>2, <2>3, WalkOnTypes DEF ThreadOK
<1>5. ASSUME NEW i \in 1..Len(handlers), Created(i) PROVE MasterOK' /\ ThreadOK'
  <2> DEFINE h  == handlers[i]
             e  == Checked[h.at]
             hs == Without(handlers, i)
             ws == Append(workers, [eoa |-> e, st |-> "running"])
             rg == [registered EXCEPT ![e] = Len(workers) + 1]
  <2>1. MasterOK'
    BY <1>0, <1>5 DEF Created, MasterOK, master
  <2>2. h \in Handler /\ hs \in Seq(Handler)
    BY <1>0, WithoutFacts DEF ThreadOK
  <2>3. /\ h.active \in SUBSET Eoas /\ h.at \in 1..N /\ h.at + 1 \in 1..(N + 1) /\ e \in Eoas
    BY <2>2, AccountFacts DEF Handler
  <2>4. [eoa |-> e, st |-> "running"] \in Worker
    BY <2>3 DEF Worker
  <2>5. ws \in Seq(Worker) /\ Len(ws) = Len(workers) + 1
    BY <1>0, <2>4, AppendProperties DEF ThreadOK
  <2>6. rg \in [Eoas -> 0..Len(ws)]
    BY <1>0, <2>3, <2>5 DEF ThreadOK
  <2>7. WalkOn(h.active, h.at + 1, hs, ws, rg) /\ inbox' \in Seq(SUBSET Eoas)
    BY <1>0, <1>5 DEF Created, ThreadOK
  <2>8. thread \in {"online", "exited"}
    BY <1>0 DEF ThreadOK
  <2> HIDE DEF h, e, hs, ws, rg
  <2> QED BY <2>1, <2>2, <2>3, <2>5, <2>6, <2>7, <2>8, WalkOnTypes DEF ThreadOK
<1>6. ASSUME NEW x \in 1..Len(workers), LastJobDone(x) PROVE MasterOK' /\ ThreadOK'
  <2>1. MasterOK'
    BY <1>0, <1>6 DEF LastJobDone, MasterOK, master
  <2>2. workers[x] \in Worker /\ [workers[x] EXCEPT !.st = "paused"] \in Worker
    <3>1. workers[x] \in Worker
      BY <1>0 DEF ThreadOK
    <3> QED BY <3>1 DEF Worker
  <2>3. workers' = [workers EXCEPT ![x] = [workers[x] EXCEPT !.st = "paused"]]
    BY <1>6 DEF LastJobDone
  <2>4. workers' \in Seq(Worker) /\ Len(workers') = Len(workers)
    BY <1>0, <2>2, <2>3, ExceptSeq DEF ThreadOK
  <2> QED BY <1>0, <1>6, <2>1, <2>4 DEF LastJobDone, ThreadOK
<1>7. CASE ThreadExit
  <2>1. MasterOK'
    BY <1>0, <1>7 DEF ThreadExit, MasterOK, master, Spend
  <2> QED BY <1>7, <2>1, ExitedTypes DEF ThreadExit, ThreadOK
<1>8. CASE ThreadStart
  BY <1>0, <1>8 DEF ThreadStart, MasterOK, ThreadOK, master
<1>9. CASE NodeRestart
  <2>a. overlap' \in BOOLEAN
    BY <1>9, Zenon DEF NodeRestart
  <2>1. MasterOK'
    BY <1>0, <1>9, <2>a DEF NodeRestart, MasterOK, Spend, Healths
  <2> QED BY <1>9, <2>1, ExitedTypes DEF NodeRestart, ThreadOK
<1>10. CASE Change
  <2>1. funded' \subseteq Eoas /\ backed' \in BOOLEAN
    BY <1>0, <1>10 DEF Change, MasterOK
  <2>2. budget' \in [{"change", "rpc", "redis", "crash"} -> Nat]
    BY <1>0, <1>10 DEF Change, MasterOK, Spend
  <2> QED BY <1>0, <1>10, <2>1, <2>2 DEF Change, MasterOK, ThreadOK, master, execThread
<1>11. CASE UNCHANGED vars
  BY <1>0, <1>11 DEF vars, MasterOK, ThreadOK, master, execThread
<1> QED
  BY <1>1, <1>2, <1>3, <1>4, <1>5, <1>6, <1>7, <1>8, <1>9, <1>10, <1>11
     DEF Next, MasterStep, ThreadStep

\* Every reachable state is well formed: a worker that is registered exists, and a handler
\* stands at an account the checks look at.
THEOREM TypeCorrect == Spec => []TypeOK
<1> QED BY TypeInit, TypeStep, PTL DEF Spec

-----------------------------------------------------------------------------
(* Queues *)

Stands(q, status) == paused[q] = (status = "unhealthy")

\* While the events of a check are sent out, the queues told so far stand as it found; where
\* nothing changed, those that no failing call kept from being told still stand so.
QueueInv ==
  /\ checkPc = "sleep" /\ latest # "none" => \A q \in Queues \ missed : Stands(q, latest)
  /\ checkPc = "simulator" => Stands("executor", seen.status) /\ "executor" \notin missed
  /\ checkPc = "post" => \A q \in Queues \ missed : Stands(q, seen.status)

LEMMA QueueInit == Init => QueueInv
BY DEF Init, QueueInv

LEMMA QueueStep == TypeOK /\ QueueInv /\ [Next]_vars => QueueInv'
<1> SUFFICES ASSUME TypeOK, QueueInv, [Next]_vars PROVE QueueInv'
  OBVIOUS
<1>0. paused \in [Queues -> BOOLEAN] /\ seen.status \in Healths /\ missed \subseteq Queues
  BY DEF TypeOK
<1> USE DEF QueueInv, Stands, Queues
<1>1. CASE Gather
  <2>1. UNCHANGED <<paused, latest, missed>> /\ checkPc = "sleep"
    BY <1>1 DEF Gather
  <2>2. /\ seen'.status \in {"healthy", "unhealthy"}
        /\ checkPc' = IF seen'.status # latest THEN "executor" ELSE "post"
    BY <1>1 DEF Gather
  <2> QED BY <2>1, <2>2
<1>2. ASSUME NEW q \in Queues, SetQueue(q) PROVE QueueInv'
  <2>1. CASE Told(q)
    <3>1. /\ seen' = seen /\ checkPc = q /\ missed' = missed \ {q}
          /\ paused' = [paused EXCEPT ![q] = (seen.status = "unhealthy")]
      BY <1>2, <2>1 DEF SetQueue, Told
    <3>2. paused'[q] = (seen.status = "unhealthy") /\ \A x \in Queues \ {q} : paused'[x] = paused[x]
      BY <1>0, <3>1
    <3>3. \/ checkPc' = IF q = "executor" THEN "simulator" ELSE "post"
          \/ /\ checkPc' = "sleep" /\ latest' = seen.status
             /\ missed' = IF q = "executor" THEN Queues ELSE missed \cup {q}
      BY <1>2 DEF SetQueue
    <3> QED BY <3>1, <3>2, <3>3
  <2>2. CASE ~Told(q)
    <3>1. /\ checkPc' = "sleep" /\ latest' = seen.status /\ seen' = seen /\ checkPc = q
          /\ missed' = IF q = "executor" THEN Queues ELSE missed \cup {q}
          /\ paused' \in {paused, [paused EXCEPT ![q] = (seen.status = "unhealthy")]}
      BY <1>2, <2>2 DEF SetQueue
    <3>2. \A x \in Queues \ {q} : paused'[x] = paused[x]
      BY <1>0, <3>1
    <3> QED BY <3>1, <3>2
  <2> QED BY <2>1, <2>2
<1>3. CASE Post
  BY <1>3 DEF Post
<1>4. CASE Receive
  BY <1>4 DEF Receive, master
<1>5. ASSUME NEW i \in 1..Len(handlers), Created(i) PROVE QueueInv'
  BY <1>5 DEF Created, master
<1>6. ASSUME NEW x \in 1..Len(workers), LastJobDone(x) PROVE QueueInv'
  BY <1>6 DEF LastJobDone, master
<1>7. CASE ThreadExit
  BY <1>7 DEF ThreadExit, master
<1>8. CASE ThreadStart
  BY <1>8 DEF ThreadStart, master
<1>9. CASE NodeRestart
  BY <1>9 DEF NodeRestart
<1>10. CASE Change
  BY <1>10 DEF Change, master
<1>11. CASE UNCHANGED vars
  BY <1>11 DEF vars, master
<1> QED
  BY <1>1, <1>2, <1>3, <1>4, <1>5, <1>6, <1>7, <1>8, <1>9, <1>10, <1>11
     DEF Next, MasterStep, ThreadStep

\* The queues stand between two checks as the latest status says, however they were found,
\* whatever the checks find and however often calls of Redis fail and thread and node die in
\* the middle of a round (master/bootstrap.ts:161-178). Only a queue that a failing call kept
\* from being told may stand otherwise, until the next change of status.
THEOREM QueuesStand == Spec => []QueuesFollowHealth
<1>1. QueueInv => QueuesFollowHealth
  BY DEF QueueInv, QueuesFollowHealth, Stands
<1> QED BY <1>1, QueueInit, QueueStep, TypeCorrect, PTL DEF Spec

-----------------------------------------------------------------------------
(* One worker for an EOA *)

\* Unless checks overlapped one message is under way, and none while a check runs.
OneMessage ==
  /\ Len(inbox) <= 1 /\ Len(handlers) <= 1
  /\ inbox = <<>> \/ handlers = <<>>
  /\ checkPc # "sleep" => inbox = <<>> /\ handlers = <<>>

\* The map of the thread knows its workers, and a handler waits for a worker that is
\* still missing in it.
MapInv ==
  /\ \A x \in 1..Len(workers) : registered[workers[x].eoa] = x
  /\ \A i \in 1..Len(handlers) : registered[Checked[handlers[i].at]] = 0

SerialInv == OneMessage /\ MapInv

LEMMA SumZero == ASSUME NEW n \in Nat, NEW m \in Nat, n + m = 0 PROVE n = 0 /\ m = 0
OBVIOUS

LEMMA SerialInit == Init => overlap \/ SerialInv
BY DEF Init, SerialInv, OneMessage, MapInv

LEMMA ExitedSerial ==
  Exited => inbox' = <<>> /\ handlers' = <<>> /\ workers' = <<>>
BY DEF Exited

\* A walk that starts without another handler leaves the map right.
LEMMA WalkOnMap ==
  ASSUME NEW A \in SUBSET Eoas, NEW i \in 1..(N + 1), NEW ws \in Seq(Worker),
         NEW reg \in [Eoas -> 0..Len(ws)], WalkOn(A, i, <<>>, ws, reg),
         \A x \in 1..Len(ws) : reg[ws[x].eoa] = x
  PROVE  MapInv' /\ Len(handlers') \in 0..1
<1> DEFINE k == NextToCreate(A, i, reg)
<1>1. k \in i..(N + 1) /\ N \in Nat /\ (k <= N => reg[Checked[k]] = 0)
  <2>1. N \in Nat
    BY AccountFacts
  <2>2. k \in i..(N + 1) /\ (k <= N => reg[Checked[k]] = 0)
    BY NextFacts, Zenon
  <2> QED BY <2>1, <2>2
<1>2. CASE k <= N /\ Checked[k] \notin Accounts
  <2>1. inbox' = <<>> /\ handlers' = <<>> /\ workers' = <<>>
    BY <1>2, ExitedSerial DEF WalkOn
  <2>2. Len(handlers') = 0 /\ Len(workers') = 0
    BY <2>1
  <2> HIDE DEF k
  <2> QED BY <2>2 DEF MapInv
<1>3. CASE ~(k <= N /\ Checked[k] \notin Accounts)
  <2>1. /\ workers' = Walked(A, i, k, ws, reg)
        /\ handlers' = IF k > N THEN <<>> ELSE Append(<<>>, [active |-> A, at |-> k])
        /\ registered' = reg
    BY <1>3 DEF WalkOn
  <2>2. \A x \in 1..Len(workers') : registered'[workers'[x].eoa] = x
    <3> HIDE DEF k
    <3> QED BY <2>1, WalkedFacts
  <2>3. Len(handlers') \in 0..1 /\ \A h \in 1..Len(handlers') : handlers'[h].at = k /\ k <= N
    <3> HIDE DEF k
    <3> QED BY <1>1, <2>1
  <2> HIDE DEF k
  <2> QED BY <1>1, <2>1, <2>2, <2>3 DEF MapInv
<1> QED BY <1>2, <1>3

LEMMA SerialStep == TypeOK /\ SerialInv /\ [Next]_vars /\ (Gather => ~(Pending > 0)) => SerialInv'
<1> SUFFICES ASSUME TypeOK, SerialInv, [Next]_vars, Gather => ~(Pending > 0) PROVE SerialInv'
  OBVIOUS
<1>0. /\ inbox \in Seq(SUBSET Eoas) /\ handlers \in Seq(Handler) /\ workers \in Seq(Worker)
      /\ registered \in [Eoas -> 0..Len(workers)] /\ thread \in {"online", "exited"}
      /\ Len(inbox) \in Nat /\ Len(handlers) \in Nat /\ Len(workers) \in Nat
  BY DEF TypeOK
<1>a. (Len(inbox) = 0 <=> inbox = <<>>) /\ (Len(handlers) = 0 <=> handlers = <<>>)
  BY <1>0, EmptyIffZero
<1>b. /\ \A y \in 1..Len(handlers) : handlers[y] \in Handler
      /\ \A y \in 1..Len(workers) : workers[y] \in Worker /\ workers[y].eoa \in Eoas
  <2>1. \A y \in 1..Len(workers) : workers[y] \in Worker
    BY <1>0
  <2> QED BY <1>0, <2>1 DEF Worker
<1>c. seen.active \in SUBSET Eoas
  BY DEF TypeOK
<1> USE DEF SerialInv, OneMessage
<1>1. CASE Gather
  <2>1. Len(inbox) + Len(handlers) = 0
    <3> DEFINE n == Len(inbox) + Len(handlers)
    <3>1. n \in Nat
      BY <1>0
    <3>2. ~(n > 0)
      BY <1>1 DEF Pending
    <3> HIDE DEF n
    <3>3. n = 0
      BY <3>1, <3>2
    <3> QED BY <3>3 DEF n
  <2>2. inbox = <<>> /\ handlers = <<>>
    BY <1>0, <1>a, <2>1, SumZero
  <2> QED BY <1>1, <2>2 DEF Gather, execThread, MapInv
<1>2. ASSUME NEW q \in Queues, SetQueue(q) PROVE SerialInv'
  BY <1>2 DEF SetQueue, execThread, MapInv, Queues
<1>3. CASE Post
  <2>1. inbox = <<>> /\ handlers = <<>> /\ handlers' = handlers /\ checkPc' = "sleep"
    BY <1>3 DEF Post
  <2>2. inbox' = <<>> \/ inbox' = Append(<<>>, seen.active)
    BY <1>3, <2>1 DEF Post
  <2>3. Len(inbox') <= 1
    <3>1. <<>> \in Seq(SUBSET Eoas) /\ Len(<<>>) = 0 /\ seen.active \in SUBSET Eoas
      BY <1>c, EmptySeq
    <3>2. Len(Append(<<>>, seen.active)) = 1
      BY <3>1, AppendProperties
    <3>3. Len(inbox') = 0 \/ Len(inbox') = 1
      BY <2>2, <3>1, <3>2, Zenon
    <3> DEFINE n == Len(inbox')
    <3>4. n = 0 \/ n = 1
      BY <3>3
    <3> HIDE DEF n
    <3>5. n <= 1
      BY <3>4
    <3> QED BY <3>5 DEF n
  <2> QED BY <1>3, <2>1, <2>3 DEF Post, MapInv
<1>4. CASE Receive
  <2>1. inbox # <<>> /\ handlers = <<>> /\ checkPc = "sleep" /\ checkPc' = checkPc
    BY <1>4 DEF Receive, master
  <2>a. Len(inbox) = 1
    <3> DEFINE n == Len(inbox)
    <3>1. n \in Nat /\ n # 0 /\ n <= 1
      BY <1>0, <1>a, <2>1
    <3> HIDE DEF n
    <3>2. n = 1
      BY <3>1
    <3> QED BY <3>2 DEF n
  <2>2. /\ Head(inbox) \in SUBSET Eoas /\ Tail(inbox) = <<>>
        /\ 1 \in 1..(N + 1)
    <3>1. Tail(inbox) \in Seq(SUBSET Eoas) /\ Len(Tail(inbox)) = 0 /\ Head(inbox) \in SUBSET Eoas
      BY <1>0, <2>1, <2>a, HeadTailProperties
    <3> QED BY <3>1, EmptyIffZero, AccountFacts
  <2>3. WalkOn(Head(inbox), 1, <<>>, workers, registered) /\ inbox' = <<>>
    BY <1>4, <2>1, <2>2 DEF Receive
  <2>4. MapInv' /\ Len(handlers') \in 0..1
    BY <1>0, <2>2, <2>3, WalkOnMap DEF MapInv
  <2> QED BY <2>1, <2>3, <2>4
<1>5. ASSUME NEW i \in 1..Len(handlers), Created(i) PROVE SerialInv'
  <2> DEFINE h  == handlers[i]
             e  == Checked[h.at]
             ws == Append(workers, [eoa |-> e, st |-> "running"])
             rg == [registered EXCEPT ![e] = Len(workers) + 1]
  <2>1. Len(handlers) = 1 /\ i = 1
    <3> DEFINE n == Len(handlers)
    <3>1. n \in Nat /\ n <= 1 /\ i \in 1..n
      BY <1>0
    <3> HIDE DEF n
    <3>2. n = 1 /\ i = 1
      BY <3>1
    <3> QED BY <3>2 DEF n
  <2>a. handlers # <<>> /\ inbox = <<>> /\ inbox' = <<>> /\ checkPc = "sleep" /\ checkPc' = checkPc
    <3>1. handlers # <<>>
      BY <1>0, <1>a, <2>1
    <3> QED BY <1>5, <3>1 DEF Created, master
  <2>2. Without(handlers, i) = <<>>
    <3>1. Without(handlers, i) \in Seq(Handler) /\ Len(Without(handlers, i)) = Len(handlers) - 1
      BY <1>0, WithoutFacts
    <3>2. Len(Without(handlers, i)) = 0
      BY <2>1, <3>1
    <3> QED BY <3>1, <3>2, EmptyIffZero
  <2>3. h.active \in SUBSET Eoas /\ h.at \in 1..N
    <3>1. h \in Handler
      BY <1>b
    <3> QED BY <3>1 DEF Handler
  <2>4. e \in Eoas /\ h.at + 1 \in 1..(N + 1)
    BY <2>3, AccountFacts
  <2>5. [eoa |-> e, st |-> "running"] \in Worker
    BY <2>4 DEF Worker
  <2>6. /\ ws \in Seq(Worker) /\ Len(ws) = Len(workers) + 1
        /\ \A x \in 1..Len(workers) : ws[x] = workers[x]
        /\ ws[Len(workers) + 1] = [eoa |-> e, st |-> "running"]
    <3> HIDE DEF e
    <3> QED BY <1>0, <2>5, AppendProperties
  <2> HIDE DEF h, e, ws
  <2>7. rg \in [Eoas -> 0..Len(ws)] /\ rg[e] = Len(workers) + 1 /\ \A d \in Eoas \ {e} : rg[d] = registered[d]
    BY <1>0, <2>4, <2>6
  <2>8. registered[e] = 0 /\ \A x \in 1..Len(workers) : registered[workers[x].eoa] = x /\ workers[x].eoa \in Eoas
    <3>1. \A x \in 1..Len(workers) : workers[x].eoa \in Eoas
      BY <1>b
    <3> QED BY <3>1 DEF MapInv, h, e
  <2>9. \A x \in 1..Len(ws) : rg[ws[x].eoa] = x
    <3> HIDE DEF rg
    <3>1. ASSUME NEW x \in 1..Len(workers) PROVE rg[ws[x].eoa] = x
      BY <1>0, <2>6, <2>7, <2>8
    <3>2. rg[ws[Len(workers) + 1].eoa] = Len(workers) + 1
      BY <2>6, <2>7
    <3>3. SUFFICES ASSUME NEW x \in 1..Len(ws) PROVE rg[ws[x].eoa] = x
      OBVIOUS
    <3>4. x \in 1..Len(workers) \/ x = Len(workers) + 1
      <4> DEFINE n == Len(workers)
      <4>1. n \in Nat /\ x \in 1..(n + 1)
        BY <1>0, <2>6
      <4> HIDE DEF n
      <4>2. x \in 1..n \/ x = n + 1
        BY <4>1
      <4> QED BY <4>2 DEF n
    <3> QED BY <3>1, <3>2, <3>4, Zenon
  <2>10. WalkOn(h.active, h.at + 1, <<>>, ws, rg)
    <3>1. WalkOn(h.active, h.at + 1, Without(handlers, i), ws, rg)
      BY <1>5, Zenon DEF Created, h, e, ws
    <3> QED BY <2>2, <3>1, Zenon
  <2> HIDE DEF rg
  <2>11. MapInv' /\ Len(handlers') \in 0..1
    BY <2>3, <2>4, <2>6, <2>7, <2>9, <2>10, WalkOnMap
  <2> QED BY <2>a, <2>11
<1>6. ASSUME NEW x \in 1..Len(workers), LastJobDone(x) PROVE SerialInv'
  <2>1. workers' = [workers EXCEPT ![x] = [workers[x] EXCEPT !.st = "paused"]]
    BY <1>6 DEF LastJobDone
  <2>2. \A y \in 1..Len(workers) : workers[y] \in Worker
    BY <1>0
  <2>3. Len(workers') = Len(workers) /\ \A y \in 1..Len(workers) : workers'[y].eoa = workers[y].eoa
    BY <1>0, <2>1, <2>2 DEF Worker
  <2> QED BY <1>6, <2>3 DEF LastJobDone, master, MapInv
<1>7. CASE ThreadExit
  BY <1>7, ExitedSerial DEF ThreadExit, MapInv
<1>8. CASE ThreadStart
  BY <1>8 DEF ThreadStart, master, MapInv
<1>9. CASE NodeRestart
  BY <1>9, ExitedSerial DEF NodeRestart, MapInv
<1>10. CASE Change
  BY <1>10 DEF Change, master, execThread, MapInv
<1>11. CASE UNCHANGED vars
  BY <1>11 DEF vars, master, execThread, MapInv
<1> QED
  BY <1>1, <1>2, <1>3, <1>4, <1>5, <1>6, <1>7, <1>8, <1>9, <1>10, <1>11
     DEF Next, MasterStep, ThreadStep

\* Only a restart of the node forgets that checks overlapped, and then nothing is under way.
LEMMA OverlapStep == overlap /\ [Next]_vars /\ ~overlap' => SerialInv'
<1> SUFFICES ASSUME overlap, [Next]_vars, ~overlap' PROVE SerialInv'
  OBVIOUS
<1>1. CASE NodeRestart
  BY <1>1, ExitedSerial, EmptySeq DEF NodeRestart, SerialInv, OneMessage, MapInv
<1>2. CASE [MasterStep]_vars
  BY <1>2 DEF MasterStep, Gather, Post, SetQueue, vars, master
<1>3. CASE ThreadStep
  BY <1>3 DEF ThreadStep, Receive, ThreadStart, Created, master
<1>4. CASE (\E x \in 1..Len(workers) : LastJobDone(x)) \/ ThreadExit \/ Change
  BY <1>4 DEF LastJobDone, ThreadExit, Change, master
<1> QED BY <1>1, <1>2, <1>3, <1>4 DEF Next

LEMMA MapHasOne == TypeOK /\ MapInv => OneWorkerPerEoa
<1> SUFFICES ASSUME TypeOK, MapInv, NEW e \in Eoas
             PROVE  Cardinality({x \in 1..Len(workers) : workers[x].eoa = e}) <= 1
  BY DEF OneWorkerPerEoa
<1>1. {x \in 1..Len(workers) : workers[x].eoa = e} \subseteq {registered[e]}
  BY DEF MapInv
<1>2. IsFiniteSet({registered[e]}) /\ Cardinality({registered[e]}) = 1
  BY FS_Singleton
<1> QED BY <1>1, <1>2, FS_Subset

\* As long as each check begins after the thread has handled the last message to the end, the
\* thread has at most one worker for an EOA, whatever dies and whichever EOAs come and go
\* (nonce-manager.service.ts:47-49); overlapping checks break it, as pool_overlap shows.
THEOREM OneWorker == Spec => []OneWorkerUnlessOverlap
<1>1. TypeOK /\ (overlap \/ SerialInv) => OneWorkerUnlessOverlap
  BY MapHasOne DEF SerialInv, OneWorkerUnlessOverlap
<1>2. TypeOK /\ (overlap \/ SerialInv) /\ [Next]_vars => (overlap \/ SerialInv)'
  <2>1. ~overlap' => (Gather => ~(Pending > 0))
    BY DEF Gather
  <2> QED BY <2>1, SerialStep, OverlapStep
<1>3. Init => overlap \/ SerialInv
  BY SerialInit
<1> QED BY <1>1, <1>2, <1>3, TypeCorrect, PTL DEF Spec
=============================================================================
