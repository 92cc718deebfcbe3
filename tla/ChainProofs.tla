------------------------------ MODULE ChainProofs ------------------------------
(***************************************************************************)
(* What the processes of the node know about a chain.                      *)
(*                                                                         *)
(* Of its providers: the copies of the RPC configuration and the requests  *)
(* by them, for every number of providers, workers, messages, exits and    *)
(* kinds of errors.                                                        *)
(*                                                                         *)
(* Of its gas: what the processes know, and the fees they make of it, for  *)
(* every number of chains and all prices, tips and histories of blocks.    *)
(***************************************************************************)
EXTENDS RpcManager, GasManager, TLAPS, FiniteSetTheorems, SequenceTheorems, WellFoundedInduction

States == {"active", "degraded"}

LEMMA MessageFacts ==
  /\ \A m \in Message :
       /\ m.type \in {"setup", "state", "order"}
       /\ m.type # "state" => m.prio \in Orders
       /\ m.type = "state" => m.provider \in Providers /\ m.state \in States
       /\ m.type = "order" => m.state \in [Providers -> States]
  /\ \A o \in Orders : [type |-> "setup", prio |-> o] \in Message
  /\ \A p \in Providers, v \in States : StateMessage(p, v) \in Message
  /\ \A o \in Orders, st \in [Providers -> States] : [type |-> "order", prio |-> o, state |-> st] \in Message
BY DEF Message, States, StateMessage

\* Swapping two providers tells the others apart as before.
LEMMA SwappedOrder ==
  ASSUME prio \in Orders, NEW p \in Providers, prio[p] # 0
  PROVE  Swapped(p) \in Orders
<1>1. Swapped(p) \in [Providers -> Nat]
  BY DEF Swapped, Orders
<1>2. ASSUME NEW q \in Providers, NEW r \in Providers, Swapped(p)[q] = Swapped(p)[r]
      PROVE  q = r
  BY <1>2 DEF Swapped, Orders
<1> QED BY <1>1, <1>2 DEF Orders

LEMMA PostedTypes ==
  ASSUME NEW m \in Message, NEW l, inbox \in [Workers -> Seq(Message)]
  PROVE  Posted(m, l) \in [Workers -> Seq(Message)]
BY AppendProperties DEF Posted

LEMMA ProvidersCounted == Cardinality(Providers) \in Nat
BY RpcConstantsOK, FS_CardinalityType

-----------------------------------------------------------------------------
(* The place of a provider in an order *)

Before(o, p) == {q \in Providers : o[q] < o[p]}

LEMMA BeforeCounted ==
  ASSUME NEW o \in Orders, NEW p \in Providers
  PROVE  /\ IsFiniteSet(Before(o, p))
         /\ Cardinality(Before(o, p)) \in 0..(Cardinality(Providers) - 1)
<1>1. Before(o, p) \subseteq Providers \ {p}
  BY DEF Before, Orders
<1>2. IsFiniteSet(Providers \ {p}) /\ Cardinality(Providers \ {p}) = Cardinality(Providers) - 1
  BY RpcConstantsOK, FS_RemoveElement
<1>3. /\ IsFiniteSet(Before(o, p)) /\ Cardinality(Before(o, p)) \in Nat
      /\ Cardinality(Before(o, p)) <= Cardinality(Providers) - 1
  BY <1>1, <1>2, FS_Subset, FS_CardinalityType
<1> QED BY <1>3, ProvidersCounted

\* Two providers have different places.
LEMMA PlacesDiffer ==
  ASSUME NEW o \in Orders, NEW p \in Providers, NEW q \in Providers,
         Cardinality(Before(o, p)) = Cardinality(Before(o, q))
  PROVE  p = q
<1>1. ASSUME NEW r \in Providers, NEW s \in Providers, o[r] < o[s]
      PROVE  Cardinality(Before(o, r)) # Cardinality(Before(o, s))
  <2>1. Before(o, r) \subseteq Before(o, s) /\ r \in Before(o, s) /\ r \notin Before(o, r)
    BY <1>1 DEF Before, Orders
  <2> QED BY <2>1, BeforeCounted, FS_Subset
<1>2. o[p] \in Nat /\ o[q] \in Nat /\ (o[p] = o[q] => p = q)
  BY DEF Orders
<1>3. ~(o[p] < o[q]) /\ ~(o[q] < o[p])
  BY <1>1
<1> QED BY <1>2, <1>3

\* So every place is taken.
LEMMA EveryPlace ==
  ASSUME NEW o \in Orders, NEW i \in 1..Cardinality(Providers)
  PROVE  \E p \in Providers : Cardinality(Before(o, p)) = i - 1
<1> DEFINE n      == Cardinality(Providers)
           Places == 0..(n - 1)
           place  == [p \in Providers |-> Cardinality(Before(o, p))]
<1>1. n \in Nat \ {0}
  BY ProvidersCounted
<1>2. place \in Injection(Providers, Places)
  <2>1. place \in [Providers -> Places]
    BY BeforeCounted
  <2>2. \A p, q \in Providers : place[p] = place[q] => p = q
    BY PlacesDiffer
  <2> HIDE DEF place, Places
  <2> QED BY <2>1, <2>2 DEF Injection, IsInjective
<1>3. IsFiniteSet(Places) /\ Cardinality(Places) = n
  <2> HIDE DEF n
  <2> QED BY <1>1, FS_Interval
<1>4. place \in Surjection(Providers, Places)
  <2> HIDE DEF place, Places
  <2> QED BY <1>2, <1>3, FS_Injection
<1>5. i - 1 \in Places
  BY <1>1
<1>6. \E p \in Providers : place[p] = i - 1
  <2> HIDE DEF place, Places
  <2> QED BY <1>4, <1>5 DEF Surjection
<1> QED BY <1>6

LEMMA AtFacts ==
  ASSUME NEW o \in Orders, NEW i \in 1..Cardinality(Providers)
  PROVE  At(o, i) \in Providers /\ Cardinality(Before(o, At(o, i))) = i - 1
BY EveryPlace DEF At, Before

-----------------------------------------------------------------------------
(* Types *)

MasterOK ==
  /\ prio \in Orders
  /\ state \in [Providers -> States]
  /\ metrics \in [Providers -> [total : Nat, ok : Nat, failing : Nat]]
  /\ checking \subseteq Providers
  /\ scheduled \in Nat
  /\ started \in BOOLEAN
  /\ {rounds, exits, requests} \subseteq Nat

LifeOK == life \in [Workers -> {"down", "online", "listening"}] /\ again \in [Workers -> BOOLEAN]

CopiesOK == inbox \in [Workers -> Seq(Message)] /\ conf \in [Workers -> Copy \cup {None}]

RequestsOK == req \in [Workers -> Request \cup {None}]

LEMMA TypeParts == RpcTypeOK <=> MasterOK /\ LifeOK /\ CopiesOK /\ RequestsOK
BY DEF RpcTypeOK, MasterOK, LifeOK, CopiesOK, RequestsOK, States

LEMMA TypeInit == RpcInit => RpcTypeOK
<1> SUFFICES ASSUME RpcInit PROVE MasterOK /\ LifeOK /\ CopiesOK /\ RequestsOK
  BY TypeParts
<1>1. MasterOK
  <2>1. metrics \in [Providers -> [total : Nat, ok : Nat, failing : Nat]]
    BY DEF RpcInit, Fresh
  <2>2. prio \in Orders
    BY RpcConstantsOK DEF RpcInit
  <2>3. state \in [Providers -> States]
    BY DEF RpcInit, Healthy, States
  <2>4. checking \subseteq Providers /\ started \in BOOLEAN
    BY DEF RpcInit
  <2>5. scheduled \in Nat /\ {rounds, exits, requests} \subseteq Nat
    BY DEF RpcInit
  <2> QED BY <2>1, <2>2, <2>3, <2>4, <2>5 DEF MasterOK
<1>2. LifeOK /\ CopiesOK /\ RequestsOK
  BY DEF RpcInit, LifeOK, CopiesOK, RequestsOK
<1> QED BY <1>1, <1>2

LEMMA GoneTypes ==
  ASSUME LifeOK, CopiesOK, RequestsOK, NEW w \in Workers, Gone(w)
  PROVE  LifeOK' /\ CopiesOK' /\ RequestsOK'
BY DEF Gone, LifeOK, CopiesOK, RequestsOK

LEMMA CheckTypes ==
  ASSUME MasterOK, CopiesOK, NEW p \in Providers, CheckPasses(p) \/ CheckFails(p)
  PROVE  MasterOK' /\ CopiesOK'
<1>1. metrics[p].total \in Nat /\ metrics[p].ok \in Nat /\ metrics[p].failing \in Nat
  BY DEF MasterOK
<1>2. metrics' \in [Providers -> [total : Nat, ok : Nat, failing : Nat]]
  <2>1. CASE CheckPasses(p)
    BY <1>1, <2>1 DEF CheckPasses, MasterOK
  <2>2. CASE CheckFails(p)
    BY <1>1, <2>2 DEF CheckFails, MasterOK
  <2> QED BY <2>1, <2>2
<1>3. state' \in [Providers -> States]
  BY DEF CheckPasses, CheckFails, MasterOK, States
<1>4. inbox' \in [Workers -> Seq(Message)]
  <2>1. /\ StateMessage(p, "active") \in Message
        /\ StateMessage(p, "degraded") \in Message
    BY MessageFacts DEF States
  <2>2. inbox' = inbox \/ inbox' = Posted(StateMessage(p, "active"), life)
          \/ inbox' = Posted(StateMessage(p, "degraded"), life)
    BY DEF CheckPasses, CheckFails
  <2> QED BY <2>1, <2>2, PostedTypes DEF CopiesOK
<1>5. /\ conf' = conf /\ prio' = prio /\ started' = started /\ counts' = counts
      /\ checking' \subseteq Providers /\ scheduled' \in Nat
  BY DEF CheckPasses, CheckFails, MasterOK
<1>6. rounds' = rounds /\ exits' = exits /\ requests' = requests
  BY <1>5 DEF counts
<1> QED BY <1>2, <1>3, <1>4, <1>5, <1>6 DEF MasterOK, CopiesOK

LEMMA PromotionTypes ==
  ASSUME MasterOK, CopiesOK, PromotionCheck
  PROVE  MasterOK' /\ CopiesOK'
<1>1. CASE \E p \in Providers : BestFallback(p) /\ Replaceable(p) /\ Promote(p)
  <2>1. PICK p \in Providers : prio[p] # 0 /\ Promote(p)
    BY <1>1 DEF BestFallback, Promotable
  <2>2. prio' \in Orders
    BY <2>1, SwappedOrder DEF Promote, MasterOK
  <2>3. OrderMessage(Swapped(p)) \in Message
    BY <2>1, <2>2, MessageFacts DEF OrderMessage, Promote, MasterOK
  <2>4. inbox' \in [Workers -> Seq(Message)]
    BY <2>1, <2>3, PostedTypes DEF Promote, CopiesOK
  <2>5. metrics' \in [Providers -> [total : Nat, ok : Nat, failing : Nat]]
    BY <2>1 DEF Promote, Fresh, MasterOK
  <2>6. UNCHANGED <<state, checking, started, conf, counts>> /\ scheduled' \in Nat
    BY DEF PromotionCheck, MasterOK
  <2>7. rounds' = rounds /\ exits' = exits /\ requests' = requests
    BY <2>6 DEF counts
  <2> QED BY <2>2, <2>4, <2>5, <2>6, <2>7 DEF MasterOK, CopiesOK
<1>2. CASE UNCHANGED <<prio, metrics, inbox>>
  BY <1>2 DEF PromotionCheck, MasterOK, CopiesOK, counts
<1> QED BY <1>1, <1>2 DEF PromotionCheck

LEMMA CopyTypes ==
  ASSUME CopiesOK, NEW w \in Workers, NEW m \in Message, conf[w] # None \/ m.type = "setup"
  PROVE  (IF m.type = "setup" THEN SetUp(w, m) ELSE Synced(conf[w], m)) \in Copy
<1>1. conf[w] # None => conf[w] \in Copy
  BY DEF CopiesOK
<1>2. CASE m.type = "setup"
  BY <1>1, <1>2, MessageFacts DEF SetUp, Copy, Healthy
<1>3. CASE m.type = "state"
  BY <1>1, <1>3, MessageFacts DEF Synced, Copy, States
<1>4. CASE m.type = "order"
  BY <1>4, MessageFacts DEF Synced, Copy, States
<1> QED BY <1>2, <1>3, <1>4, MessageFacts

LEMMA ReceiveTypes ==
  ASSUME LifeOK, CopiesOK, RequestsOK, NEW w \in Workers, Receive(w)
  PROVE  LifeOK' /\ CopiesOK' /\ RequestsOK'
<1> DEFINE m == Head(inbox[w])
           c == IF m.type = "setup" THEN SetUp(w, m) ELSE Synced(conf[w], m)
<1>1. m \in Message /\ Tail(inbox[w]) \in Seq(Message)
  BY DEF Receive, CopiesOK
<1>2. CASE Gone(w)
  BY <1>2, GoneTypes
<1>3. CASE ~Gone(w)
  <2>1. conf[w] # None \/ m.type = "setup"
    BY <1>3 DEF Receive
  <2>2. /\ conf' = [conf EXCEPT ![w] = c]
        /\ req' = [req EXCEPT ![w] = StillActive(@, c)]
        /\ inbox' = [inbox EXCEPT ![w] = Tail(@)]
        /\ UNCHANGED <<life, again>>
    BY <1>3 DEF Receive
  <2>3. c \in Copy
    BY <1>1, <2>1, CopyTypes
  <2> HIDE DEF m, c
  <2>4. StillActive(req[w], c) \in Request \cup {None}
    <3>1. req[w] = None \/ req[w] \in Request
      BY DEF RequestsOK
    <3>2. CASE req[w] \in Request /\ req[w] # None
      <4>1. {p \in req[w].steady : c.state[p] = "active"} \in SUBSET Providers
        BY <3>2 DEF Request
      <4> DEFINE kept == {p \in req[w].steady : c.state[p] = "active"}
      <4>2. StillActive(req[w], c) = [req[w] EXCEPT !.steady = kept]
        BY <3>2 DEF StillActive
      <4> HIDE DEF kept
      <4> QED BY <3>2, <4>1, <4>2 DEF Request, kept
    <3> QED BY <3>1, <3>2 DEF StillActive
  <2> QED BY <1>1, <2>2, <2>3, <2>4 DEF LifeOK, CopiesOK, RequestsOK
<1> QED BY <1>2, <1>3

LEMMA PassedTypes ==
  ASSUME NEW r \in Request, r.at \in 1..Cardinality(Providers), NEW skipped, NEW p \in Providers
  PROVE  Passed(r, skipped, p) \subseteq Request
<1> SUFFICES ASSUME NEW b \in ChainSpoke
             PROVE  [r EXCEPT !.at = @ + 1, !.tried = IF skipped THEN @ ELSE @ \cup {p},
                              !.final = @ \/ (~skipped /\ b)] \in Request
  BY DEF Passed
<1> DEFINE a == r.at + 1
           t == IF skipped THEN r.tried ELSE r.tried \cup {p}
           f == r.final \/ (~skipped /\ b)
<1>1. a \in 1..(Cardinality(Providers) + 1)
  BY ProvidersCounted
<1>2. t \in SUBSET Providers
  BY DEF Request
<1>3. f \in BOOLEAN
  OBVIOUS
<1>4. [r EXCEPT !.at = a, !.tried = t, !.final = f] \in Request
  <2> HIDE DEF a, t, f
  <2> QED BY <1>1, <1>2, <1>3 DEF Request
<1> QED BY <1>4

LEMMA TryTypes ==
  ASSUME RequestsOK, NEW w \in Workers, Try(w)
  PROVE  RequestsOK'
<1>1. req[w] \in Request /\ req[w].at \in 1..Cardinality(Providers)
  BY ProvidersCounted DEF Try, RequestsOK, Request
<1> DEFINE p == At(req[w].order, req[w].at)
<1>2. p \in Providers
  BY <1>1, AtFacts DEF Request
<1>3. Passed(req[w], Skips(w, p), p) \subseteq Request
  BY <1>1, <1>2, PassedTypes
<1> QED BY <1>3 DEF Try, RequestsOK

LEMMA TypeStep == RpcTypeOK /\ [RpcNext]_rpcVars => RpcTypeOK'
<1> SUFFICES ASSUME MasterOK, LifeOK, CopiesOK, RequestsOK, [RpcNext]_rpcVars
             PROVE  MasterOK' /\ LifeOK' /\ CopiesOK' /\ RequestsOK'
  BY TypeParts DEF RpcTypeOK, MasterOK, LifeOK, CopiesOK, RequestsOK, States
<1>1. CASE StartRound
  BY <1>1 DEF StartRound, worker, MasterOK, LifeOK, CopiesOK, RequestsOK
<1>2. CASE PromotionCheck
  BY <1>2, PromotionTypes DEF PromotionCheck, LifeOK, RequestsOK
<1>3. ASSUME Started \/ \E w \in Workers : Online(w)
      PROVE  MasterOK' /\ LifeOK' /\ CopiesOK' /\ RequestsOK'
  <2>1. SetupMessage \in Message
    BY MessageFacts DEF SetupMessage, MasterOK
  <2>2. inbox' = inbox \/ \E l : inbox' = Posted(SetupMessage, l)
    BY <1>3 DEF Started, Online
  <2>3. inbox' \in [Workers -> Seq(Message)]
    BY <2>1, <2>2, PostedTypes DEF CopiesOK
  <2>4. MasterOK' /\ LifeOK' /\ RequestsOK' /\ conf' = conf
    BY <1>3 DEF Started, Online, master, counts, MasterOK, LifeOK, RequestsOK
  <2> QED BY <2>3, <2>4 DEF CopiesOK
<1>4. ASSUME NEW p \in Providers, CheckPasses(p) \/ CheckFails(p)
      PROVE  MasterOK' /\ LifeOK' /\ CopiesOK' /\ RequestsOK'
  BY <1>4, CheckTypes DEF CheckPasses, CheckFails, LifeOK, RequestsOK
<1>5. ASSUME NEW w \in Workers, Listening(w)
      PROVE  MasterOK' /\ LifeOK' /\ CopiesOK' /\ RequestsOK'
  BY <1>5 DEF Listening, master, counts, MasterOK, LifeOK, CopiesOK, RequestsOK
<1>6. ASSUME NEW w \in Workers, Exit(w)
      PROVE  MasterOK' /\ LifeOK' /\ CopiesOK' /\ RequestsOK'
  BY <1>6, GoneTypes DEF Exit, master, MasterOK
<1>7. ASSUME NEW w \in Workers, Receive(w)
      PROVE  MasterOK' /\ LifeOK' /\ CopiesOK' /\ RequestsOK'
  <2>1. UNCHANGED <<master, started, counts>>
    BY <1>7 DEF Receive
  <2>2. MasterOK'
    BY <2>1 DEF master, counts, MasterOK
  <2> QED BY <1>7, <2>2, ReceiveTypes
<1>8. ASSUME NEW w \in Workers, StartRequest(w)
      PROVE  MasterOK' /\ LifeOK' /\ CopiesOK' /\ RequestsOK'
  <2>1. conf[w] \in Copy
    BY <1>8 DEF StartRequest, CopiesOK
  <2>2. MasterOK' /\ LifeOK' /\ CopiesOK'
    BY <1>8 DEF StartRequest, master, MasterOK, LifeOK, CopiesOK
  <2>3. RequestsOK'
    BY <1>8, <2>1, ProvidersCounted DEF StartRequest, RequestsOK, Request, Copy
  <2> QED BY <2>2, <2>3
<1>9. ASSUME NEW w \in Workers, Try(w)
      PROVE  MasterOK' /\ LifeOK' /\ CopiesOK' /\ RequestsOK'
  BY <1>9, TryTypes DEF Try, master, counts, MasterOK, LifeOK, CopiesOK
<1>10. ASSUME NEW w \in Workers, EndRequest(w)
       PROVE  MasterOK' /\ LifeOK' /\ CopiesOK' /\ RequestsOK'
  BY <1>10 DEF EndRequest, master, counts, MasterOK, LifeOK, CopiesOK, RequestsOK
<1>11. CASE UNCHANGED rpcVars
  BY <1>11 DEF rpcVars, master, worker, counts, MasterOK, LifeOK, CopiesOK, RequestsOK
<1> QED
  BY <1>1, <1>2, <1>3, <1>4, <1>5, <1>6, <1>7, <1>8, <1>9, <1>10, <1>11
     DEF RpcNext, MasterStep, WorkerStep

\* Whatever is promoted, restarted and asked: every order of the providers, the master's,
\* one on the way, a copy's and a request's, tells them apart, and a request is always at
\* one of them or through with all.
THEOREM RpcTypeCorrect == RpcSpec => []RpcTypeOK
BY TypeInit, TypeStep, PTL DEF RpcSpec

-----------------------------------------------------------------------------
(* What a worker will know when it has read its messages *)

\* The message says what state p is in.
About(m, p) == (m.type = "state" /\ m.provider = p) \/ m.type = "order"
Said(m, p)  == IF m.type = "state" THEN m.state ELSE m.state[p]

\* With the messages s and the copy c, a worker comes to the order o.
OrderTold(s, c, o) ==
  /\ \A i \in 1..Len(s) :
       s[i].type # "state" /\ (\A j \in (i + 1)..Len(s) : s[j].type # "order") => s[i].prio = o
  /\ c # None /\ (\A j \in 1..Len(s) : s[j].type # "order") => c.prio = o

\* It will take p for degraded only if v says so.
StateTold(s, c, p, v) ==
  /\ \A i \in 1..Len(s) :
       /\ About(s[i], p)
       /\ \A j \in (i + 1)..Len(s) : ~About(s[j], p)
       /\ Said(s[i], p) = "degraded"
       => v = "degraded"
  /\ c # None /\ (\A j \in 1..Len(s) : ~About(s[j], p)) /\ c.state[p] = "degraded" => v = "degraded"

FollowInv ==
  \A w \in Workers :
    /\ w \notin Reached(life) => inbox[w] = <<>> /\ conf[w] = None
    /\ OrderTold(inbox[w], conf[w], prio)
    /\ \A p \in Providers : StateTold(inbox[w], conf[w], p, state[p])

LEMMA OrderPosted ==
  ASSUME NEW s \in Seq(Message), NEW c, NEW o, NEW o2, NEW m \in Message, OrderTold(s, c, o),
         \/ m.type = "order" /\ m.prio = o2
         \/ m.type = "setup" /\ m.prio = o2 /\ o2 = o
         \/ m.type = "state" /\ o2 = o
  PROVE  OrderTold(Append(s, m), c, o2)
<1> DEFINE t == Append(s, m)
           n == Len(s)
<1>1. /\ n \in Nat /\ Len(t) = n + 1 /\ t[n + 1] = m
      /\ \A i \in 1..n : t[i] = s[i]
  BY AppendProperties
<1>2. /\ \A i \in 1..n :
           s[i].type # "state" /\ (\A j \in (i + 1)..n : s[j].type # "order") => s[i].prio = o
      /\ c # None /\ (\A j \in 1..n : s[j].type # "order") => c.prio = o
  BY DEF OrderTold
<1> HIDE DEF t, n
<1>3. ASSUME NEW i \in 1..(n + 1), t[i].type # "state", \A j \in (i + 1)..(n + 1) : t[j].type # "order"
      PROVE  t[i].prio = o2
  <2>1. CASE i = n + 1
    BY <1>1, <1>3, <2>1
  <2>2. CASE i # n + 1
    <3>1. i \in 1..n /\ n + 1 \in (i + 1)..(n + 1)
      BY <1>1, <2>2
    <3>2. m.type # "order"
      BY <1>1, <1>3, <3>1
    <3>3. \A j \in (i + 1)..n : s[j].type # "order"
      <4>1. \A j \in (i + 1)..n : j \in (i + 1)..(n + 1) /\ j \in 1..n
        BY <1>1, <3>1
      <4> QED BY <1>1, <1>3, <4>1
    <3> QED BY <1>1, <1>2, <1>3, <3>1, <3>2, <3>3
  <2> QED BY <2>1, <2>2
<1>4. ASSUME c # None, \A j \in 1..(n + 1) : t[j].type # "order"
      PROVE  c.prio = o2
  <2>1. n + 1 \in 1..(n + 1) /\ \A j \in 1..n : j \in 1..(n + 1)
    BY <1>1
  <2>2. m.type # "order" /\ \A j \in 1..n : s[j].type # "order"
    BY <1>1, <1>4, <2>1
  <2> QED BY <1>2, <1>4, <2>2
<1>5. Len(t) = n + 1
  BY <1>1
<1> QED BY <1>3, <1>4, <1>5 DEF OrderTold, t

LEMMA StatePosted ==
  ASSUME NEW s \in Seq(Message), NEW c, NEW p, NEW v, NEW v2, NEW m \in Message, StateTold(s, c, p, v),
         (About(m, p) /\ Said(m, p) = v2) \/ (~About(m, p) /\ v2 = v)
  PROVE  StateTold(Append(s, m), c, p, v2)
<1> DEFINE t == Append(s, m)
           n == Len(s)
<1>1. /\ n \in Nat /\ Len(t) = n + 1 /\ t[n + 1] = m
      /\ \A i \in 1..n : t[i] = s[i]
  BY AppendProperties
<1>2. /\ \A i \in 1..n :
           /\ About(s[i], p)
           /\ \A j \in (i + 1)..n : ~About(s[j], p)
           /\ Said(s[i], p) = "degraded"
           => v = "degraded"
      /\ c # None /\ (\A j \in 1..n : ~About(s[j], p)) /\ c.state[p] = "degraded" => v = "degraded"
  BY DEF StateTold
<1> HIDE DEF t, n
<1>3. ASSUME NEW i \in 1..(n + 1), About(t[i], p), \A j \in (i + 1)..(n + 1) : ~About(t[j], p),
             Said(t[i], p) = "degraded"
      PROVE  v2 = "degraded"
  <2>1. CASE i = n + 1
    BY <1>1, <1>3, <2>1
  <2>2. CASE i # n + 1
    <3>1. i \in 1..n /\ n + 1 \in (i + 1)..(n + 1)
      BY <1>1, <2>2
    <3>2. ~About(m, p)
      BY <1>1, <1>3, <3>1
    <3>3. \A j \in (i + 1)..n : ~About(s[j], p)
      <4>1. \A j \in (i + 1)..n : j \in (i + 1)..(n + 1) /\ j \in 1..n
        BY <1>1, <3>1
      <4> QED BY <1>1, <1>3, <4>1
    <3> QED BY <1>1, <1>2, <1>3, <3>1, <3>2, <3>3
  <2> QED BY <2>1, <2>2
<1>4. ASSUME c # None, \A j \in 1..(n + 1) : ~About(t[j], p), c.state[p] = "degraded"
      PROVE  v2 = "degraded"
  <2>1. n + 1 \in 1..(n + 1) /\ \A j \in 1..n : j \in 1..(n + 1)
    BY <1>1
  <2>2. ~About(m, p) /\ \A j \in 1..n : ~About(s[j], p)
    BY <1>1, <1>4, <2>1
  <2> QED BY <1>2, <1>4, <2>2
<1>5. Len(t) = n + 1
  BY <1>1
<1> QED BY <1>3, <1>4, <1>5 DEF StateTold, t

LEMMA TailFacts ==
  ASSUME NEW S, NEW s \in Seq(S), s # <<>>
  PROVE  \E n \in Nat :
           /\ Len(s) = n + 1 /\ Len(Tail(s)) = n
           /\ Head(s) = s[1] /\ \A i \in 1..n : Tail(s)[i] = s[i + 1]
<1>1. Len(s) \in Nat \ {0}
  BY EmptySeq
<1>2. Len(Tail(s)) = Len(s) - 1 /\ Head(s) = s[1] /\ \A i \in 1..Len(Tail(s)) : Tail(s)[i] = s[i + 1]
  BY HeadTailProperties
<1> DEFINE k == Len(s)
<1>3. k \in Nat \ {0} /\ Len(Tail(s)) = k - 1
  BY <1>1, <1>2
<1> HIDE DEF k
<1>4. k - 1 \in Nat /\ k = (k - 1) + 1
  BY <1>3
<1> QED BY <1>2, <1>3, <1>4 DEF k

LEMMA OrderRead ==
  ASSUME NEW s \in Seq(Message), s # <<>>, NEW c, NEW o, NEW c2, OrderTold(s, c, o),
         \/ Head(s).type = "setup" /\ c = None /\ c2.prio = Head(s).prio
         \/ Head(s).type # "order" /\ c # None /\ c2.prio = c.prio
         \/ Head(s).type = "order" /\ c2.prio = Head(s).prio
  PROVE  OrderTold(Tail(s), c2, o)
<1> DEFINE t == Tail(s)
<1>1. PICK n \in Nat : /\ Len(s) = n + 1 /\ Len(t) = n
                       /\ Head(s) = s[1] /\ \A i \in 1..n : t[i] = s[i + 1]
  BY TailFacts
<1>2. /\ \A i \in 1..(n + 1) :
           s[i].type # "state" /\ (\A j \in (i + 1)..(n + 1) : s[j].type # "order") => s[i].prio = o
      /\ c # None /\ (\A j \in 1..(n + 1) : s[j].type # "order") => c.prio = o
  BY <1>1 DEF OrderTold
<1> HIDE DEF t
<1>3. ASSUME NEW i \in 1..n, t[i].type # "state", \A j \in (i + 1)..n : t[j].type # "order"
      PROVE  t[i].prio = o
  <2>1. ASSUME NEW j \in (i + 2)..(n + 1) PROVE s[j].type # "order"
    <3>1. j - 1 \in (i + 1)..n /\ j - 1 \in 1..n /\ (j - 1) + 1 = j
      OBVIOUS
    <3> QED BY <1>1, <1>3, <3>1
  <2>2. i + 1 \in 1..(n + 1) /\ (i + 1) + 1 = i + 2
    OBVIOUS
  <2> QED BY <1>1, <1>2, <1>3, <2>1, <2>2
<1>4. ASSUME c2 # None, \A j \in 1..n : t[j].type # "order"
      PROVE  c2.prio = o
  <2>1. ASSUME NEW j \in 2..(n + 1) PROVE s[j].type # "order"
    <3>1. j - 1 \in 1..n /\ (j - 1) + 1 = j
      OBVIOUS
    <3> QED BY <1>1, <1>4, <3>1
  <2>2. 1 \in 1..(n + 1) /\ 1 + 1 = 2 /\ \A j \in 1..(n + 1) : j = 1 \/ j \in 2..(n + 1)
    OBVIOUS
  <2>3. Head(s).type # "state" => Head(s).prio = o
    BY <1>1, <1>2, <2>1, <2>2
  <2>4. c # None /\ Head(s).type # "order" => c.prio = o
    BY <1>1, <1>2, <2>1, <2>2
  <2> QED BY <2>3, <2>4
<1> QED BY <1>1, <1>3, <1>4 DEF OrderTold, t

LEMMA StateRead ==
  ASSUME NEW s \in Seq(Message), s # <<>>, NEW c, NEW p, NEW v, NEW c2, StateTold(s, c, p, v),
         \/ c2.state[p] = "active"
         \/ ~About(Head(s), p) /\ c # None /\ c2.state[p] = c.state[p]
         \/ About(Head(s), p) /\ c2.state[p] = Said(Head(s), p)
  PROVE  StateTold(Tail(s), c2, p, v)
<1> DEFINE t == Tail(s)
<1>1. PICK n \in Nat : /\ Len(s) = n + 1 /\ Len(t) = n
                       /\ Head(s) = s[1] /\ \A i \in 1..n : t[i] = s[i + 1]
  BY TailFacts
<1>2. /\ \A i \in 1..(n + 1) :
           /\ About(s[i], p)
           /\ \A j \in (i + 1)..(n + 1) : ~About(s[j], p)
           /\ Said(s[i], p) = "degraded"
           => v = "degraded"
      /\ c # None /\ (\A j \in 1..(n + 1) : ~About(s[j], p)) /\ c.state[p] = "degraded" => v = "degraded"
  BY <1>1 DEF StateTold
<1> HIDE DEF t
<1>3. ASSUME NEW i \in 1..n, About(t[i], p), \A j \in (i + 1)..n : ~About(t[j], p),
             Said(t[i], p) = "degraded"
      PROVE  v = "degraded"
  <2>1. ASSUME NEW j \in (i + 2)..(n + 1) PROVE ~About(s[j], p)
    <3>1. j - 1 \in (i + 1)..n /\ j - 1 \in 1..n /\ (j - 1) + 1 = j
      OBVIOUS
    <3> QED BY <1>1, <1>3, <3>1
  <2>2. i + 1 \in 1..(n + 1) /\ (i + 1) + 1 = i + 2
    OBVIOUS
  <2> QED BY <1>1, <1>2, <1>3, <2>1, <2>2
<1>4. ASSUME c2 # None, \A j \in 1..n : ~About(t[j], p), c2.state[p] = "degraded"
      PROVE  v = "degraded"
  <2>1. ASSUME NEW j \in 2..(n + 1) PROVE ~About(s[j], p)
    <3>1. j - 1 \in 1..n /\ (j - 1) + 1 = j
      OBVIOUS
    <3> QED BY <1>1, <1>4, <3>1
  <2>2. 1 \in 1..(n + 1) /\ 1 + 1 = 2 /\ \A j \in 1..(n + 1) : j = 1 \/ j \in 2..(n + 1)
    OBVIOUS
  <2>3. About(Head(s), p) /\ Said(Head(s), p) = "degraded" => v = "degraded"
    BY <1>1, <1>2, <2>1, <2>2
  <2>4. c # None /\ ~About(Head(s), p) /\ c.state[p] = "degraded" => v = "degraded"
    BY <1>1, <1>2, <2>1, <2>2
  <2> QED BY <1>4, <2>3, <2>4
<1> QED BY <1>1, <1>3, <1>4 DEF StateTold, t

LEMMA ToldNothing ==
  ASSUME NEW o, NEW p, NEW v
  PROVE  OrderTold(<<>>, None, o) /\ StateTold(<<>>, None, p, v)
<1>1. \A i \in 1..Len(<<>>) : FALSE
  OBVIOUS
<1> QED BY <1>1 DEF OrderTold, StateTold

LEMMA FollowInit == RpcInit => FollowInv
<1> SUFFICES ASSUME RpcInit, NEW w \in Workers
             PROVE  /\ inbox[w] = <<>> /\ conf[w] = None
                    /\ OrderTold(<<>>, None, prio)
                    /\ \A p \in Providers : StateTold(<<>>, None, p, state[p])
  BY DEF FollowInv
<1> QED BY ToldNothing DEF RpcInit

\* Everyone the master reaches is sent m.
LEMMA FollowPosted ==
  ASSUME RpcTypeOK, FollowInv, NEW m \in Message, conf' = conf,
         Reached(life) \subseteq Reached(life'), inbox' = Posted(m, life'),
         \/ m.type = "order" /\ m.prio = prio'
         \/ m.type = "setup" /\ m.prio = prio' /\ prio' = prio
         \/ m.type = "state" /\ prio' = prio,
         \A p \in Providers : \/ About(m, p) /\ Said(m, p) = state'[p]
                              \/ ~About(m, p) /\ state'[p] = state[p]
  PROVE  FollowInv'
<1> SUFFICES ASSUME NEW w \in Workers
             PROVE  /\ w \notin Reached(life') => inbox'[w] = <<>> /\ conf'[w] = None
                    /\ OrderTold(inbox'[w], conf'[w], prio')
                    /\ \A p \in Providers : StateTold(inbox'[w], conf'[w], p, state'[p])
  BY DEF FollowInv, Reached, OrderTold, StateTold, About, Said
<1>1. /\ w \notin Reached(life) => inbox[w] = <<>> /\ conf[w] = None
      /\ OrderTold(inbox[w], conf[w], prio)
      /\ \A p \in Providers : StateTold(inbox[w], conf[w], p, state[p])
      /\ inbox[w] \in Seq(Message)
  BY DEF FollowInv, RpcTypeOK
<1>2. CASE w \in Reached(life')
  <2>1. inbox'[w] = Append(inbox[w], m) /\ conf'[w] = conf[w]
    BY <1>2 DEF Posted
  <2> QED BY <1>1, <1>2, <2>1, OrderPosted, StatePosted
<1>3. CASE w \notin Reached(life')
  <2>1. inbox'[w] = <<>> /\ conf'[w] = None
    BY <1>1, <1>3 DEF Posted
  <2> QED BY <2>1, ToldNothing
<1> QED BY <1>2, <1>3

\* Nothing is sent, nothing read.
LEMMA FollowQuiet ==
  ASSUME FollowInv, UNCHANGED <<prio, state, inbox, conf>>, Reached(life) \subseteq Reached(life')
  PROVE  FollowInv'
BY DEF FollowInv, Reached, OrderTold, StateTold, About, Said

LEMMA FollowGone ==
  ASSUME RpcTypeOK, FollowInv, NEW w \in Workers, Gone(w), UNCHANGED <<prio, state>>
  PROVE  FollowInv'
<1> SUFFICES ASSUME NEW v \in Workers
             PROVE  /\ v \notin Reached(life') => inbox'[v] = <<>> /\ conf'[v] = None
                    /\ OrderTold(inbox'[v], conf'[v], prio)
                    /\ \A p \in Providers : StateTold(inbox'[v], conf'[v], p, state[p])
  BY DEF FollowInv, Reached, OrderTold, StateTold, About, Said
<1>1. CASE v = w
  <2>1. inbox'[v] = <<>> /\ conf'[v] = None
    BY <1>1 DEF Gone, RpcTypeOK
  <2> QED BY <2>1, ToldNothing
<1>2. CASE v # w
  <2>1. inbox'[v] = inbox[v] /\ conf'[v] = conf[v] /\ life'[v] = life[v]
    BY <1>2 DEF Gone, RpcTypeOK
  <2>2. v \in Reached(life') <=> v \in Reached(life)
    BY <2>1 DEF Reached
  <2> QED BY <2>1, <2>2 DEF FollowInv
<1> QED BY <1>1, <1>2

LEMMA FollowReceive ==
  ASSUME RpcTypeOK, FollowInv, NEW w \in Workers, Receive(w)
  PROVE  FollowInv'
<1> DEFINE m == Head(inbox[w])
           c == IF m.type = "setup" THEN SetUp(w, m) ELSE Synced(conf[w], m)
<1>1. /\ inbox[w] \in Seq(Message) /\ inbox[w] # <<>> /\ m \in Message
      /\ UNCHANGED <<prio, state>>
  BY DEF Receive, RpcTypeOK, master
<1>2. CASE Gone(w)
  BY <1>1, <1>2, FollowGone
<1>3. CASE ~Gone(w)
  <2>1. conf[w] # None \/ m.type = "setup"
    BY <1>3 DEF Receive
  <2>2. /\ conf' = [conf EXCEPT ![w] = c]
        /\ inbox' = [inbox EXCEPT ![w] = Tail(@)]
        /\ life' = life
    BY <1>3 DEF Receive
  <2>3. \/ m.type = "setup" /\ conf[w] = None /\ c.prio = m.prio
        \/ m.type # "order" /\ conf[w] # None /\ c.prio = conf[w].prio
        \/ m.type = "order" /\ c.prio = m.prio
    <3>1. conf[w] # None => conf[w] \in Copy
      BY DEF RpcTypeOK
    <3> QED BY <1>1, <2>1, <3>1, MessageFacts DEF SetUp, Synced, Copy
  <2>4. ASSUME NEW p \in Providers
        PROVE  \/ c.state[p] = "active"
               \/ ~About(m, p) /\ conf[w] # None /\ c.state[p] = conf[w].state[p]
               \/ About(m, p) /\ c.state[p] = Said(m, p)
    <3>1. conf[w] # None => conf[w] \in Copy
      BY DEF RpcTypeOK
    <3>2. CASE m.type = "setup"
      BY <3>1, <3>2 DEF SetUp, Healthy, About
    <3>3. CASE m.type = "state"
      <4>1. c = [conf[w] EXCEPT !.state = [@ EXCEPT ![m.provider] = m.state]] /\ conf[w] \in Copy
        BY <2>1, <3>1, <3>3 DEF Synced
      <4>2. c.state = [conf[w].state EXCEPT ![m.provider] = m.state]
        BY <4>1 DEF Copy
      <4>3. c.state[p] = IF p = m.provider THEN m.state ELSE conf[w].state[p]
        BY <4>1, <4>2 DEF Copy
      <4> QED BY <2>1, <3>3, <4>3 DEF About, Said
    <3>4. CASE m.type = "order"
      BY <3>4 DEF Synced, About, Said
    <3> QED BY <1>1, <3>2, <3>3, <3>4, MessageFacts
  <2> HIDE DEF c
  <2>5. OrderTold(Tail(inbox[w]), c, prio)
    BY <1>1, <2>3, OrderRead DEF FollowInv
  <2>6. \A p \in Providers : StateTold(Tail(inbox[w]), c, p, state[p])
    BY <1>1, <2>4, StateRead DEF FollowInv
  <2>7. ASSUME NEW v \in Workers
        PROVE  /\ v \notin Reached(life) => inbox'[v] = <<>> /\ conf'[v] = None
               /\ OrderTold(inbox'[v], conf'[v], prio)
               /\ \A p \in Providers : StateTold(inbox'[v], conf'[v], p, state[p])
    <3>1. CASE v = w
      <4>1. inbox'[v] = Tail(inbox[w]) /\ conf'[v] = c /\ v \in Reached(life)
        BY <1>1, <2>2, <3>1 DEF RpcTypeOK, FollowInv
      <4> QED BY <2>5, <2>6, <4>1
    <3>2. CASE v # w
      <4>1. inbox'[v] = inbox[v] /\ conf'[v] = conf[v]
        BY <2>2, <3>2 DEF RpcTypeOK
      <4> QED BY <4>1 DEF FollowInv
    <3> QED BY <3>1, <3>2
  <2>8. ASSUME NEW v \in Workers
        PROVE  /\ v \notin Reached(life') => inbox'[v] = <<>> /\ conf'[v] = None
               /\ OrderTold(inbox'[v], conf'[v], prio')
               /\ \A p \in Providers : StateTold(inbox'[v], conf'[v], p, state'[p])
    BY <1>1, <2>2, <2>7
  <2> QED BY <2>8 DEF FollowInv, Reached, OrderTold, StateTold, About, Said
<1> QED BY <1>2, <1>3

LEMMA FollowStep == RpcTypeOK /\ FollowInv /\ [RpcNext]_rpcVars => FollowInv'
<1> SUFFICES ASSUME RpcTypeOK, FollowInv, [RpcNext]_rpcVars PROVE FollowInv'
  OBVIOUS
<1>1. CASE StartRound \/ (\E w \in Workers : StartRequest(w) \/ Try(w) \/ EndRequest(w)) \/ UNCHANGED rpcVars
  <2>1. UNCHANGED <<prio, state, inbox, conf, life>>
    BY <1>1 DEF StartRound, StartRequest, Try, EndRequest, rpcVars, master, worker
  <2> QED BY <2>1, FollowQuiet
<1>2. CASE PromotionCheck
  <2>1. CASE \E p \in Providers : BestFallback(p) /\ Replaceable(p) /\ Promote(p)
    <3>1. PICK p \in Providers : prio[p] # 0 /\ Promote(p)
      BY <2>1 DEF BestFallback, Promotable
    <3> DEFINE m == OrderMessage(Swapped(p))
    <3>2. UNCHANGED <<state, conf, life>>
      BY <1>2 DEF PromotionCheck
    <3>3. inbox' = Posted(m, life') /\ prio' = Swapped(p)
      BY <3>1, <3>2 DEF Promote
    <3>4. m \in Message
      BY <3>1, SwappedOrder, MessageFacts DEF OrderMessage, RpcTypeOK, States
    <3>5. m.type = "order" /\ m.prio = prio' /\ \A q \in Providers : About(m, q) /\ Said(m, q) = state'[q]
      BY <3>2, <3>3 DEF OrderMessage, About, Said
    <3> HIDE DEF m
    <3> QED BY <3>2, <3>3, <3>4, <3>5, FollowPosted
  <2>2. CASE UNCHANGED <<prio, metrics, inbox>>
    BY <1>2, <2>2, FollowQuiet DEF PromotionCheck
  <2> QED BY <1>2, <2>1, <2>2 DEF PromotionCheck
<1>3. ASSUME Started \/ \E w \in Workers : Online(w)
      PROVE  FollowInv'
  <2>1. UNCHANGED <<prio, state, conf>>
    BY <1>3 DEF Started, Online, master
  <2>2. Reached(life) \subseteq Reached(life')
    BY <1>3 DEF Started, Online, Reached, RpcTypeOK
  <2>3. SetupMessage \in Message /\ SetupMessage.type = "setup" /\ SetupMessage.prio = prio
        /\ \A p : ~About(SetupMessage, p)
    BY MessageFacts DEF SetupMessage, RpcTypeOK, About
  <2>4. inbox' = inbox \/ inbox' = Posted(SetupMessage, life')
    BY <1>3 DEF Started, Online
  <2> HIDE DEF SetupMessage
  <2> QED BY <2>1, <2>2, <2>3, <2>4, FollowPosted, FollowQuiet
<1>4. ASSUME NEW p \in Providers, CheckPasses(p) \/ CheckFails(p)
      PROVE  FollowInv'
  <2>1. UNCHANGED <<prio, conf, life>>
    BY <1>4 DEF CheckPasses, CheckFails
  <2>2. CASE UNCHANGED <<state, inbox>>
    BY <2>1, <2>2, FollowQuiet
  <2>3. ASSUME NEW v \in States, state' = [state EXCEPT ![p] = v], inbox' = Posted(StateMessage(p, v), life)
        PROVE  FollowInv'
    <3> DEFINE m == StateMessage(p, v)
    <3>1. m \in Message
      BY MessageFacts
    <3>2. m.type = "state" /\ \A q : (About(m, q) <=> q = p) /\ Said(m, q) = v
      BY DEF StateMessage, About, Said
    <3>3. \A q \in Providers : state'[q] = IF q = p THEN v ELSE state[q]
      BY <2>3 DEF RpcTypeOK
    <3>4. inbox' = Posted(m, life')
      BY <2>1, <2>3
    <3> HIDE DEF m
    <3> QED BY <2>1, <3>1, <3>2, <3>3, <3>4, FollowPosted
  <2> QED BY <1>4, <2>2, <2>3 DEF CheckPasses, CheckFails, States
<1>5. ASSUME NEW w \in Workers, Listening(w)
      PROVE  FollowInv'
  BY <1>5, FollowQuiet DEF Listening, master, Reached, RpcTypeOK
<1>6. ASSUME NEW w \in Workers, Exit(w)
      PROVE  FollowInv'
  BY <1>6, FollowGone DEF Exit, master
<1>7. ASSUME NEW w \in Workers, Receive(w)
      PROVE  FollowInv'
  BY <1>7, FollowReceive
<1> QED
  BY <1>1, <1>2, <1>3, <1>4, <1>5, <1>6, <1>7 DEF RpcNext, MasterStep, WorkerStep

LEMMA FollowEnough == FollowInv => CopiesFollow
<1> SUFFICES ASSUME FollowInv, NEW w \in Workers, conf[w] # None, inbox[w] = <<>>
             PROVE  /\ conf[w].prio = prio
                    /\ \A p \in Providers : conf[w].state[p] = "degraded" => state[p] = "degraded"
  BY DEF CopiesFollow
<1>1. \A i \in 1..Len(inbox[w]) : FALSE
  OBVIOUS
<1>2. OrderTold(inbox[w], conf[w], prio) /\ \A p \in Providers : StateTold(inbox[w], conf[w], p, state[p])
  BY DEF FollowInv
<1> QED BY <1>1, <1>2 DEF OrderTold, StateTold

\* A worker that has read its messages has the order of the master, whoever was promoted and
\* whatever exited meanwhile, and takes no recovered provider for degraded (syncProviders,
\* syncRpcConfig, promoteProvider).
THEOREM CopiesAlike == RpcSpec => []CopiesFollow
BY FollowInit, FollowStep, FollowEnough, RpcTypeCorrect, PTL DEF RpcSpec

\* A request has tried the providers it has passed, those that did not stay active aside.
RequestInv ==
  \A w \in Workers : req[w] # None =>
    /\ conf[w] \in Copy
    /\ ~req[w].final
    /\ \A p \in req[w].steady :
         /\ conf[w].state[p] = "active"
         /\ Cardinality(Before(req[w].order, p)) < req[w].at - 1 => p \in req[w].tried

LEMMA RequestInit == RpcInit => RequestInv
BY DEF RpcInit, RequestInv

\* What passes a provider over is never the word of the chain (classifyError).
LEMMA NoFinalRetry == \A b \in ChainSpoke : b = FALSE
BY DEF ChainSpoke, Retried, classifyError

\* Requests other than that of w are left alone, and so are their copies.
LEMMA OthersStay ==
  ASSUME RpcTypeOK, RequestInv, NEW w \in Workers,
         \A v \in Workers \ {w} : req'[v] = req[v] /\ conf'[v] = conf[v],
         req'[w] # None =>
           /\ conf'[w] \in Copy
           /\ ~req'[w].final
           /\ \A p \in req'[w].steady :
                /\ conf'[w].state[p] = "active"
                /\ Cardinality(Before(req'[w].order, p)) < req'[w].at - 1 => p \in req'[w].tried
  PROVE  RequestInv'
<1> SUFFICES ASSUME NEW v \in Workers, req'[v] # None
             PROVE  /\ conf'[v] \in Copy
                    /\ ~req'[v].final
                    /\ \A p \in req'[v].steady :
                         /\ conf'[v].state[p] = "active"
                         /\ Cardinality(Before(req'[v].order, p)) < req'[v].at - 1 => p \in req'[v].tried
  BY DEF RequestInv, Before, Copy, Orders
<1>1. CASE v = w
  BY <1>1
<1>2. CASE v # w
  BY <1>2 DEF RequestInv
<1> QED BY <1>1, <1>2

LEMMA RequestGone ==
  ASSUME RpcTypeOK, RequestInv, NEW w \in Workers, Gone(w)
  PROVE  RequestInv'
<1>1. req'[w] = None /\ \A v \in Workers \ {w} : req'[v] = req[v] /\ conf'[v] = conf[v]
  BY DEF Gone, RpcTypeOK
<1> QED BY <1>1, OthersStay

LEMMA RequestReceive ==
  ASSUME RpcTypeOK, RequestInv, NEW w \in Workers, Receive(w)
  PROVE  RequestInv'
<1> DEFINE m == Head(inbox[w])
           c == IF m.type = "setup" THEN SetUp(w, m) ELSE Synced(conf[w], m)
<1>1. CASE Gone(w)
  BY <1>1, RequestGone
<1>2. CASE ~Gone(w)
  <2>1. conf[w] # None \/ m.type = "setup"
    BY <1>2 DEF Receive
  <2>2. conf' = [conf EXCEPT ![w] = c] /\ req' = [req EXCEPT ![w] = StillActive(@, c)]
    BY <1>2 DEF Receive
  <2>3. CopiesOK /\ m \in Message
    BY TypeParts DEF Receive, RpcTypeOK
  <2>4. c \in Copy
    BY <2>1, <2>3, CopyTypes
  <2> HIDE DEF m, c
  <2>5. /\ conf'[w] = c /\ req'[w] = StillActive(req[w], c)
        /\ \A v \in Workers \ {w} : req'[v] = req[v] /\ conf'[v] = conf[v]
    BY <2>2 DEF RpcTypeOK
  <2>6. CASE req[w] = None
    BY <2>5, <2>6, OthersStay DEF StillActive
  <2>7. CASE req[w] # None
    <3> DEFINE kept == {p \in req[w].steady : c.state[p] = "active"}
    <3>1. req[w] \in Request
      BY <2>7 DEF RpcTypeOK
    <3>2. req'[w] = [req[w] EXCEPT !.steady = kept]
      BY <2>5, <2>7 DEF StillActive
    <3>3. /\ req'[w].order = req[w].order /\ req'[w].at = req[w].at /\ req'[w].tried = req[w].tried
          /\ req'[w].steady = kept
      <4> HIDE DEF kept
      <4> QED BY <3>1, <3>2 DEF Request
    <3>4. ~req'[w].final
      <4> HIDE DEF kept
      <4>1. req'[w].final = req[w].final
        BY <3>1, <3>2 DEF Request
      <4> QED BY <2>7, <4>1 DEF RequestInv
    <3>5. \A p \in kept : /\ c.state[p] = "active"
                          /\ Cardinality(Before(req[w].order, p)) < req[w].at - 1 => p \in req[w].tried
      BY <2>7 DEF RequestInv
    <3> HIDE DEF kept
    <3> QED BY <2>4, <2>5, <3>3, <3>4, <3>5, OthersStay
  <2> QED BY <2>6, <2>7
<1> QED BY <1>1, <1>2

LEMMA RequestTry ==
  ASSUME RpcTypeOK, RequestInv, NEW w \in Workers, Try(w)
  PROVE  RequestInv'
<1> DEFINE r == req[w]
           p == At(r.order, r.at)
           s == Skips(w, p)
<1>1. r # None /\ r \in Request /\ r.at \in 1..Cardinality(Providers) /\ r.order \in Orders
  BY ProvidersCounted DEF Try, RpcTypeOK, Request
<1>2. p \in Providers /\ Cardinality(Before(r.order, p)) = r.at - 1
  BY <1>1, AtFacts
<1>3. /\ conf[w] \in Copy /\ ~r.final
      /\ \A q \in r.steady : /\ q \in Providers /\ conf[w].state[q] = "active"
                             /\ Cardinality(Before(r.order, q)) < r.at - 1 => q \in r.tried
  BY <1>1 DEF RequestInv, Request
<1>4. PICK b \in ChainSpoke :
        req' = [req EXCEPT ![w] = [r EXCEPT !.at = @ + 1, !.tried = IF s THEN @ ELSE @ \cup {p},
                                            !.final = @ \/ (~s /\ b)]]
  <2>1. PICK x \in Passed(r, s, p) : req' = [req EXCEPT ![w] = x]
    BY DEF Try
  <2> HIDE DEF r, s, p
  <2> QED BY <2>1 DEF Passed
<1>5. conf' = conf /\ b = FALSE
  BY NoFinalRetry DEF Try
<1>6. s => conf[w].state[p] = "degraded"
  BY DEF Skips
<1> DEFINE t == IF s THEN r.tried ELSE r.tried \cup {p}
           f == r.final \/ (~s /\ b)
<1>7. req'[w] = [r EXCEPT !.at = r.at + 1, !.tried = t, !.final = f]
  <2> HIDE DEF s, p
  <2> QED BY <1>1, <1>4 DEF RpcTypeOK, Request
<1>8. f = FALSE
  BY <1>3, <1>5
<1> HIDE DEF r, s, p, t, f
<1>9. /\ req'[w].order = r.order /\ req'[w].at = r.at + 1 /\ req'[w].tried = t
      /\ req'[w].steady = r.steady
  BY <1>1, <1>7 DEF Request
<1>10. req'[w].final = FALSE
  BY <1>1, <1>7, <1>8 DEF Request
<1>11. ASSUME NEW q \in r.steady, Cardinality(Before(r.order, q)) < (r.at + 1) - 1
       PROVE  q \in t
  <2>1. Cardinality(Before(r.order, q)) \in Nat /\ r.at \in Nat
    BY <1>1, <1>3, BeforeCounted
  <2>2. CASE Cardinality(Before(r.order, q)) < r.at - 1
    BY <1>3, <2>2 DEF t
  <2>3. CASE Cardinality(Before(r.order, q)) = r.at - 1
    <3>1. q = p
      BY <1>1, <1>2, <1>3, <2>3, PlacesDiffer
    <3>2. ~s
      BY <1>3, <1>6, <3>1
    <3> QED BY <3>1, <3>2 DEF t
  <2> DEFINE n == Cardinality(Before(r.order, q))
             k == r.at
  <2>4. n = k - 1 \/ n < k - 1
    <3>1. n \in Nat /\ k \in Nat /\ n < (k + 1) - 1
      BY <1>11, <2>1
    <3> HIDE DEF n, k
    <3> QED BY <3>1
  <2> QED BY <2>2, <2>3, <2>4
<1>12. \A v \in Workers \ {w} : req'[v] = req[v] /\ conf'[v] = conf[v]
  BY <1>4, <1>5 DEF RpcTypeOK
<1>13. \A q \in req'[w].steady :
         /\ conf'[w].state[q] = "active"
         /\ Cardinality(Before(req'[w].order, q)) < req'[w].at - 1 => q \in req'[w].tried
  BY <1>3, <1>5, <1>9, <1>11
<1> QED BY <1>3, <1>5, <1>10, <1>12, <1>13, OthersStay

LEMMA RequestStep == RpcTypeOK /\ RequestInv /\ [RpcNext]_rpcVars => RequestInv'
<1> SUFFICES ASSUME RpcTypeOK, RequestInv, [RpcNext]_rpcVars PROVE RequestInv'
  OBVIOUS
<1>1. CASE UNCHANGED <<conf, req>>
  <2> SUFFICES ASSUME NEW v \in Workers, req'[v] # None
               PROVE  /\ conf'[v] \in Copy
                      /\ ~req'[v].final
                      /\ \A p \in req'[v].steady :
                           /\ conf'[v].state[p] = "active"
                           /\ Cardinality(Before(req'[v].order, p)) < req'[v].at - 1 => p \in req'[v].tried
    BY DEF RequestInv, Before, Copy, Orders
  <2> QED BY <1>1 DEF RequestInv
<1>2. CASE MasterStep \/ (\E w \in Workers : Online(w) \/ Listening(w)) \/ UNCHANGED rpcVars
  <2>1. UNCHANGED <<conf, req>>
    BY <1>2 DEF MasterStep, StartRound, PromotionCheck, Started, CheckPasses, CheckFails, Online,
                Listening, rpcVars, worker
  <2> QED BY <1>1, <2>1
<1>3. ASSUME NEW w \in Workers, Exit(w) PROVE RequestInv'
  BY <1>3, RequestGone DEF Exit
<1>4. ASSUME NEW w \in Workers, Receive(w) PROVE RequestInv'
  BY <1>4, RequestReceive
<1>5. ASSUME NEW w \in Workers, StartRequest(w) PROVE RequestInv'
  <2> DEFINE r == [order |-> conf[w].prio, at |-> 1, tried |-> {}, final |-> FALSE,
                   steady |-> {p \in Providers : conf[w].state[p] = "active"}]
  <2>1. conf[w] \in Copy /\ conf' = conf /\ req' = [req EXCEPT ![w] = r]
    BY <1>5 DEF StartRequest, RpcTypeOK
  <2>2. req'[w] = r /\ \A v \in Workers \ {w} : req'[v] = req[v] /\ conf'[v] = conf[v]
    BY <2>1 DEF RpcTypeOK
  <2>3. \A p \in r.steady : p \in Providers /\ conf[w].state[p] = "active"
    OBVIOUS
  <2>4. \A p \in Providers : Cardinality(Before(r.order, p)) \in Nat
    BY <2>1, BeforeCounted DEF Copy
  <2>5. r.at - 1 = 0 /\ ~r.final
    OBVIOUS
  <2> HIDE DEF r
  <2>6. \A p \in r.steady : ~(Cardinality(Before(r.order, p)) < r.at - 1)
    BY <2>3, <2>4, <2>5
  <2> QED BY <2>1, <2>2, <2>3, <2>5, <2>6, OthersStay
<1>6. ASSUME NEW w \in Workers, Try(w) PROVE RequestInv'
  BY <1>6, RequestTry
<1>7. ASSUME NEW w \in Workers, EndRequest(w) PROVE RequestInv'
  <2>1. req'[w] = None /\ \A v \in Workers \ {w} : req'[v] = req[v] /\ conf'[v] = conf[v]
    BY <1>7 DEF EndRequest, RpcTypeOK
  <2> QED BY <2>1, OthersStay
<1> QED BY <1>2, <1>3, <1>4, <1>5, <1>6, <1>7 DEF RpcNext, WorkerStep

LEMMA RequestEnough == RpcTypeOK /\ RequestInv => FailureIsThorough
<1> SUFFICES ASSUME RpcTypeOK, RequestInv, NEW w \in Workers, req[w] # None
             PROVE  /\ req[w].at > Cardinality(Providers) => req[w].steady \subseteq req[w].tried
                    /\ ~req[w].final
  BY DEF FailureIsThorough
<1>1. req[w] \in Request
  BY DEF RpcTypeOK
<1>2. ASSUME req[w].at > Cardinality(Providers), NEW p \in req[w].steady
      PROVE  p \in req[w].tried
  <2>1. /\ p \in Providers /\ req[w].order \in Orders /\ req[w].at \in Nat
        /\ Cardinality(Providers) \in Nat
    BY <1>1, ProvidersCounted DEF Request
  <2>2. Cardinality(Before(req[w].order, p)) \in 0..(Cardinality(Providers) - 1)
    BY <2>1, BeforeCounted
  <2>3. Cardinality(Before(req[w].order, p)) < req[w].at - 1
    <3> DEFINE n == Cardinality(Before(req[w].order, p))
               k == Cardinality(Providers)
               a == req[w].at
    <3>1. n \in 0..(k - 1) /\ k \in Nat /\ a \in Nat /\ a > k
      BY <1>2, <2>1, <2>2
    <3> HIDE DEF n, k, a
    <3>2. n < a - 1
      BY <3>1
    <3> QED BY <3>2 DEF n, a
  <2> QED BY <2>3 DEF RequestInv
<1> QED BY <1>2 DEF RequestInv

\* A request that has failed with every provider has asked each one that was active all the
\* while, whatever was promoted, degraded, lost and set up meanwhile; and it asks no provider
\* more once the chain has answered (executeRequest, classifyError).
THEOREM FailuresThorough == RpcSpec => []FailureIsThorough
BY RequestInit, RequestStep, RequestEnough, RpcTypeCorrect, PTL DEF RpcSpec

-----------------------------------------------------------------------------
(* Least and greatest *)

LEMMA LeastExists ==
  ASSUME NEW S \in SUBSET Nat, S # {}
  PROVE  \E k \in S : \A l \in S : k <= l
<1> DEFINE Smaller == {ss \in Nat \X Nat : ss[1] < ss[2]}
<1>1. IsWellFoundedOn(Smaller, Nat)
  BY NatLessThanWellFounded DEF OpToRel
<1>2. PICK x \in S : \A y \in S : <<y, x>> \notin Smaller
  <2> HIDE DEF Smaller
  <2> QED BY <1>1, WFMin
<1>3. \A y \in S : ~(y < x)
  BY <1>2
<1> QED BY <1>3

\* A finite set of numbers lies below some number.
LEMMA BoundExists ==
  ASSUME NEW S \in SUBSET Nat, IsFiniteSet(S)
  PROVE  \E b \in Nat : \A x \in S : x <= b
<1> DEFINE n == Cardinality(S)
           Bad == {k \in Nat : \E T \in SUBSET S : Cardinality(T) = k /\ ~ \E b \in Nat : \A x \in T : x <= b}
<1> SUFFICES ASSUME ~ \E b \in Nat : \A x \in S : x <= b PROVE FALSE
  OBVIOUS
<1>1. n \in Nat /\ n \in Bad
  BY FS_CardinalityType
<1>2. PICK k \in Bad : \A l \in Bad : k <= l
  <2> HIDE DEF Bad
  <2>1. Bad \in SUBSET Nat
    BY DEF Bad
  <2> QED BY <1>1, <2>1, LeastExists
<1>3. PICK T \in SUBSET S : Cardinality(T) = k /\ ~ \E b \in Nat : \A x \in T : x <= b
  BY <1>2
<1>4. T # {} /\ IsFiniteSet(T)
  BY <1>3, FS_Subset
<1>5. PICK t \in T : TRUE
  BY <1>4
<1>6. IsFiniteSet(T \ {t}) /\ Cardinality(T \ {t}) = k - 1 /\ k - 1 \in Nat
  <2>1. k \in Nat /\ k # 0
    BY <1>3, <1>4, FS_EmptySet
  <2>2. IsFiniteSet(T \ {t}) /\ Cardinality(T \ {t}) = Cardinality(T) - 1
    BY <1>4, FS_RemoveElement
  <2> QED BY <1>3, <2>1, <2>2
<1>7. k - 1 \notin Bad
  <2>1. k \in Nat /\ ~(k <= k - 1)
    OBVIOUS
  <2> HIDE DEF Bad
  <2> QED BY <1>2, <2>1
<1>8. PICK b \in Nat : \A x \in T \ {t} : x <= b
  BY <1>6, <1>7
<1>9. (IF t > b THEN t ELSE b) \in Nat /\ \A x \in T : x <= (IF t > b THEN t ELSE b)
  BY <1>8
<1> QED BY <1>3, <1>9

LEMMA GreatestExists ==
  ASSUME NEW S \in SUBSET Nat, IsFiniteSet(S), S # {}
  PROVE  \E k \in S : \A l \in S : k >= l
<1>1. PICK b \in Nat : \A x \in S : x <= b
  BY BoundExists
<1> DEFINE D == {b - x : x \in S}
<1>2. D \in SUBSET Nat /\ D # {}
  <2>1. \A x \in S : b - x \in Nat
    BY <1>1
  <2> QED BY <2>1
<1>3. PICK d \in D : \A e \in D : d <= e
  <2> HIDE DEF D
  <2> QED BY <1>2, LeastExists
<1>4. PICK k \in S : d = b - k
  OBVIOUS
<1>5. \A l \in S : b - k <= b - l
  BY <1>3, <1>4
<1> QED BY <1>5

-----------------------------------------------------------------------------
(* Raises, blends and medians *)

Raises == Nat

LEMMA Hundredths ==
  ASSUME NEW a \in Nat, NEW b \in Nat, a <= b
  PROVE  a \div 100 \in Nat /\ a \div 100 <= b \div 100 /\ (100 * a) \div 100 = a
OBVIOUS

LEMMA RaisedFacts ==
  ASSUME NEW x \in Nat, NEW p \in Raises
  PROVE  Raised(x, p) \in Nat /\ x <= Raised(x, p)
<1> DEFINE y == x * (100 + p)
<1>1. y \in Nat /\ 100 * x <= y /\ 100 * x \in Nat
  <2>1. x * p \in Nat /\ y = 100 * x + x * p
    BY DEF Raises
  <2> QED BY <2>1
<1> HIDE DEF y
<1>2. (100 * x) \div 100 <= y \div 100 /\ y \div 100 \in Nat /\ (100 * x) \div 100 = x
  BY <1>1, Hundredths
<1> QED BY <1>2 DEF Raised, y

LEMMA RaisedGrows ==
  ASSUME NEW x \in Nat, NEW y \in Nat, x <= y, NEW p \in Raises, NEW q \in Raises, p <= q
  PROVE  Raised(x, p) <= Raised(y, q)
<1> DEFINE a == x * (100 + p)
           b == y * (100 + q)
<1>1. a \in Nat /\ b \in Nat /\ a <= b
  <2>1. PICK d \in Nat : y = x + d
    <3>1. y - x \in Nat /\ y = x + (y - x)
      OBVIOUS
    <3> QED BY <3>1
  <2>2. PICK e \in Nat : q = p + e
    <3>1. q - p \in Nat /\ q = p + (q - p)
      BY DEF Raises
    <3> QED BY <3>1
  <2>3. x * e \in Nat /\ d * (100 + q) \in Nat /\ x * (100 + p) \in Nat
    BY DEF Raises
  <2>4. b = x * (100 + p) + x * e + d * (100 + q)
    BY <2>1, <2>2 DEF Raises
  <2> QED BY <2>3, <2>4
<1> HIDE DEF a, b
<1>2. a \div 100 <= b \div 100
  BY <1>1, Hundredths
<1> QED BY <1>2 DEF Raised, a, b

\* What is raised alike stays as far apart at least.
LEMMA RaisedApart ==
  ASSUME NEW b \in Nat, NEW t \in Nat, NEW m \in Nat, b + t <= m, NEW p \in Raises
  PROVE  b + Raised(t, p) <= Raised(m, p)
<1> DEFINE u == t * (100 + p)
           v == m * (100 + p)
<1>1. u \in Nat /\ v \in Nat /\ 100 * b + u <= v
  <2>1. PICK d \in Nat : m = b + t + d
    <3>1. m - (b + t) \in Nat /\ m = b + t + (m - (b + t))
      OBVIOUS
    <3> QED BY <3>1
  <2>2. b * p \in Nat /\ d * (100 + p) \in Nat
    BY DEF Raises
  <2>3. u \in Nat /\ v = 100 * b + b * p + u + d * (100 + p)
    BY <2>1 DEF Raises
  <2> QED BY <2>2, <2>3
<1> HIDE DEF u, v
<1>2. (100 * b + u) \div 100 = b + u \div 100
  BY <1>1
<1>3. (100 * b + u) \div 100 <= v \div 100
  BY <1>1, Hundredths
<1> QED BY <1>2, <1>3 DEF Raised, u, v

\* Percentages of retries are among them, and none is greater than the greatest.
LEMMA PercentFacts ==
  /\ MostRaise \in Raises
  /\ \A n \in Percents : n \in Raises /\ n + 50 \in Raises /\ n + 50 <= MostRaise
<1>1. Attempts \in Nat \ {0}
  BY GasConstantsOK
<1>2. MostRaise \in Nat
  BY <1>1 DEF MostRaise, Larger
<1>3. ASSUME NEW n \in Percents PROVE n \in Nat /\ n + 50 <= MostRaise
  <2>1. PICK k \in 0..(Attempts - 1) : n = 20 * Larger(1, k)
    BY DEF Percents
  <2>2. Larger(1, k) \in Nat /\ Larger(1, k) <= Larger(1, Attempts - 1) /\ Larger(1, Attempts - 1) \in Nat
    BY <1>1 DEF Larger
  <2> QED BY <2>1, <2>2 DEF MostRaise
<1> QED BY <1>2, <1>3 DEF Raises

\* What is made of a median and a price lies between the median and the larger of both.
LEMMA BlendFacts ==
  ASSUME NEW m \in Nat \ {0}, NEW q \in Nat
  PROVE  Blend(m, q) \in Nat /\ m <= Blend(m, q) /\ Blend(m, q) <= Larger(q, m)
<1> DEFINE ratio == (q * 100) \div m
<1>1. ratio \in Nat /\ ratio * m <= q * 100
  <2>1. \A a \in Nat : a \div m \in Nat /\ (a \div m) * m <= a
    OBVIOUS
  <2> QED BY <2>1
<1>2. Blend(m, q) = CASE ratio > 200 /\ ratio < 500 -> (2 * m + q) \div 3
                      [] ratio > 500 \/ ratio < 50  -> m
                      [] OTHER                      -> Larger(q, m)
  BY DEF Blend
<1> HIDE DEF ratio
<1>3. CASE ratio > 200 /\ ratio < 500
  <2>1. 201 * m <= ratio * m
    BY <1>1, <1>3
  <2>2. 2 * m <= q
    BY <1>1, <2>1
  <2>3. (2 * m + q) \div 3 \in Nat /\ m <= (2 * m + q) \div 3 /\ (2 * m + q) \div 3 <= q
    BY <2>2
  <2> QED BY <1>2, <1>3, <2>2, <2>3 DEF Larger
<1>4. CASE ~(ratio > 200 /\ ratio < 500) /\ (ratio > 500 \/ ratio < 50)
  BY <1>2, <1>4 DEF Larger
<1>5. CASE ~(ratio > 200 /\ ratio < 500) /\ ~(ratio > 500 \/ ratio < 50)
  BY <1>2, <1>5 DEF Larger
<1> QED BY <1>3, <1>4, <1>5

\* The element at a place of the sorted values is one of them.
LEMMA RankedFacts ==
  ASSUME NEW h, NEW D, IsFiniteSet(D), \A k \in D : h[k] \in Nat, NEW i \in 1..Cardinality(D)
  PROVE  Ranked(h, D, i) \in {h[k] : k \in D}
<1> DEFINE V == {h[k] : k \in D}
           upTo(x) == {k \in D : h[k] <= x}
           under(x) == {k \in D : h[k] < x}
           Enough == {x \in V : i <= Cardinality(upTo(x))}
<1>1. Cardinality(D) \in Nat /\ i \in Nat \ {0}
  BY FS_CardinalityType
<1>2. V \in SUBSET Nat /\ D # {}
  BY <1>1, FS_EmptySet
<1>3. IsFiniteSet(V)
  <2> DEFINE f == [k \in D |-> h[k]]
  <2>1. f \in Surjection(D, V)
    BY DEF Surjection
  <2> QED BY <2>1, FS_Surjection
<1>4. PICK top \in V : \A x \in V : top >= x
  <2> HIDE DEF V
  <2>1. V # {}
    BY <1>2 DEF V
  <2> QED BY <1>2, <1>3, <2>1, GreatestExists
<1>5. Enough \in SUBSET Nat /\ Enough # {}
  <2>1. upTo(top) = D
    BY <1>4
  <2>2. i <= Cardinality(D)
    BY <1>1
  <2>3. top \in Enough
    BY <2>1, <2>2
  <2> QED BY <1>2, <2>3
<1>6. PICK x \in Enough : \A y \in Enough : x <= y
  <2> HIDE DEF Enough
  <2> QED BY <1>5, LeastExists
<1>7. Cardinality(under(x)) < i
  <2> DEFINE W == {y \in V : y < x}
  <2>1. CASE W = {}
    <3>1. under(x) = {}
      BY <2>1
    <3> QED BY <1>1, <3>1, FS_EmptySet
  <2>2. CASE W # {}
    <3>1. W \in SUBSET Nat /\ IsFiniteSet(W)
      BY <1>2, <1>3, FS_Subset
    <3>2. PICK y \in W : \A z \in W : y >= z
      <4> HIDE DEF W
      <4> QED BY <2>2, <3>1, GreatestExists
    <3>3. y \in V /\ y < x /\ y \in Nat /\ x \in Nat
      BY <1>2, <1>5
    <3>4. y \notin Enough
      <4> HIDE DEF Enough
      <4> QED BY <1>6, <3>3
    <3>5. upTo(y) = under(x)
      BY <1>2, <3>2, <3>3
    <3>6. Cardinality(upTo(y)) \in Nat
      <4>1. upTo(y) \in SUBSET D
        OBVIOUS
      <4> HIDE DEF upTo
      <4> QED BY <4>1, FS_Subset, FS_CardinalityType
    <3>7. ~(i <= Cardinality(upTo(y)))
      BY <3>3, <3>4
    <3> HIDE DEF upTo, under
    <3> QED BY <1>1, <3>5, <3>6, <3>7
  <2> QED BY <2>1, <2>2
<1>8. \E z \in {h[k] : k \in D} :
        Cardinality({k \in D : h[k] < z}) < i /\ i <= Cardinality({k \in D : h[k] <= z})
  BY <1>6, <1>7
<1> QED BY <1>8 DEF Ranked

LEMMA MedianFacts ==
  ASSUME NEW h, NEW D, IsFiniteSet(D), D # {}, \A k \in D : h[k] \in Nat
  PROVE  Median(h, D) \in Nat /\ \E k, l \in D : h[k] <= Median(h, D) /\ Median(h, D) <= h[l]
<1> DEFINE n == Cardinality(D)
           a == Ranked(h, D, n \div 2 + 1)
           b == Ranked(h, D, n \div 2)
<1>1. n \in Nat \ {0}
  BY FS_CardinalityType, FS_EmptySet
<1>2. Median(h, D) = IF n % 2 = 1 THEN a ELSE (b + a) \div 2
  BY DEF Median
<1>3. n \div 2 + 1 \in 1..n \/ (n % 2 = 1 /\ n \div 2 + 1 \in 1..n)
  <2> HIDE DEF n
  <2> QED BY <1>1
<1>4. a \in {h[k] : k \in D}
  BY <1>3, RankedFacts
<1>5. CASE n % 2 = 1
  BY <1>2, <1>4, <1>5
<1>6. CASE n % 2 # 1
  <2>1. n \div 2 \in 1..n
    <3> HIDE DEF n
    <3> QED BY <1>1, <1>6
  <2>2. b \in {h[k] : k \in D}
    BY <2>1, RankedFacts
  <2>3. PICK k \in D, l \in D : a = h[k] /\ b = h[l]
    BY <1>4, <2>2
  <2> HIDE DEF a, b, n
  <2>4. a \in Nat /\ b \in Nat
    BY <2>3
  <2>5. (b + a) \div 2 \in Nat /\ \/ a <= (b + a) \div 2 /\ (b + a) \div 2 <= b
                                  \/ b <= (b + a) \div 2 /\ (b + a) \div 2 <= a
    BY <2>4
  <2>6. Median(h, D) = (b + a) \div 2
    BY <1>2, <1>6
  <2>7. CASE a <= (b + a) \div 2 /\ (b + a) \div 2 <= b
    BY <2>3, <2>5, <2>6, <2>7
  <2>8. CASE b <= (b + a) \div 2 /\ (b + a) \div 2 <= a
    BY <2>3, <2>5, <2>6, <2>8
  <2> QED BY <2>5, <2>7, <2>8
<1> QED BY <1>5, <1>6

-----------------------------------------------------------------------------
(* What a fetch makes of the answers *)

AllQuotes == Prices(Master)
ModesAt(c) == {Mode[First], Mode[c]}
PaidOf(c) == (Paid(c) \ {0}) \cup {IF Mode[c] = "standard" THEN 0 ELSE Gwei}

PriceOK(c, v) ==
  v = Null \/ /\ v \in Nat
              /\ \E q \in AllQuotes : q <= v
              /\ \E q \in AllQuotes, m \in ModesAt(c) : v <= Raised(q, Buffer(m))
HistoryOK(c, v) == v = Null \/ \E x \in Histories[c], m \in ModesAt(c) : v = HistoryFor(x, m)
TipOK(c, v)     == v \in Tips[c] \cup {Null}

InfoOK(c, i) == PriceOK(c, i.gasPrice) /\ HistoryOK(c, i.feeHistory) /\ TipOK(c, i.maxPriorityFee)

LEMMA ConstantFacts ==
  /\ AllQuotes \in SUBSET Nat
  /\ \A p : Serves(p) \in SUBSET Chains
  /\ \A c \in Chains : /\ Mode[c] \in {"standard", "fast", "rapid"}
                       /\ Quotes[c] \in SUBSET AllQuotes
                       /\ Tips[c] \in SUBSET Nat
                       /\ LeastFee[c] \in Nat
                       /\ L1Of[c] \in Chains \cup {Null}
                       /\ ModesAt(c) \in SUBSET {"standard", "fast", "rapid"}
  /\ Master \notin Copies /\ Api \notin Threads
  /\ Serves(Master) = Chains /\ Serves(Api) = Chains
<1>1. Master \notin Threads /\ Api # Master /\ Api \notin Threads
  BY GasConstantsOK DEF Master
<1>2. Serves(Master) = Chains /\ Serves(Api) = Chains
  BY <1>1 DEF Serves
<1>3. \A p : Serves(p) \in SUBSET Chains
  BY GasConstantsOK DEF Serves
<1>4. \A c \in Chains : /\ Quotes[c] \in SUBSET Nat
                        /\ Quotes[c] \in SUBSET AllQuotes
  BY <1>2, GasConstantsOK DEF AllQuotes, Prices
<1>5. AllQuotes \in SUBSET Nat
  BY <1>2, <1>4 DEF AllQuotes, Prices
<1> QED BY <1>1, <1>2, <1>3, <1>4, <1>5, GasConstantsOK DEF Copies, ModesAt

LEMMA BufferFacts ==
  ASSUME NEW m \in {"standard", "fast", "rapid"}
  PROVE  Buffer(m) \in {10, 50, 70} /\ Buffer(m) \in Raises
BY DEF Buffer, Raises

\* The price made of a history of prices, the last of them included, lies between two of
\* them, but for the raise of the mode.
LEMMA PricedFacts ==
  ASSUME NEW c \in Chains, NEW h \in Seq(AllQuotes), NEW q \in AllQuotes, NEW m \in ModesAt(c)
  PROVE  PriceOK(c, Priced(h, q, m))
<1> DEFINE n == Len(h)
           med == Median(h, 1..n)
           v == Priced(h, q, m)
<1>1. AllQuotes \in SUBSET Nat /\ Buffer(m) \in Raises
  BY ConstantFacts, BufferFacts
<1>2. n \in Nat /\ \A k \in 1..n : h[k] \in AllQuotes
  OBVIOUS
<1>3. CASE n < 3
  <2>1. v = Raised(q, Buffer(m))
    BY <1>3 DEF Priced
  <2> HIDE DEF v
  <2>2. q \in Nat /\ v \in Nat /\ q <= v
    BY <1>1, <2>1, RaisedFacts
  <2>3. v <= Raised(q, Buffer(m))
    BY <2>1, <2>2
  <2>4. PriceOK(c, v)
    BY <2>2, <2>3 DEF PriceOK
  <2> QED BY <2>4 DEF v
<1>4. CASE ~(n < 3) /\ med = 0
  BY <1>4 DEF Priced, PriceOK
<1>5. CASE ~(n < 3) /\ med # 0
  <2>1. v = Raised(Blend(med, q), Buffer(m))
    BY <1>5 DEF Priced
  <2>2. med \in Nat \ {0} /\ \E k, l \in 1..n : h[k] <= med /\ med <= h[l]
    <3> DEFINE D == 1..n
    <3>1. IsFiniteSet(D) /\ D # {}
      <4> HIDE DEF n, med
      <4>1. 1 \in Int /\ n \in Int /\ 1 \in 1..n
        BY <1>2, <1>5
      <4>2. IsFiniteSet(1..n)
        BY <4>1, FS_Interval
      <4> QED BY <4>1, <4>2
    <3>2. \A k \in D : h[k] \in Nat
      BY <1>1, <1>2
    <3>3. Median(h, D) \in Nat /\ \E k, l \in D : h[k] <= Median(h, D) /\ Median(h, D) <= h[l]
      <4> HIDE DEF D
      <4> QED BY <3>1, <3>2, MedianFacts
    <3> QED BY <1>5, <3>3
  <2>3. PICK k \in 1..n, l \in 1..n : h[k] <= med /\ med <= h[l]
    BY <2>2
  <2> HIDE DEF med, v, n
  <2>4. Blend(med, q) \in Nat /\ med <= Blend(med, q) /\ Blend(med, q) <= Larger(q, med)
    BY <1>1, <2>2, BlendFacts
  <2>5. h[k] \in AllQuotes /\ h[l] \in AllQuotes /\ h[k] \in Nat /\ h[l] \in Nat /\ q \in Nat
    BY <1>1, <1>2
  <2>6. PICK r \in AllQuotes : Blend(med, q) <= r /\ r \in Nat
    BY <2>2, <2>3, <2>4, <2>5 DEF Larger
  <2>7. v \in Nat /\ Blend(med, q) <= v /\ v <= Raised(r, Buffer(m))
    <3> DEFINE b == Blend(med, q)
    <3>1. b \in Nat /\ b <= r
      BY <2>4, <2>6
    <3> HIDE DEF b
    <3>2. Buffer(m) <= Buffer(m)
      BY <1>1 DEF Raises
    <3>3. Raised(b, Buffer(m)) \in Nat /\ b <= Raised(b, Buffer(m)) /\ Raised(b, Buffer(m)) <= Raised(r, Buffer(m))
      BY <1>1, <2>6, <3>1, <3>2, RaisedFacts, RaisedGrows
    <3> QED BY <2>1, <3>3 DEF b
  <2>8. h[k] <= v
    BY <2>2, <2>3, <2>4, <2>5, <2>7
  <2>9. PriceOK(c, v)
    BY <2>5, <2>6, <2>7, <2>8 DEF PriceOK
  <2> QED BY <2>9 DEF v
<1> QED BY <1>3, <1>4, <1>5

LEMMA LatestFacts ==
  ASSUME NEW S, NEW s \in Seq(S), NEW n \in Nat
  PROVE  /\ Len(Latest(s, n)) \in Nat
         /\ \A k \in 1..Len(Latest(s, n)) : \E j \in 1..Len(s) : Latest(s, n)[k] = s[j]
<1> DEFINE N == Len(s)
           a == Larger(1, N - n + 1)
           t == Latest(s, n)
<1>1. N \in Nat
  OBVIOUS
<1>2. t = SubSeq(s, a, N)
  BY DEF Latest
<1> HIDE DEF N, t
<1>3. a \in Int /\ 1 <= a /\ N \in Int
  BY <1>1 DEF Larger
<1>4. \A i \in a..N : s[i] \in S
  BY <1>1, <1>3 DEF N
<1> HIDE DEF a
<1>5. /\ Len(SubSeq(s, a, N)) = IF a <= N THEN N - a + 1 ELSE 0
      /\ \A i \in 1..N - a + 1 : SubSeq(s, a, N)[i] = s[a + i - 1]
  BY <1>3, <1>4, SubSeqProperties
<1>6. ASSUME NEW k \in 1..Len(t) PROVE \E j \in 1..N : t[k] = s[j]
  <2>1. a <= N /\ k \in 1..N - a + 1
    BY <1>2, <1>3, <1>5, <1>6
  <2>2. t[k] = s[a + k - 1] /\ a + k - 1 \in 1..N
    BY <1>2, <1>3, <1>5, <2>1
  <2> QED BY <2>2
<1>7. Len(t) \in Nat
  BY <1>2, <1>3, <1>5
<1> QED BY <1>6, <1>7 DEF t, N

\* A history that is kept has the rewards some blocks paid.
LEMMA HistoryFacts ==
  ASSUME NEW c \in Chains, NEW x \in Histories[c], NEW m \in ModesAt(c)
  PROVE  /\ HistoryFor(x, m).base = x.base /\ x.base \in Nat
         /\ Len(HistoryFor(x, m).rewards) \in Nat
         /\ \A k \in 1..Len(HistoryFor(x, m).rewards) :
              HistoryFor(x, m).rewards[k] \in Paid(c) \cap Nat
<1> DEFINE s == x.rewards
           t == Latest(s, BlockCount(m))
           r == HistoryFor(x, m).rewards
<1>1. m \in {"standard", "fast", "rapid"} /\ m \in {Mode[c], Mode[First]}
  BY ConstantFacts DEF ModesAt
<1>2. BlockCount(m) \in Nat /\ Percentile(m) \in {50, 75, 95}
  BY <1>1 DEF BlockCount, Percentile
<1>3. x.base \in Nat /\ s \in Seq([{50, 75, 95} -> Nat])
  BY GasConstantsOK
<1>4. r = [k \in 1..Len(t) |-> t[k][Percentile(m)]] /\ HistoryFor(x, m).base = x.base
  BY DEF HistoryFor
<1> HIDE DEF s, t, r
<1>5. Len(t) \in Nat /\ \A k \in 1..Len(t) : \E j \in 1..Len(s) : t[k] = s[j]
  <2> DEFINE S == [{50, 75, 95} -> Nat]
             b == BlockCount(m)
  <2>1. s \in Seq(S) /\ b \in Nat
    BY <1>2, <1>3
  <2> HIDE DEF S, b
  <2>2. Len(Latest(s, b)) \in Nat /\ \A k \in 1..Len(Latest(s, b)) : \E j \in 1..Len(s) : Latest(s, b)[k] = s[j]
    BY <2>1, LatestFacts
  <2> QED BY <2>2 DEF t, b
<1>6. ASSUME NEW k \in 1..Len(t) PROVE t[k][Percentile(m)] \in Paid(c) \cap Nat
  <2>1. PICK j \in 1..Len(s) : t[k] = s[j]
    BY <1>5, <1>6
  <2>2. s[j] \in [{50, 75, 95} -> Nat] /\ j \in DOMAIN s
    BY <1>3
  <2>3. s[j][Percentile(m)] \in Nat
    BY <1>2, <2>2
  <2>4. s[j][Percentile(m)] \in {x.rewards[i][Percentile(o)] : i \in DOMAIN x.rewards, o \in {Mode[c], Mode[First]}}
    BY <1>1, <2>2 DEF s
  <2>5. s[j][Percentile(m)] \in Paid(c)
    BY <2>4 DEF Paid
  <2> QED BY <2>1, <2>3, <2>5
<1>7. Len(r) = Len(t)
  BY <1>4, <1>5
<1>8. \A k \in 1..Len(r) : r[k] \in Paid(c) \cap Nat
  BY <1>4, <1>6, <1>7
<1> QED BY <1>3, <1>4, <1>5, <1>7, <1>8 DEF r

\* The usual reward lies between two that were paid, unless none was.
LEMMA UsualFacts ==
  ASSUME NEW c \in Chains, NEW r, Len(r) \in Nat, \A k \in 1..Len(r) : r[k] \in Paid(c) \cap Nat
  PROVE  /\ Usual(r, Mode[c]) \in Nat
         /\ \E t \in PaidOf(c) \cap Nat : t <= Usual(r, Mode[c])
         /\ \E t \in PaidOf(c) \cap Nat : Usual(r, Mode[c]) <= t
<1> DEFINE D == {k \in 1..Len(r) : r[k] > 0}
           n == Len(r)
           u == Usual(r, Mode[c])
<1>1. CASE D = {}
  <2>1. u = IF Mode[c] = "standard" THEN 0 ELSE Gwei
    BY <1>1 DEF Usual
  <2>2. u \in PaidOf(c)
    BY <2>1 DEF PaidOf
  <2>3. u \in Nat
    BY <2>1, GasConstantsOK
  <2> QED BY <2>2, <2>3
<1>2. CASE D # {}
  <2>1. u = Median(r, D)
    BY <1>2 DEF Usual
  <2>2. IsFiniteSet(D)
    <3>1. IsFiniteSet(1..n)
      <4> HIDE DEF n
      <4>1. 1 \in Int /\ n \in Int
        BY DEF n
      <4> QED BY <4>1, FS_Interval
    <3>2. D \in SUBSET (1..n)
      OBVIOUS
    <3> HIDE DEF D, n
    <3> QED BY <3>1, <3>2, FS_Subset
  <2>3. \A k \in D : r[k] \in Nat
    OBVIOUS
  <2>4. Median(r, D) \in Nat /\ \E k, l \in D : r[k] <= Median(r, D) /\ Median(r, D) <= r[l]
    <3> HIDE DEF D
    <3> QED BY <1>2, <2>2, <2>3, MedianFacts
  <2>5. PICK k \in D, l \in D : r[k] <= Median(r, D) /\ Median(r, D) <= r[l]
    BY <2>4
  <2>6. r[k] \in PaidOf(c) \cap Nat /\ r[l] \in PaidOf(c) \cap Nat
    BY DEF PaidOf
  <2> HIDE DEF D, u
  <2>7. u \in Nat /\ r[k] <= u /\ u <= r[l]
    BY <2>1, <2>4, <2>5
  <2> QED BY <2>6, <2>7 DEF u
<1> QED BY <1>1, <1>2

\* The tip of a transaction lies between two tips that were paid or answered, but for the
\* raise of a crowded chain.
LEMMA TipFacts ==
  ASSUME NEW c \in Chains, NEW x \in Histories[c], NEW m \in ModesAt(c),
         NEW tip \in Tips[c] \cup {0}
  PROVE  /\ Tip(HistoryFor(x, m), tip, Mode[c]) \in Nat
         /\ \E t \in PaidOf(c) \cap Nat : t <= Tip(HistoryFor(x, m), tip, Mode[c])
         /\ \E t \in (PaidOf(c) \cup Tips[c]) \cap Nat : Tip(HistoryFor(x, m), tip, Mode[c]) <= Raised(t, 50)
<1> DEFINE h == HistoryFor(x, m)
           u == Usual(h.rewards, Mode[c])
           b == IF tip > 0 /\ u > 0 THEN Blend(u, tip) ELSE u
           v == Tip(h, tip, Mode[c])
<1>1. tip \in Nat /\ (tip \in Tips[c] \/ tip = 0)
  BY ConstantFacts
<1>2. /\ u \in Nat
      /\ \E t \in PaidOf(c) \cap Nat : t <= u
      /\ \E t \in PaidOf(c) \cap Nat : u <= t
  <2>1. Len(h.rewards) \in Nat /\ \A k \in 1..Len(h.rewards) : h.rewards[k] \in Paid(c) \cap Nat
    BY HistoryFacts
  <2> HIDE DEF h
  <2> QED BY <2>1, UsualFacts
<1>3. v \in {u, b, Raised(b, 20), Raised(b, 50)}
  BY DEF Tip
<1> HIDE DEF h, u
<1>4. b \in Nat /\ u <= b /\ \E t \in (PaidOf(c) \cup Tips[c]) \cap Nat : b <= t
  <2>1. CASE tip > 0 /\ u > 0
    <3> DEFINE l == Blend(u, tip)
    <3>1. u \in Nat \ {0} /\ b = l
      BY <1>2, <2>1
    <3>2. l \in Nat /\ u <= l /\ l <= Larger(tip, u)
      BY <1>1, <3>1, BlendFacts
    <3> HIDE DEF b, l
    <3>3. CASE tip > u
      <4>1. l <= tip
        BY <3>2, <3>3 DEF Larger
      <4>2. tip \in (PaidOf(c) \cup Tips[c]) \cap Nat
        BY <1>1, <2>1
      <4> QED BY <3>1, <3>2, <4>1, <4>2
    <3>4. CASE ~(tip > u)
      <4>1. l <= u
        BY <3>2, <3>4 DEF Larger
      <4>2. PICK t \in PaidOf(c) \cap Nat : u <= t
        BY <1>2
      <4>3. l <= t
        BY <1>2, <3>2, <4>1, <4>2
      <4> QED BY <3>1, <3>2, <4>2, <4>3
    <3> QED BY <3>3, <3>4
  <2>2. CASE ~(tip > 0 /\ u > 0)
    BY <1>2, <2>2
  <2> QED BY <2>1, <2>2
<1> HIDE DEF b, v
<1>5. v \in Nat /\ u <= v /\ v <= Raised(b, 50)
  <2>1. 20 \in Raises /\ 50 \in Raises /\ 20 <= 50 /\ b <= b
    BY <1>4 DEF Raises
  <2>2. Raised(b, 20) \in Nat /\ b <= Raised(b, 20) /\ Raised(b, 50) \in Nat /\ b <= Raised(b, 50)
    BY <1>4, <2>1, RaisedFacts
  <2>3. Raised(b, 20) <= Raised(b, 50)
    BY <1>4, <2>1, RaisedGrows
  <2> HIDE DEF Raises
  <2> QED BY <1>2, <1>3, <1>4, <2>2, <2>3
<1>6. PICK t \in (PaidOf(c) \cup Tips[c]) \cap Nat : b <= t
  BY <1>4
<1>7. v <= Raised(t, 50)
  <2>1. Raised(b, 50) <= Raised(t, 50)
    <3>1. 50 \in Raises /\ 50 <= 50
      BY DEF Raises
    <3> QED BY <1>4, <1>6, <3>1, RaisedGrows
  <2>2. Raised(b, 50) \in Nat /\ Raised(t, 50) \in Nat
    BY <1>4, <1>6, RaisedFacts DEF Raises
  <2> QED BY <1>5, <2>1, <2>2
<1>8. PICK z \in PaidOf(c) \cap Nat : z <= u
  BY <1>2
<1>9. z <= v
  BY <1>2, <1>5, <1>8
<1> QED BY <1>5, <1>6, <1>7, <1>8, <1>9 DEF v, h

\* What is known of a chain gives fees in range, or none.
FeesOK(x) == x = Unknown \/ (x.base \in Nat /\ x.tip \in Nat /\ x.max \in Nat)
OldOK(c, x) == x # Unknown /\ FeesOK(x) /\ InRange(AllQuotes, c, x, 0, {})

LEMMA MarketFacts ==
  ASSUME NEW c \in Chains, NEW i, HistoryOK(c, i), i # Null, NEW tip \in Tips[c] \cup {0}
  PROVE  LET x == Market(i, tip, Mode[c]) IN FeesOK(x) /\ MarketInRange(c, x, 0, {})
<1>1. PICK y \in Histories[c], m \in ModesAt(c) : i = HistoryFor(y, m)
  BY DEF HistoryOK
<1> DEFINE v == Tip(i, tip, Mode[c])
           x == Market(i, tip, Mode[c])
<1>2. /\ v \in Nat
      /\ \E t \in PaidOf(c) \cap Nat : t <= v
      /\ \E t \in (PaidOf(c) \cup Tips[c]) \cap Nat : v <= Raised(t, 50)
  BY <1>1, TipFacts
<1>3. i.base = y.base /\ y.base \in Nat
  BY <1>1, HistoryFacts
<1>4. Multiplier(Mode[c]) \in {1, 2, 3}
  BY ConstantFacts DEF Multiplier
<1>5. x.base = y.base /\ x.tip = v /\ x.max = y.base * Multiplier(Mode[c]) + v
  BY <1>3 DEF Market
<1> HIDE DEF v, x
<1>6. y.base * Multiplier(Mode[c]) \in Nat /\ y.base <= y.base * Multiplier(Mode[c])
  BY <1>3, <1>4
<1>7. x.max \in Nat /\ x.max >= x.base + x.tip
  BY <1>2, <1>3, <1>5, <1>6
<1>8. \A t \in Nat : Raised(Raised(t, 50), 0) = Raised(t, 50)
  BY DEF Raised
<1>9. MarketInRange(c, x, 0, {})
  <2>1. PICK t \in PaidOf(c) : t <= v
    BY <1>2
  <2>2. PICK z \in (PaidOf(c) \cup Tips[c]) \cap Nat : v <= Raised(z, 50)
    BY <1>2
  <2>3. v <= Raised(Raised(z, 50), 0)
    BY <1>8, <2>2
  <2> QED BY <1>5, <1>7, <2>1, <2>2, <2>3 DEF MarketInRange, PaidOf
<1> QED BY <1>2, <1>3, <1>5, <1>7, <1>9 DEF x, FeesOK

LEMMA LegacyFacts ==
  ASSUME NEW c \in Chains, NEW price, PriceOK(c, price), price # Null
  PROVE  LET x == Legacy(price, LeastFee[c]) IN FeesOK(x) /\ LegacyInRange(AllQuotes, c, x, 0)
<1> DEFINE l == LeastFee[c]
           v == Larger(price, l)
           x == Legacy(price, l)
<1>1. /\ AllQuotes \in SUBSET Nat /\ l \in Nat /\ price \in Nat
      /\ ModesAt(c) \in SUBSET {"standard", "fast", "rapid"}
  BY ConstantFacts DEF PriceOK
<1>2. PICK q \in AllQuotes : q <= price
  BY DEF PriceOK
<1>3. PICK r \in AllQuotes, m \in ModesAt(c) : price <= Raised(r, Buffer(m))
  BY DEF PriceOK
<1>4. x.base = v /\ x.tip = v /\ x.max = v
  BY DEF Legacy
<1>5. v \in Nat /\ l <= v /\ price <= v /\ (v = l \/ v = price)
  BY <1>1 DEF Larger
<1> HIDE DEF l, v, x
<1>6. q <= v
  BY <1>1, <1>2, <1>5
<1>7. v <= Raised(Larger(l, Raised(r, Buffer(m))), 0)
  <2> DEFINE b == Raised(r, Buffer(m))
             z == Larger(l, b)
  <2>1. b \in Nat
    BY <1>1, BufferFacts, RaisedFacts
  <2>2. price <= b
    BY <1>3
  <2> HIDE DEF b
  <2>3. z \in Nat /\ l <= z /\ b <= z
    BY <1>1, <2>1 DEF Larger
  <2> HIDE DEF z
  <2>4. v <= z
    BY <1>1, <1>5, <2>1, <2>2, <2>3
  <2>5. Raised(z, 0) = z
    BY <2>3 DEF Raised
  <2> QED BY <2>4, <2>5 DEF z, b
<1>8. LegacyInRange(AllQuotes, c, x, 0)
  BY <1>3, <1>4, <1>5, <1>6, <1>7 DEF LegacyInRange, ModesAt, l
<1> QED BY <1>4, <1>5, <1>8 DEF FeesOK, x, l

\* Whatever is known of a chain, the fees made of it are in range, and so are those a retry
\* raises.
LEMMA ConditionsFacts ==
  ASSUME NEW c \in Chains, NEW i, InfoOK(c, i), NEW tip, TipOK(c, tip)
  PROVE  FeesOK(Conditions(c, i, tip)) /\ InRange(AllQuotes, c, Conditions(c, i, tip), 0, {})
<1>1. CASE Conditions(c, i, tip) = Unknown
  BY <1>1 DEF FeesOK, InRange
<1>2. CASE c \in Eip1559 /\ i.feeHistory # Null
  <2> DEFINE t == IF tip = Null THEN 0 ELSE tip
             h == i.feeHistory
  <2>1. t \in Tips[c] \cup {0}
    BY DEF TipOK
  <2>2. HistoryOK(c, h) /\ h # Null
    BY <1>2 DEF InfoOK
  <2>3. Conditions(c, i, tip) = Market(h, t, Mode[c])
    BY <1>2 DEF Conditions
  <2> HIDE DEF h, t
  <2>4. FeesOK(Market(h, t, Mode[c])) /\ MarketInRange(c, Market(h, t, Mode[c]), 0, {})
    BY <2>1, <2>2, MarketFacts
  <2> QED BY <1>2, <2>3, <2>4 DEF InRange
<1>3. CASE c \notin Eip1559 /\ i.gasPrice # Null
  <2> DEFINE g == i.gasPrice
  <2>1. PriceOK(c, g) /\ g # Null
    BY <1>3 DEF InfoOK
  <2>2. Conditions(c, i, tip) = Legacy(g, LeastFee[c])
    BY <1>3 DEF Conditions
  <2> HIDE DEF g
  <2>3. FeesOK(Legacy(g, LeastFee[c])) /\ LegacyInRange(AllQuotes, c, Legacy(g, LeastFee[c]), 0)
    BY <2>1, LegacyFacts
  <2> QED BY <1>3, <2>2, <2>3 DEF InRange
<1> QED BY <1>1, <1>2, <1>3 DEF Conditions

LEMMA PaidFacts ==
  ASSUME NEW c \in Chains
  PROVE  \A v \in Paid(c) : v \in Nat
<1> SUFFICES ASSUME NEW v \in Paid(c) PROVE v \in Nat
  OBVIOUS
<1>1. PICK h \in Histories[c] : v \in {h.rewards[k][Percentile(o)] : k \in DOMAIN h.rewards, o \in {Mode[c], Mode[First]}}
  BY DEF Paid
<1>2. PICK k \in DOMAIN h.rewards, o \in {Mode[c], Mode[First]} : v = h.rewards[k][Percentile(o)]
  BY <1>1
<1>3. h.rewards \in Seq([{50, 75, 95} -> Nat])
  BY GasConstantsOK
<1>4. h.rewards[k] \in [{50, 75, 95} -> Nat]
  BY <1>2, <1>3
<1>5. Percentile(o) \in {50, 75, 95}
  <2>1. o \in {"standard", "fast", "rapid"}
    BY <1>2, ConstantFacts DEF ModesAt
  <2> QED BY <2>1 DEF Percentile
<1> QED BY <1>2, <1>4, <1>5

LEMMA BumpedFacts ==
  ASSUME NEW c \in Chains, NEW x, FeesOK(x), InRange(AllQuotes, c, x, 0, {}), NEW p \in Raises,
         p <= MostRaise
  PROVE  FeesOK(Bumped(x, p)) /\ InRange(AllQuotes, c, Bumped(x, p), MostRaise, {})
<1>1. CASE x = Unknown
  BY <1>1 DEF Bumped, InRange, FeesOK
<1>2. CASE x # Unknown
  <2> DEFINE y == Bumped(x, p)
             most == MostRaise
             b == x.base
             t == x.tip
             m == x.max
  <2>1. y.base = b /\ y.tip = Raised(t, p) /\ y.max = Raised(m, p)
    BY <1>2 DEF Bumped
  <2>2. b \in Nat /\ t \in Nat /\ m \in Nat
    BY <1>2 DEF FeesOK
  <2>3. p \in Raises /\ p \in Nat /\ p <= most /\ most \in Raises
    BY PercentFacts DEF Raises
  <2>4. \A z \in Nat : Raised(z, 0) = z
    BY DEF Raised
  <2>5. Raised(t, p) \in Nat /\ t <= Raised(t, p) /\ Raised(m, p) \in Nat /\ m <= Raised(m, p)
    BY <2>2, <2>3, RaisedFacts
  <2> HIDE DEF y, most
  <2>6. ASSUME NEW u \in Nat, NEW z \in Nat, u <= Raised(z, 0)
        PROVE  Raised(u, p) <= Raised(z, most)
    <3>1. u <= z
      BY <2>4, <2>6
    <3> QED BY <2>3, <2>6, <3>1, RaisedGrows
  <2>7. ASSUME c \in Eip1559
        PROVE  InRange(AllQuotes, c, y, most, {})
    <3>1. MarketInRange(c, x, 0, {})
      BY <1>2, <2>7 DEF InRange
    <3>2. /\ \E h \in Histories[c] : b = h.base
          /\ b + t <= m
          /\ \E z \in PaidOf(c) : z <= t
      BY <2>2, <3>1 DEF MarketInRange, PaidOf
    <3>3. PICK z \in PaidOf(c) \cup Tips[c] : t <= Raised(Raised(z, 50), 0)
      BY <3>1 DEF MarketInRange, PaidOf
    <3>4. z \in Nat
      <4>1. \A v \in Paid(c) : v \in Nat
        BY PaidFacts
      <4>2. \A v \in Tips[c] : v \in Nat
        BY ConstantFacts
      <4> QED BY <3>3, <4>1, <4>2, GasConstantsOK DEF PaidOf
    <3>5. Raised(z, 50) \in Nat
      BY <3>4, RaisedFacts DEF Raises
    <3>6. Raised(t, p) <= Raised(Raised(z, 50), most)
      BY <2>2, <2>6, <3>3, <3>5
    <3>7. b + Raised(t, p) <= Raised(m, p)
      <4> HIDE DEF b, t, m
      <4> QED BY <2>2, <2>3, <3>2, RaisedApart
    <3>8. PICK w \in PaidOf(c) : w <= t
      BY <3>2
    <3>9. w <= Raised(t, p)
      <4>1. w \in Int
        BY <3>8, PaidFacts, GasConstantsOK DEF PaidOf
      <4> QED BY <2>2, <2>5, <3>8, <4>1
    <3>10. MarketInRange(c, y, most, {})
      BY <2>1, <2>5, <3>2, <3>3, <3>6, <3>7, <3>8, <3>9 DEF MarketInRange, PaidOf
    <3> QED BY <2>7, <3>10 DEF InRange
  <2>8. ASSUME c \notin Eip1559
        PROVE  InRange(AllQuotes, c, y, most, {})
    <3>1. LegacyInRange(AllQuotes, c, x, 0)
      BY <1>2, <2>8 DEF InRange
    <3>2. t = m /\ LeastFee[c] <= m /\ LeastFee[c] \in Nat /\ AllQuotes \in SUBSET Nat
      BY <3>1, ConstantFacts DEF LegacyInRange
    <3>3. PICK q \in AllQuotes : q <= m
      BY <3>1 DEF LegacyInRange
    <3>4. PICK r \in AllQuotes, o \in ModesAt(c) : m <= Raised(Larger(LeastFee[c], Raised(r, Buffer(o))), 0)
      BY <3>1 DEF LegacyInRange, ModesAt
    <3>5. Larger(LeastFee[c], Raised(r, Buffer(o))) \in Nat
      <4>1. Raised(r, Buffer(o)) \in Nat
        BY <3>2, ConstantFacts, BufferFacts, RaisedFacts
      <4> QED BY <3>2, <4>1 DEF Larger
    <3>6. Raised(m, p) <= Raised(Larger(LeastFee[c], Raised(r, Buffer(o))), most)
      BY <2>2, <2>6, <3>4, <3>5
    <3>7. q <= Raised(m, p) /\ LeastFee[c] <= Raised(m, p)
      BY <2>2, <2>5, <3>2, <3>3
    <3>8. LegacyInRange(AllQuotes, c, y, most)
      BY <2>1, <3>2, <3>3, <3>4, <3>6, <3>7 DEF LegacyInRange, ModesAt
    <3> QED BY <2>8, <3>8 DEF InRange
  <2>9. FeesOK(y)
    BY <2>1, <2>2, <2>5 DEF FeesOK
  <2>10. InRange(AllQuotes, c, y, most, {})
    BY <2>7, <2>8
  <2> QED BY <2>9, <2>10 DEF y, most
<1> QED BY <1>1, <1>2

\* With a fee of before for a fee of zero they stay in range, the tip of before apart.
LEMMA KeptFacts ==
  ASSUME NEW c \in Chains, NEW x, FeesOK(x), InRange(AllQuotes, c, x, MostRaise, {}),
         NEW old, OldOK(c, old)
  PROVE  InRange(AllQuotes, c, Kept(x, old), MostRaise, {old.tip})
<1>1. CASE x = Unknown
  BY <1>1 DEF Kept, InRange
<1>2. CASE x # Unknown
  <2> DEFINE y == Kept(x, old)
             most == MostRaise
             b == x.base
             t == x.tip
             m == x.max
             d == old.tip
             n == old.max
  <2>1. /\ y.base = b /\ y.tip = IF t = 0 THEN d ELSE t
        /\ y.max = IF m = 0 THEN n ELSE m
    BY <1>2 DEF Kept
  <2>2. b \in Nat /\ t \in Nat /\ m \in Nat /\ d \in Nat /\ n \in Nat /\ most \in Raises
    BY <1>2, PercentFacts DEF FeesOK, OldOK
  <2> HIDE DEF y, most
  <2>3. ASSUME NEW u \in Nat, NEW z \in Nat, u <= Raised(z, 0) PROVE u <= Raised(z, most)
    <3>1. Raised(z, 0) = z
      BY DEF Raised
    <3>2. z <= Raised(z, most) /\ Raised(z, most) \in Nat
      BY <2>2, RaisedFacts
    <3> QED BY <2>3, <3>1, <3>2
  <2>4. CASE c \in Eip1559
    <3>1. MarketInRange(c, x, most, {}) /\ MarketInRange(c, old, 0, {})
      BY <1>2, <2>4 DEF InRange, OldOK, most
    <3>2. /\ \E h \in Histories[c] : b = h.base
          /\ b + t <= m
          /\ \E z \in PaidOf(c) : z <= t
          /\ \E z \in PaidOf(c) \cup Tips[c] : t <= Raised(Raised(z, 50), most)
      BY <2>2, <3>1 DEF MarketInRange, PaidOf
    <3>3. /\ \E z \in PaidOf(c) : z <= d
          /\ \E z \in PaidOf(c) \cup Tips[c] : d <= Raised(Raised(z, 50), 0)
      BY <3>1 DEF MarketInRange, PaidOf
    <3>4. \E z \in PaidOf(c) \cup Tips[c] : d <= Raised(Raised(z, 50), most)
      <4>1. PICK z \in PaidOf(c) \cup Tips[c] : d <= Raised(Raised(z, 50), 0)
        BY <3>3
      <4>2. z \in Nat
        <5>1. \A v \in Paid(c) : v \in Nat
          BY PaidFacts
        <5>2. \A v \in Tips[c] : v \in Nat
          BY ConstantFacts
        <5> QED BY <4>1, <5>1, <5>2, GasConstantsOK DEF PaidOf
      <4>3. Raised(z, 50) \in Nat
        BY <4>2, RaisedFacts DEF Raises
      <4> QED BY <2>2, <2>3, <4>1, <4>3
    <3> HIDE DEF b, t, m, d, n
    <3>5. y.base = b /\ y.tip \in {t, d}
      BY <2>1
    <3>6. y.max >= y.base + y.tip \/ (y.max >= y.base /\ y.tip \in {d})
      <4>1. CASE t = 0
        BY <2>1, <2>2, <3>2, <4>1
      <4>2. CASE t # 0
        <5>1. m # 0
          BY <2>2, <3>2, <4>2
        <5> QED BY <2>1, <2>2, <3>2, <4>2, <5>1
      <4> QED BY <4>1, <4>2
    <3>7. \E z \in PaidOf(c) : z <= y.tip
      BY <3>2, <3>3, <3>5
    <3>8. \E z \in PaidOf(c) \cup Tips[c] : y.tip <= Raised(Raised(z, 50), most)
      BY <3>2, <3>4, <3>5
    <3>9. \E h \in Histories[c] : y.base = h.base
      BY <3>2, <3>5
    <3>10. MarketInRange(c, y, most, {d})
      BY <3>6, <3>7, <3>8, <3>9 DEF MarketInRange, PaidOf
    <3> QED BY <2>4, <3>10 DEF InRange, y, most, d
  <2>5. CASE c \notin Eip1559
    <3>1. LegacyInRange(AllQuotes, c, x, most) /\ LegacyInRange(AllQuotes, c, old, 0)
      BY <1>2, <2>5 DEF InRange, OldOK, most
    <3>2. y.tip = y.max /\ (y.max = m \/ y.max = n)
      <4>1. t = m /\ d = n
        BY <3>1 DEF LegacyInRange
      <4> HIDE DEF t, m, d, n
      <4> QED BY <2>1, <4>1
    <3>3. LeastFee[c] <= m /\ LeastFee[c] <= n /\ LeastFee[c] \in Nat /\ AllQuotes \in SUBSET Nat
      BY <3>1, ConstantFacts DEF LegacyInRange
    <3>4. (\E q \in AllQuotes : q <= m) /\ (\E q \in AllQuotes : q <= n)
      BY <3>1 DEF LegacyInRange
    <3>5. \E r \in AllQuotes, o \in ModesAt(c) : m <= Raised(Larger(LeastFee[c], Raised(r, Buffer(o))), most)
      BY <3>1 DEF LegacyInRange, ModesAt
    <3>6. PICK r \in AllQuotes, o \in ModesAt(c) : n <= Raised(Larger(LeastFee[c], Raised(r, Buffer(o))), 0)
      BY <3>1 DEF LegacyInRange, ModesAt
    <3>7. Larger(LeastFee[c], Raised(r, Buffer(o))) \in Nat
      <4>1. Raised(r, Buffer(o)) \in Nat
        BY <3>3, ConstantFacts, BufferFacts, RaisedFacts
      <4> QED BY <3>3, <4>1 DEF Larger
    <3>8. n <= Raised(Larger(LeastFee[c], Raised(r, Buffer(o))), most)
      BY <2>2, <2>3, <3>6, <3>7
    <3> HIDE DEF m, n
    <3>9. LegacyInRange(AllQuotes, c, y, most)
      BY <3>2, <3>3, <3>4, <3>5, <3>8 DEF LegacyInRange, ModesAt
    <3> QED BY <2>5, <3>9 DEF InRange, y, most
  <2> QED BY <2>4, <2>5
<1> QED BY <1>1, <1>2

\* The more was paid before, the more is in range.
LEMMA BeforeGrows ==
  ASSUME NEW c, NEW x, NEW D, NEW E, D \subseteq E, InRange(AllQuotes, c, x, MostRaise, D)
  PROVE  InRange(AllQuotes, c, x, MostRaise, E)
BY DEF InRange, MarketInRange

\* What a retry is to pay.
LEMMA RaisedAndKept ==
  ASSUME NEW c \in Chains, NEW x, FeesOK(x), InRange(AllQuotes, c, x, 0, {}), NEW p \in Raises,
         p <= MostRaise, NEW old, OldOK(c, old), NEW D, old \in D
  PROVE  InRange(AllQuotes, c, Kept(Bumped(x, p), old), MostRaise, {v.tip : v \in D})
<1> DEFINE y == Bumped(x, p)
<1>1. FeesOK(y) /\ InRange(AllQuotes, c, y, MostRaise, {})
  BY BumpedFacts
<1> HIDE DEF y
<1>2. InRange(AllQuotes, c, Kept(y, old), MostRaise, {old.tip})
  BY <1>1, KeptFacts
<1>3. {old.tip} \subseteq {v.tip : v \in D}
  OBVIOUS
<1> QED BY <1>2, <1>3, BeforeGrows DEF y

-----------------------------------------------------------------------------
(* What is known, on its way and paid is well formed *)

Known(c) ==
  [gasPrice       : {v \in Nat \cup {Null} : PriceOK(c, v)},
   feeHistory     : {Null} \cup {HistoryFor(x, m) : x \in Histories[c], m \in ModesAt(c)},
   maxPriorityFee : Tips[c] \cup {Null}]

Delta == {0} \cup {n + 50 : n \in Percents}
Fees  == [base : Nat \cup {Null}, tip : Nat \cup {Null}, max : Nat \cup {Null}]

Call == [at : Threads \cup {Master}, chain : Chains, nr : Nat, first : BOOLEAN, done : BOOLEAN,
         price : Nat \cup {Null}, retry : Delta, old : Fees, kept : Nat \cup {Null}]

InfosOK ==
  /\ DOMAIN infos = Processes
  /\ \A p \in Processes : /\ DOMAIN infos[p] = Serves(p)
                          /\ \A c \in Serves(p) : infos[p][c] \in Known(c)

WireOK ==
  /\ DOMAIN wire = Copies
  /\ \A p \in Copies : /\ DOMAIN wire[p] = Serves(p)
                       /\ \A c \in Serves(p) : wire[p][c] \in Seq(Known(c))

HistoryInv ==
  /\ DOMAIN history = Processes
  /\ \A p \in Processes : history[p] \in Seq(AllQuotes) /\ Len(history[p]) <= MaxHistory

\* A retry goes back to the fees of a first execution.
FromTried(f) == f.retry # 0 => f.at \in Threads /\ f.old \in tried[f.at]

TriedOK ==
  /\ DOMAIN tried = Threads
  /\ \A p \in Threads : \A x \in tried[p] : x \in Fees /\ OldOK(p, x)

CallsOK ==
  \A f \in calls : /\ f \in Call
                   /\ f.chain \in Serves(f.at)
                   /\ FromTried(f)
                   /\ PriceOK(f.chain, f.price) /\ TipOK(f.chain, f.kept)

SentOK ==
  /\ DOMAIN sent = Threads
  /\ \A p \in Threads : InRange(AllQuotes, p, sent[p], MostRaise, {x.tip : x \in tried[p]})

BudgetOK == budget \in [fetches : Nat, faults : Nat, retries : Nat, restarts : Nat]

DataInv == InfosOK /\ WireOK /\ HistoryInv /\ CallsOK /\ TriedOK /\ SentOK /\ BudgetOK

LEMMA FieldsAre == Fields = {"gasPrice", "feeHistory", "maxPriorityFee"}
BY DEF Fields, Nothing

LEMMA NothingFacts ==
  ASSUME NEW c
  PROVE  Nothing \in Known(c) /\ \A x \in Fields : Nothing[x] = Null
BY FieldsAre DEF Nothing, Known, PriceOK

LEMMA KnownFacts ==
  ASSUME NEW c, NEW i \in Known(c)
  PROVE  InfoOK(c, i) /\ TipOK(c, i.maxPriorityFee)
BY DEF Known, InfoOK, HistoryOK, TipOK

\* Answers that are merged into what is known keep its type.
LEMMA MergedFacts ==
  ASSUME NEW c, NEW old \in Known(c), NEW new \in Known(c)
  PROVE  /\ Merged(old, new) \in Known(c)
         /\ \A x \in Fields : Merged(old, new)[x] = IF new[x] # Null THEN new[x] ELSE old[x]
<1> DEFINE r == [gasPrice       |-> IF new.gasPrice # Null THEN new.gasPrice ELSE old.gasPrice,
                 feeHistory     |-> IF new.feeHistory # Null THEN new.feeHistory ELSE old.feeHistory,
                 maxPriorityFee |-> IF new.maxPriorityFee # Null THEN new.maxPriorityFee ELSE old.maxPriorityFee]
<1>1. Merged(old, new) = [x \in {"gasPrice", "feeHistory", "maxPriorityFee"} |-> IF new[x] # Null THEN new[x] ELSE old[x]]
  BY FieldsAre DEF Merged
<1>2. r = [x \in {"gasPrice", "feeHistory", "maxPriorityFee"} |-> IF new[x] # Null THEN new[x] ELSE old[x]]
  OBVIOUS
<1>3. r \in Known(c)
  BY DEF Known
<1> QED BY <1>1, <1>2, <1>3, FieldsAre

LEMMA StoredFacts ==
  ASSUME InfosOK, NEW p \in Processes, NEW c \in Serves(p), NEW new \in Known(c),
         infos' = Stored(p, c, new)
  PROVE  /\ InfosOK'
         /\ infos'[p][c] = Merged(infos[p][c], new)
         /\ \A q \in Processes : \A d \in Serves(q) :
              q # p \/ d # c => infos'[q][d] = infos[q][d]
<1> DEFINE v == Merged(infos[p][c], new)
<1>1. infos[p][c] \in Known(c)
  BY DEF InfosOK
<1>2. v \in Known(c)
  BY <1>1, MergedFacts
<1>3. infos' = [infos EXCEPT ![p] = [infos[p] EXCEPT ![c] = v]]
  BY DEF Stored
<1> HIDE DEF v
<1>4. \A q \in Processes : infos'[q] = IF q = p THEN [infos[p] EXCEPT ![c] = v] ELSE infos[q]
  BY <1>3 DEF InfosOK
<1>5. DOMAIN infos' = Processes /\ \A q \in Processes : DOMAIN infos'[q] = Serves(q)
  BY <1>3, <1>4 DEF InfosOK
<1>6. \A q \in Processes : \A d \in Serves(q) :
        infos'[q][d] = IF q = p /\ d = c THEN v ELSE infos[q][d]
  BY <1>4 DEF InfosOK
<1>7. InfosOK'
  BY <1>2, <1>5, <1>6 DEF InfosOK
<1> QED BY <1>6, <1>7 DEF v

LEMMA OwnFacts ==
  ASSUME NEW p \in Threads \cup {Master}, NEW c \in Serves(p)
  PROVE  p \in Processes /\ c \in Chains /\ Mode[Own(p)] \in ModesAt(c)
<1>1. c \in Chains
  BY ConstantFacts
<1>2. p \in Threads => c = p
  BY DEF Serves
<1> QED BY <1>1, <1>2 DEF Own, ModesAt, Processes, Copies

LEMMA PushedFacts ==
  ASSUME NEW S, NEW h \in Seq(S), NEW q \in S, Len(h) <= MaxHistory
  PROVE  Pushed(h, q) \in Seq(S) /\ Len(Pushed(h, q)) <= MaxHistory
<1> DEFINE n == Len(h)
<1>1. n \in Nat /\ MaxHistory \in Nat \ {0} /\ n <= MaxHistory
  BY GasConstantsOK
<1>2. CASE n < MaxHistory
  <2>1. Pushed(h, q) = Append(h, q)
    BY <1>2 DEF Pushed
  <2>2. Append(h, q) \in Seq(S) /\ Len(Append(h, q)) = n + 1
    OBVIOUS
  <2> HIDE DEF n
  <2> QED BY <1>1, <1>2, <2>1, <2>2
<1>3. CASE ~(n < MaxHistory)
  <2>1. Pushed(h, q) = Append(Tail(h), q)
    BY <1>3 DEF Pushed
  <2>2. h # <<>>
    BY <1>1, <1>3
  <2>3. Tail(h) \in Seq(S) /\ Len(Tail(h)) = n - 1
    BY <2>2, HeadTailProperties
  <2>4. Append(Tail(h), q) \in Seq(S) /\ Len(Append(Tail(h), q)) = (n - 1) + 1
    BY <2>3
  <2> HIDE DEF n
  <2> QED BY <1>1, <2>1, <2>4
<1> QED BY <1>2, <1>3

LEMMA UnknownFacts == Unknown \in Fees /\ 0 \in Delta
BY DEF Unknown, Fees, Delta

LEMMA BegunFacts ==
  ASSUME InfosOK, BudgetOK, NEW p \in Threads \cup {Master}, NEW c \in Serves(p), NEW n \in Delta,
         NEW o \in Fees
  PROVE  /\ Begun(p, c, n, o) \in Call /\ Begun(p, c, n, o).chain = c /\ Begun(p, c, n, o).at = p
         /\ Begun(p, c, n, o).retry = n /\ PriceOK(c, Begun(p, c, n, o).price) /\ TipOK(c, Begun(p, c, n, o).kept)
         /\ ~Begun(p, c, n, o).first /\ Begun(p, c, n, o).old = o
         /\ Begun(p, c, n, o).nr = IF p = Master THEN budget.fetches ELSE budget.retries
<1> DEFINE k == infos[p][c].maxPriorityFee
<1>1. p \in Processes /\ c \in Chains
  BY OwnFacts
<1>2. infos[p][c] \in Known(c)
  BY <1>1 DEF InfosOK
<1>3. TipOK(c, k)
  BY <1>2, KnownFacts
<1>4. k \in Nat \cup {Null}
  BY <1>1, <1>3, ConstantFacts DEF TipOK
<1> HIDE DEF k
<1>5. (IF p = Master THEN budget.fetches ELSE budget.retries) \in Nat
  BY DEF BudgetOK
<1>6. Begun(p, c, n, o) =
        [at |-> p, chain |-> c, nr |-> IF p = Master THEN budget.fetches ELSE budget.retries,
         first |-> FALSE, done |-> FALSE, price |-> Null, retry |-> n,
         old |-> o, kept |-> k]
  BY DEF Begun, k
<1> QED BY <1>1, <1>3, <1>4, <1>5, <1>6 DEF Call, PriceOK

LEMMA DataInit == Init => DataInv
<1> SUFFICES ASSUME Init PROVE DataInv
  OBVIOUS
<1>1. BudgetOK
  BY GasConstantsOK DEF Init, BudgetOK
<1>2. InfosOK
  BY NothingFacts DEF Init, InfosOK
<1>3. WireOK
  BY DEF Init, WireOK
<1>4. HistoryInv
  BY GasConstantsOK DEF Init, HistoryInv
<1>5. SentOK
  BY DEF Init, SentOK, InRange
<1>7. TriedOK
  BY DEF Init, TriedOK
<1>6. CallsOK
  <2> SUFFICES ASSUME NEW f \in calls
               PROVE  /\ f \in Call /\ f.chain \in Serves(f.at) /\ FromTried(f)
                      /\ PriceOK(f.chain, f.price) /\ TipOK(f.chain, f.kept)
    BY DEF CallsOK
  <2>1. PICK c \in Chains : f = [Begun(Master, c, 0, Unknown) EXCEPT !.first = TRUE]
    BY DEF Init
  <2> DEFINE g == Begun(Master, c, 0, Unknown)
  <2>2. Master \in Threads \cup {Master} /\ c \in Serves(Master)
    BY ConstantFacts
  <2>3. g \in Call /\ g.chain = c /\ g.at = Master /\ g.retry = 0 /\ PriceOK(c, g.price) /\ TipOK(c, g.kept)
    BY <1>1, <1>2, <2>2, BegunFacts, UnknownFacts
  <2> HIDE DEF g
  <2>4. f = [g EXCEPT !.first = TRUE]
    BY <2>1 DEF g
  <2>5. f \in Call /\ f.chain = c /\ f.at = Master /\ f.retry = 0 /\ f.price = g.price /\ f.kept = g.kept
    BY <2>3, <2>4 DEF Call
  <2> QED BY <2>2, <2>3, <2>5 DEF FromTried
<1> QED BY <1>1, <1>2, <1>3, <1>4, <1>5, <1>6, <1>7 DEF DataInv

LEMMA FailingFacts ==
  ASSUME BudgetOK, NEW n \in Nat, Failing(n)
  PROVE  BudgetOK' /\ budget'.fetches = budget.fetches /\ budget'.retries = budget.retries
BY DEF Failing, BudgetOK

LEMMA MissingFacts ==
  ASSUME NEW new
  PROVE  Cardinality({x \in Fields \ {"gasPrice"} : new[x] = Null}) \in Nat
<1> DEFINE S == {x \in Fields \ {"gasPrice"} : new[x] = Null}
<1>1. IsFiniteSet({"feeHistory"} \cup {"maxPriorityFee"})
  BY FS_Singleton, FS_AddElement
<1>2. S \in SUBSET ({"feeHistory"} \cup {"maxPriorityFee"})
  BY FieldsAre
<1> HIDE DEF S
<1>3. Cardinality(S) \in Nat
  BY <1>1, <1>2, FS_Subset, FS_CardinalityType
<1> QED BY <1>3 DEF S

LEMMA FetchData == ASSUME DataInv, NEW c \in Chains, Fetch(c) PROVE DataInv'
<1> USE DEF DataInv
<1>1. BudgetOK'
  BY DEF Fetch, BudgetOK
<1>2. InfosOK' /\ WireOK' /\ HistoryInv' /\ TriedOK' /\ SentOK' /\ tried' = tried
  BY DEF Fetch, InfosOK, WireOK, HistoryInv, TriedOK, SentOK
<1>3. CallsOK'
  <2> DEFINE g == Begun(Master, c, 0, Unknown)
  <2>1. Master \in Threads \cup {Master} /\ c \in Serves(Master)
    BY ConstantFacts
  <2>2. g \in Call /\ g.chain = c /\ g.at = Master /\ g.retry = 0 /\ PriceOK(c, g.price) /\ TipOK(c, g.kept)
    BY <2>1, BegunFacts, UnknownFacts
  <2>3. calls' \in SUBSET (calls \cup {g})
    BY DEF Fetch
  <2> HIDE DEF g
  <2> QED BY <1>2, <2>1, <2>2, <2>3 DEF CallsOK, FromTried
<1> QED BY <1>1, <1>2, <1>3

LEMMA QuotedData == ASSUME DataInv, NEW f \in calls, Quoted(f) PROVE DataInv'
<1> USE DEF DataInv
<1> DEFINE p == f.at
           c == f.chain
<1>1. f \in Call /\ c \in Serves(p) /\ FromTried(f) /\ PriceOK(c, f.price) /\ TipOK(c, f.kept)
  BY DEF CallsOK
<1>2. p \in Threads \cup {Master}
  BY <1>1 DEF Call
<1>3. p \in Processes /\ c \in Chains /\ Mode[Own(p)] \in ModesAt(c)
  BY <1>1, <1>2, OwnFacts
<1>4. InfosOK' /\ WireOK' /\ TriedOK' /\ SentOK' /\ tried' = tried
  BY DEF Quoted, InfosOK, WireOK, TriedOK, SentOK
<1>5. ASSUME NEW v, v = [f EXCEPT !.done = TRUE] \/ \E w \in Nat \cup {Null} : PriceOK(c, w) /\ v = [f EXCEPT !.done = TRUE, !.price = w]
      PROVE  /\ v \in Call /\ v.chain \in Serves(v.at) /\ FromTried(v)
             /\ PriceOK(v.chain, v.price) /\ TipOK(v.chain, v.kept)
  <2> HIDE DEF DataInv
  <2>1. CASE v = [f EXCEPT !.done = TRUE]
    <3>1. v \in Call /\ v.chain = f.chain /\ v.at = f.at /\ v.retry = f.retry /\ v.old = f.old /\ v.price = f.price /\ v.kept = f.kept
      BY <1>1, <2>1 DEF Call
    <3> QED BY <1>1, <3>1 DEF FromTried
  <2>2. CASE v # [f EXCEPT !.done = TRUE]
    <3>1. PICK w \in Nat \cup {Null} : PriceOK(c, w) /\ v = [f EXCEPT !.done = TRUE, !.price = w]
      BY <1>5, <2>2
    <3>2. v \in Call /\ v.chain = f.chain /\ v.at = f.at /\ v.retry = f.retry /\ v.old = f.old /\ v.price = w /\ v.kept = f.kept
      BY <1>1, <3>1 DEF Call
    <3> QED BY <1>1, <3>1, <3>2 DEF FromTried
  <2> QED BY <2>1, <2>2
<1>6. CASE \E q \in Quotes[c] :
             LET h == Pushed(history[p], q) IN
             /\ history' = [history EXCEPT ![p] = h]
             /\ calls' = (calls \ {f}) \cup {[f EXCEPT !.done = TRUE, !.price = Priced(h, q, Mode[Own(p)])]}
             /\ UNCHANGED budget
  <2> DEFINE h(q) == Pushed(history[p], q)
  <2>1. PICK q \in Quotes[c] :
             /\ history' = [history EXCEPT ![p] = h(q)]
             /\ calls' = (calls \ {f}) \cup {[f EXCEPT !.done = TRUE, !.price = Priced(h(q), q, Mode[Own(p)])]}
             /\ UNCHANGED budget
    BY <1>6
  <2>2. q \in AllQuotes
    BY <1>3, ConstantFacts
  <2>3. h(q) \in Seq(AllQuotes) /\ Len(h(q)) <= MaxHistory
    BY <1>3, <2>2, PushedFacts DEF HistoryInv
  <2> DEFINE k == h(q)
             w == Priced(k, q, Mode[Own(p)])
  <2>4. PriceOK(c, w) /\ w \in Nat \cup {Null}
    <3> HIDE DEF k
    <3>1. k \in Seq(AllQuotes)
      BY <2>3 DEF k
    <3>2. PriceOK(c, w)
      BY <1>3, <2>2, <3>1, PricedFacts
    <3> QED BY <3>2 DEF PriceOK
  <2>5. HistoryInv'
    <3> HIDE DEF h
    <3> QED BY <1>3, <2>1, <2>3 DEF HistoryInv
  <2>6. BudgetOK'
    BY <2>1 DEF BudgetOK
  <2>7. calls' = (calls \ {f}) \cup {[f EXCEPT !.done = TRUE, !.price = w]}
    BY <2>1
  <2>8. CallsOK'
    <3> HIDE DEF w, h, k, p, c
    <3>1. ASSUME NEW v, v = [f EXCEPT !.done = TRUE, !.price = w]
          PROVE  /\ v \in Call /\ v.chain \in Serves(v.at) /\ FromTried(v)
                 /\ PriceOK(v.chain, v.price) /\ TipOK(v.chain, v.kept)
      BY <1>5, <2>4, <3>1
    <3>2. \A g \in calls' : g \in calls \/ g = [f EXCEPT !.done = TRUE, !.price = w]
      BY <2>7
    <3> QED BY <1>4, <3>1, <3>2 DEF CallsOK, FromTried
  <2> QED BY <1>4, <2>5, <2>6, <2>8
<1>7. CASE calls' = (calls \ {f}) \cup {[f EXCEPT !.done = TRUE]} /\ Failing(1) /\ UNCHANGED history
  <2>1. HistoryInv'
    BY <1>7 DEF HistoryInv
  <2>2. BudgetOK'
    BY <1>7, FailingFacts
  <2>3. CallsOK'
    <3> HIDE DEF p, c
    <3>1. ASSUME NEW v, v = [f EXCEPT !.done = TRUE]
          PROVE  /\ v \in Call /\ v.chain \in Serves(v.at) /\ FromTried(v)
                 /\ PriceOK(v.chain, v.price) /\ TipOK(v.chain, v.kept)
      BY <1>5, <3>1
    <3>2. \A g \in calls' : g \in calls \/ g = [f EXCEPT !.done = TRUE]
      BY <1>7
    <3> QED BY <1>4, <3>1, <3>2 DEF CallsOK, FromTried
  <2> QED BY <1>4, <2>1, <2>2, <2>3
<1> QED BY <1>6, <1>7 DEF Quoted

LEMMA ToldFacts ==
  ASSUME WireOK, NEW c \in Chains, NEW i \in Known(c), wire' = ToAll(c, i)
  PROVE  /\ WireOK'
         /\ \A p \in Copies : \A d \in Serves(p) :
              wire'[p][d] = IF d = c THEN Append(wire[p][d], i) ELSE wire[p][d]
<1>1. /\ DOMAIN wire' = Copies
      /\ \A p \in Copies : /\ DOMAIN wire'[p] = Serves(p)
                           /\ \A d \in Serves(p) : wire'[p][d] = IF d = c THEN Append(wire[p][d], i) ELSE wire[p][d]
  BY DEF ToAll
<1>2. ASSUME NEW p \in Copies, NEW d \in Serves(p) PROVE wire'[p][d] \in Seq(Known(d))
  <2>1. wire[p][d] \in Seq(Known(d))
    BY DEF WireOK
  <2>2. CASE d = c
    <3>1. Append(wire[p][d], i) \in Seq(Known(d))
      BY <2>1, <2>2
    <3> QED BY <1>1, <2>2, <3>1
  <2>3. CASE d # c
    BY <1>1, <2>1, <2>3
  <2> QED BY <2>2, <2>3
<1> QED BY <1>1, <1>2 DEF WireOK

\* The answers of a fetch are what can be known of its chain.
LEMMA AnsweredFacts ==
  ASSUME DataInv, NEW f \in calls, NEW new \in Answered(f)
  PROVE  /\ f \in Call /\ f.at \in Threads \cup {Master} /\ f.at \in Processes /\ f.chain \in Serves(f.at)
         /\ f.chain \in Chains /\ new \in Known(f.chain) /\ TipOK(f.chain, f.kept)
         /\ FromTried(f) /\ f.retry \in Delta
<1>1. /\ f \in Call /\ f.chain \in Serves(f.at) /\ FromTried(f)
      /\ PriceOK(f.chain, f.price) /\ TipOK(f.chain, f.kept)
  BY DEF DataInv, CallsOK
<1>2. f.at \in Threads \cup {Master} /\ f.price \in Nat \cup {Null} /\ f.retry \in Delta
  BY <1>1 DEF Call
<1>3. f.at \in Processes /\ f.chain \in Chains /\ Mode[Own(f.at)] \in ModesAt(f.chain)
  BY <1>1, <1>2, OwnFacts
<1>4. new \in Known(f.chain)
  <2>1. Answered(f) \in SUBSET Known(f.chain)
    BY <1>1, <1>2, <1>3 DEF Answered, Known
  <2> QED BY <2>1
<1> QED BY <1>1, <1>2, <1>3, <1>4

LEMMA FinishData == ASSUME DataInv, NEW f \in calls, Finish(f) PROVE DataInv'
<1> DEFINE p == f.at
           c == f.chain
<1>1. PICK new \in Answered(f) :
       /\ Failing(Cardinality({x \in Fields \ {"gasPrice"} : new[x] = Null}))
       /\ infos' = Stored(p, c, new)
       /\ wire' = IF p = Master THEN ToAll(c, Announced(infos[Master][c], new)) ELSE wire
       /\ sent' = IF f.retry = 0 THEN sent
                  ELSE [sent EXCEPT ![p] = Kept(Bumped(Conditions(c, infos'[p][c], f.kept), f.retry), f.old)]
       /\ tried' = tried
  BY DEF Finish
<1>2. /\ f \in Call /\ p \in Threads \cup {Master} /\ p \in Processes /\ c \in Serves(p) /\ c \in Chains
      /\ new \in Known(c) /\ TipOK(c, f.kept) /\ FromTried(f) /\ f.retry \in Delta
  BY AnsweredFacts
<1> HIDE DEF p, c
<1>3. InfosOK /\ WireOK /\ HistoryInv /\ CallsOK /\ TriedOK /\ SentOK /\ BudgetOK
  BY DEF DataInv
<1>4. InfosOK'
  BY <1>1, <1>2, <1>3, StoredFacts
<1>5. WireOK'
  <2>1. CASE p = Master
    <3>1. infos[Master][c] \in Known(c)
      BY <1>2, <1>3, <2>1 DEF InfosOK
    <3>2. Announced(infos[Master][c], new) \in Known(c)
      BY <1>2, <3>1, MergedFacts DEF Announced
    <3> QED BY <1>1, <1>2, <1>3, <2>1, <3>2, ToldFacts
  <2>2. CASE p # Master
    <3>1. wire' = wire
      BY <1>1, <2>2
    <3> QED BY <1>3, <3>1 DEF WireOK
  <2> QED BY <2>1, <2>2
<1>6. SentOK'
  <2>1. CASE f.retry = 0
    <3>1. sent' = sent /\ tried' = tried
      BY <1>1, <2>1
    <3> QED BY <1>3, <3>1 DEF SentOK
  <2>2. CASE f.retry # 0
    <3> DEFINE i == infos'[p][c]
               x == Conditions(c, i, f.kept)
               v == Kept(Bumped(x, f.retry), f.old)
    <3>1. p \in Threads /\ c = p /\ f.old \in tried[p] /\ OldOK(c, f.old)
      BY <1>2, <1>3, <2>2 DEF Serves, FromTried, TriedOK, p
    <3>2. i \in Known(c)
      BY <1>2, <1>4 DEF InfosOK
    <3>3. InRange(AllQuotes, c, v, MostRaise, {y.tip : y \in tried[p]})
      <4> HIDE DEF i
      <4>1. InfoOK(c, i)
        BY <3>2, KnownFacts
      <4>2. FeesOK(x) /\ InRange(AllQuotes, c, x, 0, {})
        BY <1>2, <4>1, ConditionsFacts
      <4>3. f.retry \in Raises /\ f.retry <= MostRaise
        BY <1>2, <2>2, PercentFacts DEF Delta
      <4> HIDE DEF x
      <4> QED BY <1>2, <3>1, <4>2, <4>3, RaisedAndKept
    <3>4. sent' = [sent EXCEPT ![p] = v] /\ tried' = tried
      BY <1>1, <2>2
    <3> HIDE DEF v
    <3> QED BY <1>3, <3>1, <3>3, <3>4 DEF SentOK
  <2> QED BY <2>1, <2>2
<1>7. HistoryInv'
  BY <1>3 DEF Finish, HistoryInv
<1>8. CallsOK'
  <2>1. calls' = calls \ {f}
    BY DEF Finish
  <2> QED BY <1>1, <1>3, <2>1 DEF CallsOK, FromTried
<1>9. BudgetOK'
  BY <1>1, <1>3, MissingFacts, FailingFacts
<1>10. TriedOK'
  BY <1>1, <1>3 DEF TriedOK
<1> QED BY <1>4, <1>5, <1>6, <1>7, <1>8, <1>9, <1>10 DEF DataInv

LEMMA SyncData == ASSUME DataInv, NEW p \in Copies, NEW c \in Serves(p), Sync(p, c) PROVE DataInv'
<1> DEFINE told == wire[p][c]
<1>1. InfosOK /\ WireOK /\ HistoryInv /\ CallsOK /\ TriedOK /\ SentOK /\ BudgetOK
  BY DEF DataInv
<1>2. told \in Seq(Known(c)) /\ told # <<>> /\ p \in Processes
  BY <1>1 DEF WireOK, Sync, Processes
<1>3. Head(told) \in Known(c) /\ Tail(told) \in Seq(Known(c))
  BY <1>2, HeadTailProperties
<1>4. infos' = Stored(p, c, Head(told))
  BY DEF Sync
<1>5. wire' = [wire EXCEPT ![p][c] = Tail(told)]
  BY DEF Sync
<1> HIDE DEF told
<1>6. InfosOK'
  <2> DEFINE i == Head(told)
  <2>1. i \in Known(c) /\ infos' = Stored(p, c, i)
    BY <1>3, <1>4
  <2> HIDE DEF i
  <2> QED BY <1>1, <1>2, <2>1, StoredFacts
<1>7. WireOK'
  <2> DEFINE t == Tail(told)
  <2>1. t \in Seq(Known(c)) /\ wire' = [wire EXCEPT ![p][c] = t]
    BY <1>3, <1>5
  <2> HIDE DEF t
  <2> QED BY <1>1, <2>1 DEF WireOK
<1>8. HistoryInv' /\ CallsOK' /\ TriedOK' /\ SentOK' /\ BudgetOK'
  BY <1>1 DEF Sync, HistoryInv, CallsOK, FromTried, TriedOK, SentOK, BudgetOK
<1> QED BY <1>6, <1>7, <1>8 DEF DataInv

\* What a process knows of a chain makes fees in range.
LEMMA CurrentFacts ==
  ASSUME InfosOK, NEW p \in Processes, NEW c \in Serves(p)
  PROVE  FeesOK(Current(p, c)) /\ InRange(AllQuotes, c, Current(p, c), 0, {})
<1> DEFINE i == infos[p][c]
<1>1. i \in Known(c) /\ c \in Chains
  BY ConstantFacts DEF InfosOK
<1> HIDE DEF i
<1>2. InfoOK(c, i) /\ TipOK(c, i.maxPriorityFee)
  BY <1>1, KnownFacts
<1>3. FeesOK(Conditions(c, i, i.maxPriorityFee)) /\ InRange(AllQuotes, c, Conditions(c, i, i.maxPriorityFee), 0, {})
  BY <1>1, <1>2, ConditionsFacts
<1> QED BY <1>3 DEF Current, i

LEMMA PaidInRange ==
  ASSUME DataInv, NEW p \in Threads, NEW n \in Raises, n <= MostRaise, NEW old \in tried[p],
         sent' = [sent EXCEPT ![p] = Kept(Bumped(Current(p, p), n), old)], tried' = tried
  PROVE  SentOK'
<1> DEFINE x == Current(p, p)
           v == Kept(Bumped(x, n), old)
<1>1. p \in Chains /\ p \in Processes /\ p \in Serves(p)
  BY GasConstantsOK DEF Processes, Copies, Serves
<1>2. FeesOK(x) /\ InRange(AllQuotes, p, x, 0, {})
  BY <1>1, CurrentFacts DEF DataInv
<1>3. InRange(AllQuotes, p, v, MostRaise, {y.tip : y \in tried[p]})
  <2> HIDE DEF x
  <2>1. OldOK(p, old)
    BY DEF DataInv, TriedOK
  <2> QED BY <1>1, <1>2, <2>1, RaisedAndKept
<1> HIDE DEF v
<1>4. sent' = [sent EXCEPT ![p] = v]
  BY DEF v
<1> QED BY <1>3, <1>4 DEF DataInv, SentOK

LEMMA RetryData ==
  ASSUME DataInv, NEW p \in Threads, NEW n \in Percents, NEW old \in tried[p],
         RetryKnown(p, n, old) \/ RetryFetched(p, n, old)
  PROVE  DataInv'
<1>1. InfosOK /\ WireOK /\ HistoryInv /\ CallsOK /\ TriedOK /\ SentOK /\ BudgetOK
  BY DEF DataInv
<1>2. InfosOK' /\ WireOK' /\ HistoryInv' /\ TriedOK' /\ BudgetOK' /\ tried' = tried
  BY <1>1 DEF RetryKnown, RetryFetched, Retrying, InfosOK, WireOK, HistoryInv, TriedOK, BudgetOK
<1>3. p \in Threads \cup {Master} /\ p \in Serves(p)
  BY DEF Serves
<1>4. /\ n \in Raises /\ n + 50 \in Raises /\ n <= MostRaise /\ n + 50 <= MostRaise
      /\ n + 50 \in Delta
  BY PercentFacts DEF Delta, Raises
<1>5. SentOK'
  <2>1. CASE sent' = sent
    BY <1>1, <1>2, <2>1 DEF SentOK
  <2>2. CASE sent' = [sent EXCEPT ![p] = Kept(Bumped(Current(p, p), n), old)]
    BY <1>2, <1>4, <2>2, PaidInRange
  <2>3. CASE sent' = [sent EXCEPT ![p] = Kept(Bumped(Current(p, p), n + 50), old)]
    BY <1>2, <1>4, <2>3, PaidInRange
  <2> QED BY <2>1, <2>2, <2>3 DEF RetryKnown, RetryFetched
<1>6. CallsOK'
  <2> DEFINE g == Begun(p, p, n + 50, old)
  <2>1. /\ g \in Call /\ g.chain = p /\ g.at = p /\ g.retry = n + 50 /\ g.old = old
        /\ PriceOK(p, g.price) /\ TipOK(p, g.kept)
    BY <1>1, <1>3, <1>4, BegunFacts DEF TriedOK
  <2>2. calls' \in SUBSET (calls \cup {g})
    BY DEF RetryKnown, RetryFetched
  <2> HIDE DEF g
  <2>3. /\ g.chain \in Serves(g.at) /\ FromTried(g)
        /\ PriceOK(g.chain, g.price) /\ TipOK(g.chain, g.kept)
    BY <1>3, <2>1 DEF FromTried
  <2> QED BY <1>1, <1>2, <2>1, <2>2, <2>3 DEF CallsOK, FromTried
<1> QED BY <1>2, <1>5, <1>6 DEF DataInv

\* A first execution adds fees that are in range to those that can be kept.
LEMMA ExecuteData == ASSUME DataInv, NEW p \in Threads, Execute(p) PROVE DataInv'
<1> DEFINE x == Current(p, p)
<1>1. InfosOK /\ WireOK /\ HistoryInv /\ CallsOK /\ TriedOK /\ SentOK /\ BudgetOK
  BY DEF DataInv
<1>2. InfosOK' /\ WireOK' /\ HistoryInv' /\ BudgetOK'
  BY <1>1 DEF Execute, InfosOK, WireOK, HistoryInv, BudgetOK
<1>3. x # Unknown /\ tried' = [tried EXCEPT ![p] = @ \cup {x}] /\ sent' = sent /\ calls' = calls
  BY DEF Execute
<1>4. x \in Fees /\ OldOK(p, x)
  <2>1. p \in Processes /\ p \in Serves(p)
    BY DEF Processes, Copies, Serves
  <2>2. FeesOK(x) /\ InRange(AllQuotes, p, x, 0, {})
    BY <1>1, <2>1, CurrentFacts
  <2>3. x = [base |-> x.base, tip |-> x.tip, max |-> x.max]
    BY DEF Current, Conditions, Unknown, Market, Legacy
  <2> HIDE DEF x
  <2> QED BY <1>3, <2>2, <2>3 DEF OldOK, FeesOK, Fees
<1> HIDE DEF x
<1>5. \A q \in Threads : tried[q] \subseteq tried'[q] /\ \A y \in tried'[q] : y \in tried[q] \/ (q = p /\ y = x)
  BY <1>1, <1>3 DEF TriedOK
<1>6. TriedOK'
  BY <1>1, <1>3, <1>4, <1>5 DEF TriedOK
<1>7. CallsOK'
  BY <1>1, <1>3, <1>5 DEF CallsOK, FromTried
<1>8. SentOK'
  <2> SUFFICES ASSUME NEW q \in Threads
               PROVE  InRange(AllQuotes, q, sent[q], MostRaise, {y.tip : y \in tried'[q]})
    BY <1>1, <1>3 DEF SentOK
  <2>1. InRange(AllQuotes, q, sent[q], MostRaise, {y.tip : y \in tried[q]})
    BY <1>1 DEF SentOK
  <2>2. {y.tip : y \in tried[q]} \subseteq {y.tip : y \in tried'[q]}
    BY <1>5
  <2> QED BY <2>1, <2>2, BeforeGrows
<1> QED BY <1>2, <1>6, <1>7, <1>8 DEF DataInv

LEMMA RestartData == ASSUME DataInv, NEW p \in Copies, Restart(p) PROVE DataInv'
<1>1. InfosOK /\ WireOK /\ HistoryInv /\ CallsOK /\ TriedOK /\ SentOK /\ BudgetOK
  BY DEF DataInv
<1>2. BudgetOK'
  BY <1>1 DEF Restart, BudgetOK
<1>3. InfosOK'
  <2>1. infos' = [infos EXCEPT ![p] = [c \in Serves(p) |-> Nothing]]
    BY DEF Restart
  <2> QED BY <1>1, <2>1, NothingFacts DEF InfosOK
<1>4. WireOK'
  <2>1. wire' = [wire EXCEPT ![p] = [c \in Serves(p) |-> <<>>]]
    BY DEF Restart
  <2> QED BY <1>1, <2>1 DEF WireOK
<1>5. HistoryInv'
  <2>1. history' = [history EXCEPT ![p] = <<>>]
    BY DEF Restart
  <2>2. <<>> \in Seq(AllQuotes) /\ Len(<<>>) <= MaxHistory
    BY GasConstantsOK
  <2> QED BY <1>1, <2>1, <2>2 DEF HistoryInv
<1>6. /\ DOMAIN tried' = Threads
      /\ \A q \in Threads : tried'[q] = IF q = p THEN {} ELSE tried[q]
  <2>1. tried' = IF p \in Threads THEN [tried EXCEPT ![p] = {}] ELSE tried
    BY DEF Restart
  <2> QED BY <1>1, <2>1 DEF TriedOK
<1>7. CallsOK'
  <2>1. calls' = {f \in calls : f.at # p}
    BY DEF Restart
  <2>2. \A f \in calls' : FromTried(f)'
    BY <1>1, <1>6, <2>1 DEF CallsOK, FromTried
  <2> QED BY <1>1, <2>1, <2>2 DEF CallsOK
<1>8. TriedOK'
  BY <1>1, <1>6 DEF TriedOK
<1>9. SentOK'
  <2>1. sent' = IF p \in Threads THEN [sent EXCEPT ![p] = Unknown] ELSE sent
    BY DEF Restart
  <2>2. \A q \in Threads : sent'[q] = IF q = p THEN Unknown ELSE sent[q]
    BY <1>1, <2>1 DEF SentOK
  <2>3. DOMAIN sent' = Threads
    BY <1>1, <2>1 DEF SentOK
  <2>4. ASSUME NEW q \in Threads PROVE InRange(AllQuotes, q, sent'[q], MostRaise, {x.tip : x \in tried'[q]})
    <3>1. CASE q = p
      BY <2>2, <3>1 DEF InRange
    <3>2. CASE q # p
      BY <1>1, <1>6, <2>2, <3>2 DEF SentOK
    <3> QED BY <3>1, <3>2
  <2> QED BY <2>3, <2>4 DEF SentOK
<1> QED BY <1>2, <1>3, <1>4, <1>5, <1>7, <1>8, <1>9 DEF DataInv

LEMMA DataStep == ASSUME DataInv, [Next]_vars PROVE DataInv'
<1>1. CASE \E c \in Chains : Fetch(c)
  BY <1>1, FetchData
<1>2. CASE \E f \in calls : Quoted(f) \/ Finish(f)
  BY <1>2, QuotedData, FinishData
<1>3. CASE \E p \in Copies : Restart(p) \/ \E c \in Serves(p) : Sync(p, c)
  BY <1>3, RestartData, SyncData
<1>4. CASE \E p \in Threads : \/ Execute(p)
                            \/ \E n \in Percents, old \in tried[p] : RetryKnown(p, n, old) \/ RetryFetched(p, n, old)
  BY <1>4, ExecuteData, RetryData
<1>5. CASE UNCHANGED vars
  BY <1>5 DEF vars, DataInv, InfosOK, WireOK, HistoryInv, CallsOK, FromTried, TriedOK, SentOK, BudgetOK
<1> QED BY <1>1, <1>2, <1>3, <1>4, <1>5 DEF Next

\* For every number of chains, any modes and minimums, and all prices, tips and histories
\* the providers answer: the fees of a quote and of a transaction stay between what was
\* answered, but for the raises of the mode and of a retry, and pay the base fee and
\* the tip, or the base fee where a retry keeps the tip of the first execution
\* (getGasPrice, getCurrentGasConditions, adjustNonceAndGasByError).
THEOREM FeesTheorem == Spec => []FeesInRange
<1>1. DataInv => FeesInRange
  <2> SUFFICES ASSUME DataInv PROVE FeesInRange
    OBVIOUS
  <2>1. InfosOK /\ SentOK
    BY DEF DataInv
  <2>2. \A p \in Processes : \A c \in Serves(p) : InRange(AllQuotes, c, Current(p, c), 0, {})
    BY <2>1, CurrentFacts
  <2>3. \A c \in Chains : InRange(AllQuotes, c, ForQuote(c), 0, {})
    <3>1. \A c \in Chains : InRange(AllQuotes, c, Current(Api, c), 0, {})
      BY <2>2, ConstantFacts DEF Processes, Copies
    <3>2. \A c \in Chains : InRange(AllQuotes, c, Unknown, 0, {})
      BY DEF InRange
    <3> QED BY <3>1, <3>2 DEF ForQuote
  <2> QED BY <2>1, <2>2, <2>3 DEF FeesInRange, AllQuotes, SentOK, Processes
<1> QED BY <1>1, DataInit, DataStep, PTL DEF Spec

-----------------------------------------------------------------------------
(* What is known stays known, and copies keep up *)

\* The API knows nothing of a chain, and is about to hear nothing, that the master does not
\* know: only fetches of the master tell it.
ApiInv ==
  \A c \in Chains : \A x \in Fields :
    infos[Master][c][x] = Null =>
      /\ infos[Api][c][x] = Null
      /\ \A k \in 1..Len(wire[Api][c]) : wire[Api][c][k][x] = Null

KeepInv == CopyKnows /\ ApiInv

LEMMA KeepInit == Init => KeepInv
<1> SUFFICES ASSUME Init PROVE KeepInv
  OBVIOUS
<1>1. \A p \in Processes : \A c \in Serves(p) : infos[p][c] = Nothing
  BY DEF Init
<1>2. \A p \in Copies : \A c \in Serves(p) : wire[p][c] = <<>>
  BY DEF Init
<1>3. \A p \in Copies : \A c \in Serves(p) : c \in Serves(Master) /\ p \in Processes /\ Master \in Processes
  BY ConstantFacts DEF Processes
<1>4. CopyKnows
  BY <1>1, <1>2, <1>3 DEF CopyKnows
<1>5. ApiInv
  <2>1. \A c \in Chains : infos[Api][c] = Nothing /\ wire[Api][c] = <<>>
    BY <1>1, <1>2, ConstantFacts DEF Processes, Copies
  <2>2. \A x \in Fields : Nothing[x] = Null
    BY NothingFacts
  <2> QED BY <2>1, <2>2 DEF ApiInv
<1> QED BY <1>4, <1>5 DEF KeepInv

\* The master's fetch: it tells all copies of the chain what it then knows.
LEMMA MasterKeeps ==
  ASSUME DataInv, KeepInv, NEW f \in calls, Finish(f), f.at = Master
  PROVE  KeepInv'
<1> DEFINE c == f.chain
           old == infos[Master][c]
           now == infos'[Master][c]
<1>1. PICK new \in Answered(f) :
       /\ infos' = Stored(Master, c, new)
       /\ wire' = ToAll(c, Announced(old, new))
  BY DEF Finish
<1>2. c \in Chains /\ c \in Serves(Master) /\ Master \in Processes /\ new \in Known(c)
  BY AnsweredFacts
<1>3. InfosOK /\ WireOK /\ CopyKnows /\ ApiInv
  BY DEF DataInv, KeepInv
<1>4. old \in Known(c)
  BY <1>2, <1>3 DEF InfosOK
<1> HIDE DEF c, old, now
<1>5. /\ now = Merged(old, new)
      /\ \A q \in Processes : \A d \in Serves(q) : q # Master \/ d # c => infos'[q][d] = infos[q][d]
  BY <1>1, <1>2, <1>3, StoredFacts DEF old, now
<1>6. now \in Known(c) /\ \A x \in Fields : now[x] = Null => old[x] = Null
  BY <1>2, <1>4, <1>5, MergedFacts
<1>7. \A p \in Copies : \A d \in Serves(p) :
        wire'[p][d] = IF d = c THEN Append(wire[p][d], now) ELSE wire[p][d]
  BY <1>1, <1>2, <1>3, <1>5, <1>6, ToldFacts DEF Announced
<1>8. astray' = astray
  BY DEF Finish
<1>9. \A p \in Copies : p # Master /\ p \in Processes
  BY ConstantFacts DEF Processes
<1>10. CopyKnows'
  <2> SUFFICES ASSUME NEW p \in Copies, NEW d \in Serves(p)
               PROVE  IF wire'[p][d] # <<>> THEN wire'[p][d][Len(wire'[p][d])] = infos'[Master][d]
                      ELSE <<p, d>> \in astray' \/ \A x \in Fields : \/ infos'[p][d][x] = infos'[Master][d][x]
                                                                    \/ (infos'[Master][d][x] = Null /\ p \in Threads)
    BY DEF CopyKnows
  <2>1. CASE d = c
    <3> DEFINE s == wire[p][d]
    <3>1. s \in Seq(Known(c))
      BY <1>3, <2>1 DEF WireOK
    <3>2. wire'[p][d] = Append(s, now)
      BY <1>7, <2>1
    <3> HIDE DEF s
    <3>3. Append(s, now) # <<>> /\ Append(s, now)[Len(Append(s, now))] = now
      BY <1>6, <3>1
    <3> QED BY <2>1, <3>2, <3>3 DEF now
  <2>2. CASE d # c
    <3>1. wire'[p][d] = wire[p][d] /\ infos'[p][d] = infos[p][d]
      BY <1>5, <1>7, <1>9, <2>2
    <3>2. d \in Serves(Master)
      BY ConstantFacts
    <3>3. infos'[Master][d] = infos[Master][d]
      BY <1>2, <1>5, <2>2, <3>2
    <3> QED BY <1>3, <1>8, <3>1, <3>3 DEF CopyKnows
  <2> QED BY <2>1, <2>2
<1>11. ApiInv'
  <2> SUFFICES ASSUME NEW d \in Chains, NEW x \in Fields, infos'[Master][d][x] = Null
               PROVE  infos'[Api][d][x] = Null /\ \A k \in 1..Len(wire'[Api][d]) : wire'[Api][d][k][x] = Null
    BY DEF ApiInv
  <2>1. Api \in Copies /\ d \in Serves(Api) /\ d \in Serves(Master) /\ Api \in Processes /\ Api # Master
    BY <1>9, ConstantFacts DEF Copies
  <2>2. infos'[Api][d] = infos[Api][d]
    BY <1>5, <2>1
  <2>3. infos[Master][d][x] = Null
    <3>1. CASE d = c
      BY <1>6, <3>1 DEF old, now
    <3>2. CASE d # c
      BY <1>2, <1>5, <2>1, <3>2
    <3> QED BY <3>1, <3>2
  <2>4. infos[Api][d][x] = Null /\ \A k \in 1..Len(wire[Api][d]) : wire[Api][d][k][x] = Null
    BY <1>3, <2>3 DEF ApiInv
  <2>5. CASE d = c
    <3> DEFINE s == wire[Api][d]
    <3>1. s \in Seq(Known(c)) /\ wire'[Api][d] = Append(s, now)
      BY <1>3, <1>7, <2>1, <2>5 DEF WireOK
    <3>2. now[x] = Null
      BY <2>5 DEF now
    <3>3. \A k \in 1..Len(s) : s[k][x] = Null
      BY <2>4
    <3> HIDE DEF s
    <3>4. ASSUME NEW k \in 1..Len(Append(s, now)) PROVE Append(s, now)[k][x] = Null
      <4>1. Append(s, now)[k] = IF k \in 1..Len(s) THEN s[k] ELSE now
        BY <1>6, <3>1
      <4> QED BY <3>2, <3>3, <4>1
    <3> QED BY <2>2, <2>4, <3>1, <3>4
  <2>6. CASE d # c
    BY <1>7, <2>1, <2>2, <2>4, <2>6
  <2> QED BY <2>5, <2>6
<1> QED BY <1>10, <1>11 DEF KeepInv

\* A thread's own fetch: it may know other than the master until the next message.
LEMMA ThreadKeeps ==
  ASSUME DataInv, KeepInv, NEW f \in calls, Finish(f), f.at # Master
  PROVE  KeepInv'
<1> DEFINE p == f.at
           c == f.chain
<1>1. PICK new \in Answered(f) : infos' = Stored(p, c, new) /\ wire' = wire
  BY DEF Finish
<1>2. c \in Chains /\ c \in Serves(p) /\ p \in Processes /\ new \in Known(c) /\ p \in Threads
  BY AnsweredFacts
<1>3. InfosOK /\ WireOK /\ CopyKnows /\ ApiInv
  BY DEF DataInv, KeepInv
<1>4. p # Master /\ p # Api /\ Master \in Processes /\ Api \in Processes
  BY <1>2, ConstantFacts DEF Processes, Copies
<1>5. astray' = astray \cup {<<p, c>>}
  BY <1>4 DEF Finish
<1> HIDE DEF p, c
<1>6. \A q \in Processes : \A d \in Serves(q) : q # p \/ d # c => infos'[q][d] = infos[q][d]
  BY <1>1, <1>2, <1>3, StoredFacts
<1>7. \A d \in Chains : infos'[Master][d] = infos[Master][d] /\ infos'[Api][d] = infos[Api][d]
  BY <1>4, <1>6, ConstantFacts
<1>8. ApiInv'
  BY <1>1, <1>3, <1>7 DEF ApiInv
<1>9. CopyKnows'
  <2> SUFFICES ASSUME NEW q \in Copies, NEW d \in Serves(q)
               PROVE  IF wire'[q][d] # <<>> THEN wire'[q][d][Len(wire'[q][d])] = infos'[Master][d]
                      ELSE <<q, d>> \in astray' \/ \A x \in Fields : \/ infos'[q][d][x] = infos'[Master][d][x]
                                                                    \/ (infos'[Master][d][x] = Null /\ q \in Threads)
    BY DEF CopyKnows
  <2>1. q \in Processes /\ d \in Chains
    BY ConstantFacts DEF Processes
  <2>2. CASE q = p /\ d = c
    BY <1>1, <1>3, <1>5, <1>7, <2>1, <2>2 DEF CopyKnows
  <2>3. CASE q # p \/ d # c
    BY <1>1, <1>3, <1>5, <1>6, <1>7, <2>1, <2>3 DEF CopyKnows
  <2> QED BY <2>2, <2>3
<1> QED BY <1>8, <1>9 DEF KeepInv

\* A message that is read leaves a copy with what the master said last.
LEMMA SyncKeeps ==
  ASSUME DataInv, KeepInv, NEW p \in Copies, NEW c \in Serves(p), Sync(p, c)
  PROVE  KeepInv'
<1> DEFINE told == wire[p][c]
           i == Head(told)
           t == Tail(told)
<1>1. InfosOK /\ WireOK /\ CopyKnows /\ ApiInv
  BY DEF DataInv, KeepInv
<1>2. /\ told \in Seq(Known(c)) /\ told # <<>> /\ p \in Processes /\ c \in Chains
      /\ Master \in Processes /\ p # Master
  BY <1>1, ConstantFacts DEF WireOK, Sync, Processes
<1>3. /\ i \in Known(c) /\ t \in Seq(Known(c)) /\ Len(t) = Len(told) - 1
      /\ \A k \in 1..Len(t) : t[k] = told[k + 1]
      /\ i = told[1] /\ Len(told) \in Nat \ {0}
  <2> HIDE DEF told
  <2>1. /\ i \in Known(c) /\ t \in Seq(Known(c)) /\ Len(t) = Len(told) - 1
        /\ \A k \in 1..Len(t) : t[k] = told[k + 1]
    BY <1>2, HeadTailProperties
  <2>2. i = told[1] /\ Len(told) \in Nat \ {0}
    BY <1>2
  <2> QED BY <2>1, <2>2
<1>4. infos' = Stored(p, c, i) /\ wire' = [wire EXCEPT ![p][c] = t] /\ astray' = astray \ {<<p, c>>}
  BY DEF Sync
<1>5. told[Len(told)] = infos[Master][c]
  BY <1>1, <1>2 DEF CopyKnows
<1> HIDE DEF told, i, t
<1>6. /\ infos'[p][c] = Merged(infos[p][c], i)
      /\ \A q \in Processes : \A d \in Serves(q) : q # p \/ d # c => infos'[q][d] = infos[q][d]
  BY <1>1, <1>2, <1>3, <1>4, StoredFacts
<1>7. \A x \in Fields : infos'[p][c][x] = IF i[x] # Null THEN i[x] ELSE infos[p][c][x]
  <2>1. infos[p][c] \in Known(c)
    BY <1>1, <1>2 DEF InfosOK
  <2> QED BY <1>3, <1>6, <2>1, MergedFacts
<1>8. \A q \in Copies : \A d \in Serves(q) : wire'[q][d] = IF q = p /\ d = c THEN t ELSE wire[q][d]
  BY <1>1, <1>4 DEF WireOK
<1>9. \A d \in Chains : d \in Serves(Master) /\ infos'[Master][d] = infos[Master][d]
  BY <1>2, <1>6, ConstantFacts
<1>10. CopyKnows'
  <2> SUFFICES ASSUME NEW q \in Copies, NEW d \in Serves(q)
               PROVE  IF wire'[q][d] # <<>> THEN wire'[q][d][Len(wire'[q][d])] = infos'[Master][d]
                      ELSE <<q, d>> \in astray' \/ \A x \in Fields : \/ infos'[q][d][x] = infos'[Master][d][x]
                                                                    \/ (infos'[Master][d][x] = Null /\ q \in Threads)
    BY DEF CopyKnows
  <2>1. q \in Processes /\ d \in Chains
    BY ConstantFacts DEF Processes
  <2>2. CASE q # p \/ d # c
    BY <1>1, <1>4, <1>6, <1>8, <1>9, <2>1, <2>2 DEF CopyKnows
  <2>3. CASE q = p /\ d = c /\ t # <<>>
    <3> DEFINE n == Len(t)
    <3>1. n \in Nat /\ n # 0 /\ n = Len(told) - 1
      BY <1>3, <2>3
    <3>2. t[n] = told[n + 1] /\ n + 1 = Len(told)
      <4> DEFINE m == Len(told)
      <4>1. m \in Nat /\ n = m - 1
        BY <1>3, <3>1
      <4>2. n \in 1..n /\ \A k \in 1..n : t[k] = told[k + 1]
        BY <1>3, <3>1
      <4> HIDE DEF n, m
      <4>3. n + 1 = m
        BY <3>1, <4>1
      <4> QED BY <4>2, <4>3 DEF m
    <3>3. wire'[q][d] = t /\ t[Len(t)] = infos'[Master][d]
      BY <1>2, <1>5, <1>8, <1>9, <2>3, <3>2
    <3> QED BY <2>3, <3>3
  <2>4. CASE q = p /\ d = c /\ t = <<>>
    <3>1. told[1] = told[Len(told)]
      <4> DEFINE m == Len(told)
      <4>1. m \in Nat /\ 0 = m - 1
        BY <1>3, <2>4
      <4> HIDE DEF m
      <4>2. m = 1
        BY <4>1
      <4> QED BY <4>2 DEF m
    <3>2. i = infos[Master][c]
      BY <1>3, <1>5, <3>1
    <3>3. wire'[q][d] = <<>>
      BY <1>8, <2>4
    <3>4. ASSUME NEW x \in Fields PROVE \/ infos'[q][d][x] = infos'[Master][d][x]
                                       \/ (infos'[Master][d][x] = Null /\ q \in Threads)
      <4>1. CASE i[x] # Null
        BY <1>2, <1>7, <1>9, <2>4, <3>2, <4>1
      <4>2. CASE i[x] = Null
        <5>1. infos'[p][c][x] = infos[p][c][x] /\ infos'[Master][c][x] = Null
          BY <1>2, <1>7, <1>9, <3>2, <4>2
        <5>2. p = Api => infos[Api][c][x] = Null
          BY <1>1, <1>2, <3>2, <4>2 DEF ApiInv
        <5> QED BY <2>4, <5>1, <5>2 DEF Copies
      <4> QED BY <4>1, <4>2
    <3> QED BY <3>3, <3>4
  <2> QED BY <2>2, <2>3, <2>4
<1>11. ApiInv'
  <2> SUFFICES ASSUME NEW d \in Chains, NEW x \in Fields, infos'[Master][d][x] = Null
               PROVE  infos'[Api][d][x] = Null /\ \A k \in 1..Len(wire'[Api][d]) : wire'[Api][d][k][x] = Null
    BY DEF ApiInv
  <2>1. Api \in Copies /\ Api \in Processes /\ d \in Serves(Api)
    BY ConstantFacts DEF Copies, Processes
  <2>2. infos[Api][d][x] = Null /\ \A k \in 1..Len(wire[Api][d]) : wire[Api][d][k][x] = Null
    BY <1>1, <1>9 DEF ApiInv
  <2>3. CASE p # Api \/ d # c
    BY <1>6, <1>8, <2>1, <2>2, <2>3
  <2>4. CASE p = Api /\ d = c
    <3>1. \A k \in 1..Len(told) : told[k][x] = Null
      BY <2>2, <2>4 DEF told
    <3> DEFINE m == Len(told)
               n == Len(t)
    <3>2. m \in Nat \ {0} /\ n = m - 1 /\ \A k \in 1..m : told[k][x] = Null
      BY <1>3, <3>1
    <3>3. \A k \in 1..n : t[k] = told[k + 1]
      BY <1>3
    <3>4. wire'[Api][d] = t
      BY <1>8, <2>1, <2>4
    <3> HIDE DEF m, n
    <3>5. i[x] = Null /\ \A k \in 1..n : t[k][x] = Null
      <4>1. 1 \in 1..m /\ \A k \in 1..n : k + 1 \in 1..m
        BY <3>2
      <4> QED BY <1>3, <3>2, <3>3, <4>1
    <3> QED BY <1>7, <2>2, <2>4, <3>4, <3>5 DEF n
  <2> QED BY <2>3, <2>4
<1> QED BY <1>10, <1>11 DEF KeepInv

LEMMA RestartKeeps ==
  ASSUME DataInv, KeepInv, NEW p \in Copies, Restart(p)
  PROVE  KeepInv'
<1>1. InfosOK /\ WireOK /\ CopyKnows /\ ApiInv
  BY DEF DataInv, KeepInv
<1>2. p \in Processes /\ p # Master /\ Master \in Processes /\ Api \in Processes /\ Api \in Copies
  BY ConstantFacts DEF Processes, Copies
<1>3. \A q \in Processes : \A c \in Serves(q) : infos'[q][c] = IF q = p THEN Nothing ELSE infos[q][c]
  <2>1. infos' = [infos EXCEPT ![p] = [c \in Serves(p) |-> Nothing]]
    BY DEF Restart
  <2> QED BY <1>1, <2>1 DEF InfosOK
<1>4. \A q \in Copies : \A c \in Serves(q) : wire'[q][c] = IF q = p THEN <<>> ELSE wire[q][c]
  <2>1. wire' = [wire EXCEPT ![p] = [c \in Serves(p) |-> <<>>]]
    BY DEF Restart
  <2> QED BY <1>1, <2>1 DEF WireOK
<1>5. astray' = astray \cup {<<p, c>> : c \in Serves(p)}
  BY DEF Restart
<1>6. \A c \in Chains : c \in Serves(Master) /\ c \in Serves(Api) /\ infos'[Master][c] = infos[Master][c]
  BY <1>2, <1>3, ConstantFacts
<1>7. CopyKnows'
  <2> SUFFICES ASSUME NEW q \in Copies, NEW d \in Serves(q)
               PROVE  IF wire'[q][d] # <<>> THEN wire'[q][d][Len(wire'[q][d])] = infos'[Master][d]
                      ELSE <<q, d>> \in astray' \/ \A x \in Fields : \/ infos'[q][d][x] = infos'[Master][d][x]
                                                                    \/ (infos'[Master][d][x] = Null /\ q \in Threads)
    BY DEF CopyKnows
  <2>1. q \in Processes /\ d \in Chains
    BY ConstantFacts DEF Processes
  <2>2. CASE q = p
    BY <1>4, <1>5, <2>2
  <2>3. CASE q # p
    BY <1>1, <1>3, <1>4, <1>5, <1>6, <2>1, <2>3 DEF CopyKnows
  <2> QED BY <2>2, <2>3
<1>8. ApiInv'
  <2>1. \A x \in Fields : Nothing[x] = Null
    BY NothingFacts
  <2> QED BY <1>1, <1>2, <1>3, <1>4, <1>6, <2>1 DEF ApiInv
<1> QED BY <1>7, <1>8 DEF KeepInv

LEMMA KeepStep == ASSUME DataInv, KeepInv, [Next]_vars PROVE KeepInv'
<1>1. ASSUME UNCHANGED <<infos, wire, astray>> PROVE KeepInv'
  BY <1>1 DEF KeepInv, CopyKnows, ApiInv
<1>2. CASE \E c \in Chains : Fetch(c)
  BY <1>1, <1>2 DEF Fetch
<1>3. CASE \E f \in calls : Quoted(f)
  BY <1>1, <1>3 DEF Quoted
<1>4. CASE \E f \in calls : Finish(f)
  BY <1>4, MasterKeeps, ThreadKeeps
<1>5. CASE \E p \in Copies : Restart(p) \/ \E c \in Serves(p) : Sync(p, c)
  BY <1>5, RestartKeeps, SyncKeeps
<1>6. CASE \E p \in Threads : \/ Execute(p)
                            \/ \E n \in Percents, old \in tried[p] : RetryKnown(p, n, old) \/ RetryFetched(p, n, old)
  BY <1>1, <1>6 DEF Execute, RetryKnown, RetryFetched
<1>7. CASE UNCHANGED vars
  BY <1>1, <1>7 DEF vars
<1> QED BY <1>2, <1>3, <1>4, <1>5, <1>6, <1>7 DEF Next

\* A copy never falls behind for good: the last message of a chain says all the master
\* knows, and who has read it knows the same, whatever requests failed (setGasInfo).
THEOREM CopiesKnow == Spec => []CopyKnows
<1>1. Init => DataInv /\ KeepInv
  BY DataInit, KeepInit
<1>2. DataInv /\ KeepInv /\ [Next]_vars => (DataInv /\ KeepInv)'
  BY DataStep, KeepStep
<1>3. DataInv /\ KeepInv => CopyKnows
  BY DEF KeepInv
<1> QED BY <1>1, <1>2, <1>3, PTL DEF Spec

\* No step but the restart of a process makes what it knows of a chain unknown, whatever
\* fails and in whatever order answers and messages come in (setGasInfo).
THEOREM NothingForgotten == Spec => KnownStays
<1> DEFINE Stays == \A p \in Processes : \A c \in Serves(p) : \A x \in Fields :
                      infos[p][c][x] # Null => infos'[p][c][x] # Null \/ (p # Master /\ Restart(p))
<1>1. ASSUME DataInv, [Next]_vars PROVE [Stays]_vars
  <2> SUFFICES ASSUME NEW p \in Processes, NEW c \in Serves(p), NEW x \in Fields, infos[p][c][x] # Null
               PROVE  infos'[p][c][x] # Null \/ (p # Master /\ Restart(p))
    OBVIOUS
  <2>1. InfosOK /\ WireOK
    BY <1>1 DEF DataInv
  <2>2. ASSUME NEW q \in Processes, NEW d \in Serves(q), NEW new \in Known(d), infos' = Stored(q, d, new)
        PROVE  infos'[p][c][x] # Null
    <3>1. /\ infos'[q][d] = Merged(infos[q][d], new)
          /\ \A r \in Processes : \A e \in Serves(r) : r # q \/ e # d => infos'[r][e] = infos[r][e]
      BY <2>1, <2>2, StoredFacts
    <3>2. infos[q][d] \in Known(d)
      BY <2>1 DEF InfosOK
    <3>3. infos'[q][d][x] = IF new[x] # Null THEN new[x] ELSE infos[q][d][x]
      BY <3>1, <3>2, MergedFacts
    <3> QED BY <3>1, <3>3
  <2>3. ASSUME UNCHANGED infos PROVE infos'[p][c][x] # Null
    BY <2>3
  <2>4. CASE \E e \in Chains : Fetch(e)
    BY <2>3, <2>4 DEF Fetch
  <2>5. CASE \E f \in calls : Quoted(f)
    BY <2>3, <2>5 DEF Quoted
  <2>6. CASE \E f \in calls : Finish(f)
    <3>1. PICK f \in calls : Finish(f)
      BY <2>6
    <3>2. PICK new \in Answered(f) : infos' = Stored(f.at, f.chain, new)
      BY <3>1 DEF Finish
    <3>3. f.at \in Processes /\ f.chain \in Serves(f.at) /\ new \in Known(f.chain)
      BY <1>1, <3>2, AnsweredFacts
    <3> QED BY <2>2, <3>2, <3>3
  <2>7. CASE \E q \in Copies : \E d \in Serves(q) : Sync(q, d)
    <3>1. PICK q \in Copies : \E d \in Serves(q) : Sync(q, d)
      BY <2>7
    <3>2. PICK d \in Serves(q) : Sync(q, d)
      BY <3>1
    <3>3. Head(wire[q][d]) \in Known(d) /\ q \in Processes
      <4>1. wire[q][d] \in Seq(Known(d)) /\ wire[q][d] # <<>>
        BY <2>1, <3>2 DEF WireOK, Sync
      <4> QED BY <4>1, HeadTailProperties DEF Processes
    <3>4. infos' = Stored(q, d, Head(wire[q][d]))
      BY <3>2 DEF Sync
    <3> QED BY <2>2, <3>3, <3>4
  <2>8. CASE \E q \in Copies : Restart(q)
    <3>1. PICK q \in Copies : Restart(q)
      BY <2>8
    <3>2. q # Master
      BY ConstantFacts
    <3>3. infos' = [infos EXCEPT ![q] = [e \in Serves(q) |-> Nothing]]
      BY <3>1 DEF Restart
    <3>4. p # q => infos'[p] = infos[p]
      BY <2>1, <3>3 DEF InfosOK
    <3> QED BY <3>1, <3>2, <3>4
  <2>9. CASE \E q \in Threads : \/ Execute(q)
                              \/ \E n \in Percents, old \in tried[q] : RetryKnown(q, n, old) \/ RetryFetched(q, n, old)
    BY <2>3, <2>9 DEF Execute, RetryKnown, RetryFetched
  <2>10. CASE UNCHANGED vars
    BY <2>3, <2>10 DEF vars
  <2> QED BY <1>1, <2>4, <2>5, <2>6, <2>7, <2>8, <2>9, <2>10 DEF Next
<1> QED BY <1>1, DataInit, DataStep, PTL DEF Spec, KnownStays

-----------------------------------------------------------------------------
(* Types *)

FlagsInv ==
  /\ DOMAIN fetching = Processes
  /\ \A p \in Processes : fetching[p] \in [Serves(p) -> BOOLEAN]
  /\ astray \subseteq UNION {{p} \X Serves(p) : p \in Copies}

\* A fetch takes its number from what is left of the budget; those of the start are one of
\* each chain, and the timer of a chain waits for its own.
ApartInv ==
  /\ \A f, g \in calls : f.nr = g.nr /\ f.chain = g.chain /\ f.at = g.at => f = g
  /\ \A f \in calls : /\ f.at = Master => f.first \/ budget.fetches < f.nr
                      /\ f.at # Master => budget.retries < f.nr

LEMMA FlagsStep == ASSUME DataInv, FlagsInv, [Next]_vars PROVE FlagsInv'
<1>1. ASSUME NEW p \in Processes, NEW c, NEW b \in BOOLEAN,
             fetching' = [fetching EXCEPT ![p][c] = b], UNCHANGED astray
      PROVE  FlagsInv'
  BY <1>1 DEF FlagsInv
<1>2. \A p \in Copies : p \in Processes
  BY DEF Processes
<1>3. \A p \in Threads : p \in Copies /\ p \in Serves(p)
  BY DEF Copies, Serves
<1>4. CASE \E c \in Chains : Fetch(c)
  <2>1. PICK c \in Chains : Fetch(c)
    BY <1>4
  <2>2. fetching' = [fetching EXCEPT ![Master][c] = ~fetching[Master][c]] /\ UNCHANGED astray
    BY <2>1 DEF Fetch
  <2>3. Master \in Processes /\ (~fetching[Master][c]) \in BOOLEAN
    BY DEF Processes
  <2> QED BY <1>1, <2>2, <2>3
<1>5. CASE \E f \in calls : Quoted(f)
  BY <1>5 DEF Quoted, FlagsInv
<1>6. CASE \E f \in calls : Finish(f)
  <2>1. PICK f \in calls : Finish(f)
    BY <1>6
  <2>2. f.at \in Processes /\ f.chain \in Serves(f.at) /\ (f.at # Master => f.at \in Copies)
    <3>1. PICK new \in Answered(f) : TRUE
      BY <2>1 DEF Finish
    <3> QED BY <3>1, AnsweredFacts DEF Copies
  <2> DEFINE p == f.at
             c == f.chain
  <2>3. /\ fetching' = [fetching EXCEPT ![p][c] = FALSE]
        /\ astray' = IF p = Master THEN astray ELSE astray \cup {<<p, c>>}
    BY <2>1 DEF Finish
  <2> HIDE DEF p, c
  <2>4. astray' \subseteq UNION {{q} \X Serves(q) : q \in Copies}
    BY <2>2, <2>3 DEF FlagsInv, p, c
  <2>5. DOMAIN fetching' = Processes /\ \A q \in Processes : fetching'[q] \in [Serves(q) -> BOOLEAN]
    BY <2>2, <2>3 DEF FlagsInv, p, c
  <2> QED BY <2>4, <2>5 DEF FlagsInv
<1>7. CASE \E p \in Copies : \E c \in Serves(p) : Sync(p, c)
  BY <1>7 DEF Sync, FlagsInv
<1>8. CASE \E p \in Copies : Restart(p)
  <2>1. PICK p \in Copies : Restart(p)
    BY <1>8
  <2>2. /\ fetching' = [fetching EXCEPT ![p] = [c \in Serves(p) |-> FALSE]]
        /\ astray' = astray \cup {<<p, c>> : c \in Serves(p)}
    BY <2>1 DEF Restart
  <2>3. [c \in Serves(p) |-> FALSE] \in [Serves(p) -> BOOLEAN]
    OBVIOUS
  <2>4. DOMAIN fetching' = Processes /\ \A q \in Processes : fetching'[q] \in [Serves(q) -> BOOLEAN]
    BY <2>2, <2>3 DEF FlagsInv
  <2>5. astray' \subseteq UNION {{q} \X Serves(q) : q \in Copies}
    BY <2>2 DEF FlagsInv
  <2> QED BY <2>4, <2>5 DEF FlagsInv
<1>9. CASE \E p \in Threads : \/ Execute(p)
                            \/ \E n \in Percents, old \in tried[p] : RetryKnown(p, n, old)
  BY <1>9 DEF Execute, RetryKnown, FlagsInv
<1>10. CASE \E p \in Threads : \E n \in Percents, old \in tried[p] : RetryFetched(p, n, old)
  <2>1. PICK p \in Threads : \E n \in Percents, old \in tried[p] : RetryFetched(p, n, old)
    BY <1>10
  <2>2. UNCHANGED astray /\ \E b \in BOOLEAN : fetching' = [fetching EXCEPT ![p][p] = b]
    BY <2>1 DEF RetryFetched
  <2> QED BY <1>1, <1>2, <1>3, <2>2
<1>11. CASE UNCHANGED vars
  BY <1>11 DEF vars, FlagsInv
<1> QED BY <1>4, <1>5, <1>6, <1>7, <1>8, <1>9, <1>10, <1>11 DEF Next

\* One more fetch stands apart if no other of its place and chain has its number.
LEMMA OneMore ==
  ASSUME ApartInv, BudgetOK, NEW g, calls' \in SUBSET (calls \cup {g}),
         budget'.fetches <= budget.fetches, budget'.retries <= budget.retries, BudgetOK',
         CallsOK,
         \A f \in calls : ~(f.nr = g.nr /\ f.chain = g.chain /\ f.at = g.at),
         g.at = Master => g.first \/ budget'.fetches < g.nr,
         g.at # Master => budget'.retries < g.nr
  PROVE  ApartInv'
<1>1. \A f \in calls : f.nr \in Nat
  BY DEF CallsOK, Call
<1>2. /\ budget.fetches \in Nat /\ budget'.fetches \in Nat
      /\ budget.retries \in Nat /\ budget'.retries \in Nat
  BY DEF BudgetOK
<1>3. \A f, h \in calls' : f.nr = h.nr /\ f.chain = h.chain /\ f.at = h.at => f = h
  BY DEF ApartInv
<1>4. ASSUME NEW f \in calls
      PROVE  /\ f.at = Master => f.first \/ budget'.fetches < f.nr
             /\ f.at # Master => budget'.retries < f.nr
  BY <1>1, <1>2, <1>4 DEF ApartInv
<1>5. \A f \in calls' : /\ f.at = Master => f.first \/ budget'.fetches < f.nr
                        /\ f.at # Master => budget'.retries < f.nr
  BY <1>4
<1> QED BY <1>3, <1>5 DEF ApartInv

\* No more fetches, with the same numbers: they stay apart.
LEMMA SameCalls ==
  ASSUME ApartInv, calls' \in SUBSET calls, UNCHANGED <<budget.fetches, budget.retries>>
  PROVE  ApartInv'
BY DEF ApartInv

LEMMA QuotedApart == ASSUME DataInv, ApartInv, NEW f \in calls, Quoted(f) PROVE ApartInv'
<1>1. f \in Call
  BY DEF DataInv, CallsOK
<1>2. UNCHANGED <<budget.fetches, budget.retries>>
  <2>1. BudgetOK
    BY DEF DataInv
  <2> QED BY <2>1, FailingFacts DEF Quoted
<1>3. PICK g : /\ calls' = (calls \ {f}) \cup {g}
               /\ g.nr = f.nr /\ g.chain = f.chain /\ g.at = f.at /\ g.first = f.first
  <2>1. CASE calls' = (calls \ {f}) \cup {[f EXCEPT !.done = TRUE]}
    <3>1. LET g == [f EXCEPT !.done = TRUE] IN g.nr = f.nr /\ g.chain = f.chain /\ g.at = f.at /\ g.first = f.first
      BY <1>1 DEF Call
    <3> QED BY <2>1, <3>1
  <2>2. CASE \E v : calls' = (calls \ {f}) \cup {[f EXCEPT !.done = TRUE, !.price = v]}
    <3>1. PICK v : calls' = (calls \ {f}) \cup {[f EXCEPT !.done = TRUE, !.price = v]}
      BY <2>2
    <3>2. LET g == [f EXCEPT !.done = TRUE, !.price = v] IN
            g.nr = f.nr /\ g.chain = f.chain /\ g.at = f.at /\ g.first = f.first
      BY <1>1 DEF Call
    <3> QED BY <3>1, <3>2
  <2> QED BY <2>1, <2>2 DEF Quoted
<1> QED BY <1>2, <1>3 DEF ApartInv

LEMMA ApartStep == ASSUME DataInv, ApartInv, [Next]_vars PROVE ApartInv'
<1>1. CallsOK /\ InfosOK /\ BudgetOK /\ BudgetOK'
  BY DataStep DEF DataInv
<1>2. CASE \E c \in Chains : Fetch(c)
  <2>1. PICK c \in Chains : Fetch(c)
    BY <1>2
  <2> DEFINE g == Begun(Master, c, 0, Unknown)
  <2>2. c \in Serves(Master)
    BY ConstantFacts
  <2>3. g.at = Master /\ g.chain = c /\ g.nr = budget.fetches
    BY <1>1, <2>2, BegunFacts, UnknownFacts
  <2>4. calls' \in SUBSET (calls \cup {g})
    BY <2>1 DEF Fetch
  <2>5. budget.fetches \in Nat /\ budget'.fetches = budget.fetches - 1 /\ budget'.retries = budget.retries /\ budget.retries \in Nat
    BY <1>1, <2>1 DEF Fetch, BudgetOK
  <2>6. \A f \in calls : f.at = Master /\ f.chain = c => ~f.first /\ budget.fetches < f.nr
    BY <2>1 DEF Fetch, ApartInv
  <2> HIDE DEF g
  <2>7. \A f \in calls : ~(f.nr = g.nr /\ f.chain = g.chain /\ f.at = g.at)
    BY <2>3, <2>5, <2>6
  <2>8. budget'.fetches <= budget.fetches /\ budget'.retries <= budget.retries /\ budget'.fetches < g.nr
    BY <2>3, <2>5
  <2> QED BY <1>1, <2>3, <2>4, <2>7, <2>8, OneMore
<1>3. CASE \E f \in calls : Quoted(f)
  BY <1>3, QuotedApart
<1>4. CASE \E f \in calls : Finish(f)
  <2>1. PICK f \in calls : Finish(f)
    BY <1>4
  <2>2. PICK new \in Answered(f) : Failing(Cardinality({x \in Fields \ {"gasPrice"} : new[x] = Null}))
    BY <2>1 DEF Finish
  <2>3. UNCHANGED <<budget.fetches, budget.retries>>
    BY <1>1, <2>2, MissingFacts, FailingFacts
  <2>4. calls' \in SUBSET calls
    BY <2>1 DEF Finish
  <2> QED BY <2>3, <2>4, SameCalls
<1>5. CASE \E p \in Copies : Restart(p)
  BY <1>1, <1>5, SameCalls DEF Restart, BudgetOK
<1>6. CASE \E p \in Copies : \E c \in Serves(p) : Sync(p, c)
  BY <1>6, SameCalls DEF Sync
<1>7. ASSUME NEW p, NEW n, NEW old, Retrying(p, n, old)
      PROVE  /\ budget.retries \in Nat /\ budget'.retries = budget.retries - 1
             /\ budget.fetches \in Nat /\ budget'.fetches = budget.fetches
  BY <1>1, <1>7 DEF Retrying, BudgetOK
<1>10. CASE \E p \in Threads : Execute(p)
  BY <1>10, SameCalls DEF Execute
<1>8. CASE \E p \in Threads : \E n \in Percents, old \in tried[p] : RetryKnown(p, n, old) \/ RetryFetched(p, n, old)
  <2>1. PICK p \in Threads : \E n \in Percents, old \in tried[p] : RetryKnown(p, n, old) \/ RetryFetched(p, n, old)
    BY <1>8
  <2>9. PICK n \in Percents, old \in tried[p] : RetryKnown(p, n, old) \/ RetryFetched(p, n, old)
    BY <2>1
  <2> DEFINE g == Begun(p, p, n + 50, old)
  <2>2. /\ budget.retries \in Nat /\ budget'.retries = budget.retries - 1
        /\ budget.fetches \in Nat /\ budget'.fetches = budget.fetches
    BY <1>7, <2>9 DEF RetryKnown, RetryFetched
  <2>3. calls' \in SUBSET (calls \cup {g})
    BY <2>9 DEF RetryKnown, RetryFetched
  <2>4. p # Master /\ p \in Serves(p)
    BY ConstantFacts DEF Copies, Serves
  <2>5. g.at = p /\ g.nr = budget.retries
    <3>1. n + 50 \in Delta /\ old \in Fees
      BY DEF Delta, DataInv, TriedOK
    <3> QED BY <1>1, <2>4, <3>1, BegunFacts
  <2>6. \A f \in calls : f.at = p => budget.retries < f.nr
    BY <2>4 DEF ApartInv
  <2> HIDE DEF g
  <2>7. \A f \in calls : ~(f.nr = g.nr /\ f.chain = g.chain /\ f.at = g.at)
    BY <2>2, <2>5, <2>6
  <2>8. budget'.fetches <= budget.fetches /\ budget'.retries <= budget.retries /\ budget'.retries < g.nr
    BY <2>2, <2>5
  <2> QED BY <1>1, <2>3, <2>4, <2>5, <2>7, <2>8, OneMore
<1>9. CASE UNCHANGED vars
  BY <1>9, SameCalls DEF vars
<1> QED BY <1>2, <1>3, <1>4, <1>5, <1>6, <1>8, <1>9, <1>10 DEF Next

\* The state of the gas manager keeps its type, and two fetches that run at once are told
\* apart, so that none is taken for another when it ends (fetchGasInfo).
THEOREM GasTypeCorrect == Spec => []TypeOK
<1>1. Init => FlagsInv
  BY DEF Init, FlagsInv
<1>2. Init => ApartInv
  <2> SUFFICES ASSUME Init PROVE ApartInv
    OBVIOUS
  <2>1. BudgetOK /\ InfosOK
    BY DataInit DEF DataInv
  <2>2. ASSUME NEW f \in calls PROVE \E c \in Chains : f = [Begun(Master, c, 0, Unknown) EXCEPT !.first = TRUE] /\ f.chain = c /\ f.at = Master /\ f.first
    <3>1. PICK c \in Chains : f = [Begun(Master, c, 0, Unknown) EXCEPT !.first = TRUE]
      BY DEF Init
    <3> DEFINE g == Begun(Master, c, 0, Unknown)
    <3>2. g \in Call /\ g.chain = c /\ g.at = Master
      <4>1. Master \in Threads \cup {Master} /\ c \in Serves(Master)
        BY ConstantFacts
      <4> QED BY <2>1, <4>1, BegunFacts, UnknownFacts
    <3>3. f = [g EXCEPT !.first = TRUE]
      BY <3>1
    <3> HIDE DEF g
    <3>4. f.chain = c /\ f.at = Master /\ f.first
      BY <3>2, <3>3 DEF Call
    <3> QED BY <3>1, <3>4
  <2>3. ASSUME NEW f \in calls, NEW h \in calls, f.chain = h.chain PROVE f = h
    <3>1. PICK c \in Chains : f = [Begun(Master, c, 0, Unknown) EXCEPT !.first = TRUE] /\ f.chain = c
      BY <2>2
    <3>2. PICK d \in Chains : h = [Begun(Master, d, 0, Unknown) EXCEPT !.first = TRUE] /\ h.chain = d
      BY <2>2
    <3> QED BY <2>3, <3>1, <3>2, Zenon
  <2>4. \A f \in calls : f.at = Master /\ f.first
    BY <2>2
  <2> QED BY <2>3, <2>4 DEF ApartInv
<1>3. DataInv /\ FlagsInv /\ ApartInv => TypeOK
  <2> SUFFICES ASSUME DataInv, FlagsInv, ApartInv PROVE TypeOK
    OBVIOUS
  <2>1. \A p \in Processes : Len(history[p]) <= MaxHistory /\ fetching[p] \in [Serves(p) -> BOOLEAN]
    BY DEF DataInv, HistoryInv, FlagsInv
  <2>2. ASSUME NEW p \in Processes, NEW c \in Serves(p)
        PROVE  infos[p][c].gasPrice \in Nat \cup {Null} /\ infos[p][c].maxPriorityFee \in Tips[c] \cup {Null}
    <3>1. infos[p][c] \in Known(c)
      BY DEF DataInv, InfosOK
    <3> QED BY <3>1 DEF Known
  <2> QED BY <2>1, <2>2 DEF TypeOK, FlagsInv, ApartInv
<1> QED BY <1>1, <1>2, <1>3, DataInit, DataStep, FlagsStep, ApartStep, PTL DEF Spec
=============================================================================
