--------------------------- MODULE ExplorerProofs ---------------------------
(***************************************************************************)
(* What clients are told of a supertransaction, for every number of        *)
(* userOps, requests and clients, and any reorganisations and failures.    *)
(***************************************************************************)
EXTENDS Explorer, TLAPS, FiniteSetTheorems

-----------------------------------------------------------------------------
(* Types *)

FetchType == [receipt : {"none", "missing", "found", "failed"}, block : Nat, number : Nat,
              answer : Answer \cup {None}]
QueryType == [open : BOOLEAN, asked : Nat, snap : [Ops -> Field], fetch : [Ops -> FetchType],
              knew : [final : SUBSET Ops, sure : SUBSET Ops]]

Steps == {"absent", "new", "checking", "created", "accepted", "refused", "crashed"}

TypeInv ==
  /\ trusted \in BOOLEAN /\ succeeds \in BOOLEAN /\ overlap \in BOOLEAN /\ listed \in Nat
  /\ request \in [Requests -> Steps]
  /\ job \in [Requests -> [Ops -> Stages]] /\ field \in [Ops -> Field] /\ writes \in SUBSET Write
  /\ height \in Nat /\ block \in [Ops -> 0..height] /\ first \in [Ops -> 0..height]
  /\ sent \in [Ops -> Requests \cup {None}]
  /\ lost \in SUBSET Ops /\ unseen \in SUBSET Ops /\ dropped \in SUBSET Ops
  /\ told \in [final : SUBSET Ops, sure : SUBSET Ops]
  /\ query \in [DOMAIN query -> QueryType]

LEMMA ConstantFacts ==
  /\ 0 \in Ops /\ WaitConfirmations \in Nat \ {0} /\ Lag \in Nat /\ Asked \in SUBSET Nat
  /\ None \notin Requests /\ IsFiniteSet(Requests) /\ LowBlockTime \in BOOLEAN
BY ConstantsOK

LEMMA NoFieldFacts ==
  /\ NoField \in Field
  /\ ~NoField.hash /\ ~NoField.error /\ ~NoField.finished /\ ~NoField.confirmed /\ ~NoField.skipped
  /\ NoField.confirmations = 0
BY DEF NoField, Field

LEMMA StatusFacts ==
  ASSUME NEW f \in Field
  PROVE  /\ StatusOf(f) \in Status
         /\ StatusOf(f) = "SKIPPED" <=> f.skipped
         /\ StatusOf(f) \in Final <=> ~f.skipped /\ ((f.hash /\ f.finished) \/ (~f.hash /\ f.error))
         /\ StatusOf(f) = "MINED_SUCCESS" <=> ~f.skipped /\ f.hash /\ f.finished /\ ~f.error
         /\ OnChain(f) <=> ~f.skipped /\ f.hash /\ f.finished
         /\ OnChain(f) => StatusOf(f) \in Final
BY DEF StatusOf, Status, Final, Field, OnChain

LEMMA KnownFacts ==
  ASSUME NEW f \in Field
  PROVE  /\ Known(f) \in Int
         /\ Known(f) > 0 => OnChain(f)
         /\ Known(f) > WaitConfirmations => Known(f) = f.confirmations
BY ConstantFacts DEF Known, Field

LEMMA AnswerFacts ==
  ASSUME NEW f \in Field, NEW o \in Ops, NEW n \in Nat, NEW k \in Int
  PROVE  /\ AnswerOf(f, o, n, k) \in Answer
         /\ AnswerOf(f, o, n, k).status = StatusOf(f)
         /\ AnswerOf(f, o, n, k).confirmed <=> f.confirmed /\ (OnChain(f) /\ Custom(o, n) => k >= n)
<1>1. StatusOf(f) \in Status
  BY StatusFacts
<1>2. (f.confirmed /\ (OnChain(f) /\ Custom(o, n) => k >= n)) \in BOOLEAN
  OBVIOUS
<1> QED BY <1>1, <1>2 DEF AnswerOf, Answer

LEMMA QuietFacts ==
  /\ Unasked \in FetchType /\ Unasked.receipt = "none" /\ Unasked.answer = None
  /\ Unasked.number = 0 /\ Unasked.block = 0
  /\ Quiet \in QueryType /\ ~Quiet.open
  /\ \A o \in Ops : Quiet.snap[o] = NoField /\ Quiet.fetch[o] = Unasked
  /\ Quiet.knew.final = {} /\ Quiet.knew.sure = {}
<1>1. /\ Unasked \in FetchType /\ Unasked.receipt = "none" /\ Unasked.answer = None
      /\ Unasked.number = 0 /\ Unasked.block = 0
  BY DEF Unasked, FetchType
<1>2. [o \in Ops |-> Unasked] \in [Ops -> FetchType] /\ [o \in Ops |-> NoField] \in [Ops -> Field]
  BY <1>1, NoFieldFacts
<1>3. Quiet \in QueryType
  BY <1>2 DEF Quiet, QueryType
<1>4. /\ ~Quiet.open /\ Quiet.knew.final = {} /\ Quiet.knew.sure = {}
      /\ \A o \in Ops : Quiet.snap[o] = NoField /\ Quiet.fetch[o] = Unasked
  BY DEF Quiet
<1> QED BY <1>1, <1>3, <1>4

LEMMA TypeInit == Init => TypeInv
<1> SUFFICES ASSUME Init PROVE TypeInv
  OBVIOUS
<1>1. PICK s \in Scenarios :
        /\ trusted = s.trusted /\ succeeds = s.succeeds
        /\ request = [r \in Requests |-> IF r \in s.requests THEN "new" ELSE "absent"]
        /\ query = [q \in s.clients |-> Quiet]
  BY DEF Init
<1>2. trusted \in BOOLEAN /\ succeeds \in BOOLEAN
  BY <1>1, ConstantsOK
<1>3. query \in [DOMAIN query -> QueryType]
  BY <1>1, QuietFacts
<1>4. request \in [Requests -> Steps]
  BY <1>1 DEF Steps
<1>5. field \in [Ops -> Field] /\ writes \in SUBSET Write
  BY NoFieldFacts DEF Init
<1>6. height \in Nat /\ block \in [Ops -> 0..height] /\ first \in [Ops -> 0..height]
  BY DEF Init
<1>7. /\ overlap \in BOOLEAN /\ listed \in Nat /\ sent \in [Ops -> Requests \cup {None}]
      /\ lost \in SUBSET Ops /\ unseen \in SUBSET Ops /\ dropped \in SUBSET Ops
      /\ told \in [final : SUBSET Ops, sure : SUBSET Ops]
      /\ job \in [Requests -> [Ops -> Stages]]
  BY DEF Init, Stages
<1> QED BY <1>2, <1>3, <1>4, <1>5, <1>6, <1>7 DEF TypeInv

-----------------------------------------------------------------------------
(* What the steps of a job write *)

\* The userOp's first block was followed by n - 1 more.
Deep(o, n) == first[o] # 0 /\ n <= height - first[o] + 1

ChainInv == \A o \in Ops : block[o] # 0 => first[o] # 0 /\ first[o] <= block[o]

\* f becomes g by what the job writes: what was set stays set, and confirmations are
\* counted to.
Grows(f, g) ==
  /\ g.skipped = f.skipped
  /\ f.hash => g.hash
  /\ f.finished => g.finished
  /\ f.error => g.error
  /\ g.hash => f.hash \/ g.finished

\* A step of a job of o writes g.
Writes(r, o, g) ==
  /\ g \in Field /\ Grows(field[o], g)
  /\ field' = [field EXCEPT ![o] = g]
  /\ g.confirmed => \/ field[o].confirmed
                   \/ /\ g.hash /\ g.finished /\ job'[r][o] = "done"
                      /\ o \in unseen' \/ Deep(o, WaitConfirmations)
  /\ g.confirmations > 0 => \/ g.confirmations = field[o].confirmations
                            \/ o \in unseen' \/ Deep(o, g.confirmations)

LEMMA FieldMove ==
  ASSUME TypeInv, NEW o \in Ops, NEW g, field' = [field EXCEPT ![o] = g]
  PROVE  \A p \in Ops : field'[p] = IF p = o THEN g ELSE field[p]
BY DEF TypeInv

LEMMA StageMove ==
  ASSUME TypeInv, NEW r \in Requests, NEW o \in Ops, NEW stage \in Stages, Stage(r, o, stage)
  PROVE  /\ job' \in [Requests -> [Ops -> Stages]]
         /\ job'[r][o] = stage
         /\ \A s \in Requests, p \in Ops : s # r \/ p # o => job'[s][p] = job[s][p]
BY DEF TypeInv, Stage

LEMMA SameField ==
  ASSUME TypeInv, NEW r, NEW o \in Ops, UNCHANGED field
  PROVE  Writes(r, o, field[o])
<1>1. field[o] \in Field /\ field' = [field EXCEPT ![o] = field[o]]
  BY DEF TypeInv
<1> QED BY <1>1 DEF Writes, Grows

LEMMA SetError ==
  ASSUME TypeInv, NEW r, NEW o \in Ops, NEW b \in BOOLEAN, NEW f,
         f = [field[o] EXCEPT !.error = TRUE] \/ f = [field[o] EXCEPT !.error = TRUE, !.finished = TRUE],
         field' = [field EXCEPT ![o] = f]
  PROVE  Writes(r, o, f)
<1>1. field[o] \in Field
  BY DEF TypeInv
<1>2. /\ f \in Field /\ f.error /\ f.skipped = field[o].skipped /\ f.hash = field[o].hash
      /\ field[o].finished => f.finished
      /\ f.confirmed = field[o].confirmed /\ f.confirmations = field[o].confirmations
  BY <1>1 DEF Field
<1> QED BY <1>2 DEF Writes, Grows

LEMMA SetReport ==
  ASSUME TypeInv, ChainInv, NEW r, NEW o \in Ops, NEW d \in BOOLEAN, NEW e \in BOOLEAN, NEW f,
         f = [field[o] EXCEPT !.hash = TRUE, !.finished = TRUE, !.confirmed = d,
                              !.confirmations = IF d THEN WaitConfirmations ELSE 1, !.error = e],
         field[o].error => e,
         field' = [field EXCEPT ![o] = f],
         o \in unseen' \/ Deep(o, IF d THEN WaitConfirmations ELSE 1),
         d => job'[r][o] = "done"
  PROVE  Writes(r, o, f)
<1>1. field[o] \in Field /\ (IF d THEN WaitConfirmations ELSE 1) \in Int
  BY ConstantFacts DEF TypeInv
<1>2. /\ f \in Field /\ f.error = e /\ f.skipped = field[o].skipped /\ f.hash /\ f.finished
      /\ f.confirmed = d /\ f.confirmations = IF d THEN WaitConfirmations ELSE 1
  BY <1>1 DEF Field
<1>3. Grows(field[o], f)
  BY <1>2 DEF Grows
<1> QED BY <1>2, <1>3 DEF Writes

\* A step of a job writes only what it may.
LEMMA JobEffect ==
  ASSUME TypeInv, ChainInv, NEW r \in Requests, NEW o \in Ops, Job(r, o)
  PROVE  /\ job[r][o] \notin {"none", "adding", "done"}
         /\ job'[r][o] \notin {"none", "adding"}
         /\ job' \in [Requests -> [Ops -> Stages]]
         /\ \A s \in Requests, p \in Ops : s # r \/ p # o => job'[s][p] = job[s][p]
         /\ \E g : Writes(r, o, g)
         /\ unseen \subseteq unseen' /\ unseen' \subseteq unseen \cup {o}
         /\ UNCHANGED <<given, calls, listed, writes, chain, answers>>
<1>1. field[o] \in Field /\ succeeds \in BOOLEAN /\ height \in Nat /\ block[o] \in 0..height /\ first[o] \in 0..height
  BY DEF TypeInv
<1>2. {"execute", "done", "sent", "fast"} \subseteq Stages
  BY DEF Stages
<1>3. CASE Simulate(r, o)
  <2>1. job[r][o] = "simulate" /\ UNCHANGED <<given, calls, listed, writes, chain, answers, unseen>>
    BY <1>3 DEF Simulate
  <2>2. CASE Stage(r, o, "execute") /\ UNCHANGED field
    BY <1>2, <2>1, <2>2, StageMove, SameField
  <2>3. CASE Stage(r, o, "done") /\ field' = [field EXCEPT ![o].error = TRUE]
    <3>1. field' = [field EXCEPT ![o] = [field[o] EXCEPT !.error = TRUE]]
      BY <2>3
    <3>2. Writes(r, o, [field[o] EXCEPT !.error = TRUE])
      BY <3>1, SetError
    <3> QED BY <1>2, <2>1, <2>3, <3>2, StageMove
  <2> QED BY <1>3, <2>2, <2>3 DEF Simulate
<1>4. CASE Start(r, o)
  <2> DEFINE f == [field[o] EXCEPT !.started = TRUE]
  <2>1. /\ job[r][o] = "execute" /\ Stage(r, o, "sent")
        /\ field' = [field EXCEPT ![o] = f]
        /\ UNCHANGED <<given, calls, listed, writes, chain, answers, unseen>>
    BY <1>4 DEF Start
  <2>2. /\ f \in Field /\ f.error = field[o].error /\ f.skipped = field[o].skipped /\ f.hash = field[o].hash
        /\ f.finished = field[o].finished
        /\ f.confirmed = field[o].confirmed /\ f.confirmations = field[o].confirmations
    BY <1>1 DEF Field
  <2> HIDE DEF f
  <2>3. Writes(r, o, f)
    BY <2>1, <2>2 DEF Writes, Grows
  <2> QED BY <1>2, <2>1, <2>3, StageMove
<1>5. CASE Report(r, o)
  <2> DEFINE d == Depth(o) >= WaitConfirmations
             e == field[o].error \/ ~succeeds
             f == [field[o] EXCEPT !.hash = TRUE, !.finished = TRUE, !.confirmed = d,
                                   !.confirmations = IF d THEN WaitConfirmations ELSE 1, !.error = e]
  <2>1. /\ Mined(r, o)
        /\ \/ d /\ job[r][o] \in {"sent", "fast"} /\ Stage(r, o, "done")
           \/ LowBlockTime /\ ~d /\ job[r][o] = "sent" /\ Stage(r, o, "fast")
        /\ field' = [field EXCEPT ![o] = f]
        /\ UNCHANGED <<given, calls, listed, writes, chain, answers, unseen>>
    BY <1>5 DEF Report
  <2>2. block[o] # 0 /\ first[o] # 0 /\ first[o] <= block[o] /\ Depth(o) = height - block[o] + 1
    BY <2>1 DEF Mined, ChainInv, Depth
  <2>3. Deep(o, IF d THEN WaitConfirmations ELSE 1)
    BY <1>1, <2>2, ConstantFacts DEF Deep
  <2>4. d \in BOOLEAN /\ e \in BOOLEAN /\ (field[o].error => e)
    BY <1>1 DEF Field
  <2> HIDE DEF d, e, f
  <2>5. d => job'[r][o] = "done"
    BY <1>2, <2>1, StageMove
  <2>6. Writes(r, o, f)
    BY <2>1, <2>3, <2>4, <2>5, SetReport DEF f
  <2> QED BY <1>2, <2>1, <2>6, StageMove
<1>6. CASE ReportBlind(r, o)
  <2> DEFINE f == [field[o] EXCEPT !.hash = TRUE, !.finished = TRUE, !.confirmed = TRUE, !.confirmations = WaitConfirmations]
  <2>1. /\ job[r][o] \in {"sent", "fast"} /\ Stage(r, o, "done")
        /\ field' = [field EXCEPT ![o] = f]
        /\ unseen' = unseen \cup {o}
        /\ UNCHANGED <<given, calls, listed, writes, chain, answers>>
    BY <1>6 DEF ReportBlind
  <2>2. /\ f \in Field /\ f.error = field[o].error /\ f.skipped = field[o].skipped /\ f.hash
        /\ f.finished /\ f.confirmed /\ f.confirmations = WaitConfirmations
    <3>1. WaitConfirmations \in Int
      BY ConstantFacts
    <3> QED BY <1>1, <3>1 DEF Field
  <2> HIDE DEF f
  <2>3. job'[r][o] = "done"
    BY <1>2, <2>1, StageMove
  <2>4. Writes(r, o, f)
    BY <2>1, <2>2, <2>3 DEF Writes, Grows
  <2> QED BY <1>2, <2>1, <2>4, StageMove
<1>7. CASE Fail(r, o)
  <2> DEFINE f == [field[o] EXCEPT !.error = TRUE, !.finished = TRUE]
  <2>1. /\ job[r][o] \in {"sent", "fast"} /\ Stage(r, o, "done")
        /\ field' = [field EXCEPT ![o].error = TRUE, ![o].finished = TRUE]
        /\ UNCHANGED <<given, calls, listed, writes, chain, answers, unseen>>
    BY <1>7 DEF Fail
  <2>2. field' = [field EXCEPT ![o] = f]
    BY <1>1, <2>1 DEF Field, TypeInv
  <2>3. Writes(r, o, f)
    BY <2>2, SetError
  <2> QED BY <1>2, <2>1, <2>3, StageMove
<1> QED BY <1>3, <1>4, <1>5, <1>6, <1>7 DEF Job

-----------------------------------------------------------------------------
(* What the steps of a query change *)

LEMMA FetchFacts ==
  ASSUME TypeInv, NEW q \in DOMAIN query, NEW o \in Ops
  PROVE  /\ query[q] \in QueryType /\ query[q].snap[o] \in Field /\ query[q].asked \in Nat
         /\ query[q].open \in BOOLEAN
         /\ Fetch(q, o) \in FetchType /\ Fetch(q, o).block \in Nat /\ Fetch(q, o).number \in Nat
         /\ Fetch(q, o).answer \in Answer \cup {None}
         /\ Fetch(q, o).receipt \in {"none", "missing", "found", "failed"}
<1>1. query[q] \in QueryType
  BY DEF TypeInv
<1>2. query[q].snap[o] \in Field /\ query[q].fetch[o] \in FetchType /\ query[q].asked \in Nat /\ query[q].open \in BOOLEAN
  BY <1>1 DEF QueryType
<1>3. Fetch(q, o) \in FetchType
  BY <1>2 DEF Fetch
<1> QED BY <1>1, <1>2, <1>3 DEF FetchType

LEMMA FetchMove ==
  ASSUME TypeInv, NEW q \in DOMAIN query, NEW o \in Ops, NEW f \in FetchType, SetFetch(q, o, f)
  PROVE  /\ query' \in [DOMAIN query -> QueryType] /\ DOMAIN query' = DOMAIN query
         /\ \A p \in DOMAIN query : /\ query'[p].open = query[p].open /\ query'[p].asked = query[p].asked
                                    /\ query'[p].snap = query[p].snap /\ query'[p].knew = query[p].knew
         /\ \A p \in DOMAIN query : \A u \in Ops :
              query'[p].fetch[u] = IF p = q /\ u = o THEN f ELSE query[p].fetch[u]
<1> DEFINE old == query[q]
           g == [old.fetch EXCEPT ![o] = f]
           new == [old EXCEPT !.fetch = g]
<1>1. query' = [query EXCEPT ![q] = new]
  BY DEF SetFetch
<1>2. old \in QueryType /\ query \in [DOMAIN query -> QueryType]
  BY DEF TypeInv
<1> HIDE DEF old
<1>3. g \in [Ops -> FetchType] /\ \A u \in Ops : g[u] = IF u = o THEN f ELSE old.fetch[u]
  BY <1>2 DEF QueryType
<1> HIDE DEF g
<1>4. /\ new \in QueryType /\ new.open = old.open /\ new.asked = old.asked /\ new.snap = old.snap
      /\ new.knew = old.knew /\ new.fetch = g
  BY <1>2, <1>3 DEF QueryType
<1> HIDE DEF new
<1>5. query' \in [DOMAIN query -> QueryType] /\ DOMAIN query' = DOMAIN query
  BY <1>1, <1>2, <1>4
<1>6. \A p \in DOMAIN query : query'[p] = IF p = q THEN new ELSE query[p]
  BY <1>1
<1> QED BY <1>3, <1>4, <1>5, <1>6 DEF old

\* What a client is told is added to what it knows.
LEMMA TellFacts ==
  ASSUME TypeInv, NEW q, Tell(q)
  PROVE  /\ told' \in [final : SUBSET Ops, sure : SUBSET Ops]
         /\ \A o \in told'.final : o \in told.final \/ (/\ query'[q].open /\ query'[q].fetch[o].answer # None
                                                       /\ query'[q].fetch[o].answer.status \in Final)
         /\ \A o \in told'.sure : o \in told.sure \/ (/\ query'[q].open /\ query'[q].fetch[o].answer # None
                                                     /\ query'[q].fetch[o].answer.status = "MINED_SUCCESS"
                                                     /\ query'[q].fetch[o].answer.confirmed)
<1> DEFINE answer(o) == query'[q].fetch[o].answer
           all == query'[q].open /\ \A o \in Ops : answer(o) # None
           F == IF all THEN {o \in Ops : answer(o).status \in Final} ELSE {}
           S == IF all THEN {o \in Ops : answer(o).status = "MINED_SUCCESS" /\ answer(o).confirmed} ELSE {}
<1>1. Told(q)' = [final |-> F, sure |-> S]
  BY DEF Told, Fetch
<1>2. told' = [final |-> told.final \cup F, sure |-> told.sure \cup S]
  BY <1>1 DEF Tell
<1>3. \A o \in F : all /\ o \in Ops /\ answer(o).status \in Final
  OBVIOUS
<1>4. \A o \in S : all /\ o \in Ops /\ answer(o).status = "MINED_SUCCESS" /\ answer(o).confirmed
  OBVIOUS
<1>5. told.final \in SUBSET Ops /\ told.sure \in SUBSET Ops
  BY DEF TypeInv
<1> HIDE DEF F, S
<1>6. told'.final = told.final \cup F /\ told'.sure = told.sure \cup S
  BY <1>2
<1>7. told' \in [final : SUBSET Ops, sure : SUBSET Ops]
  BY <1>2, <1>3, <1>4, <1>5
<1> QED BY <1>3, <1>4, <1>6, <1>7

\* A query that begins reads all records at once.
LEMMA AskFacts ==
  ASSUME TypeInv, NEW q \in DOMAIN query, Ask(q)
  PROVE  /\ query' \in [DOMAIN query -> QueryType] /\ DOMAIN query' = DOMAIN query
         /\ \A p \in DOMAIN query : p # q => query'[p] = query[p]
         /\ query'[q].open /\ query'[q].snap = field /\ query'[q].knew = told /\ query'[q].asked \in Nat
         /\ \A o \in Ops :
              /\ query'[q].fetch[o].receipt = "none" /\ query'[q].fetch[o].number = 0
              /\ query'[q].fetch[o].answer =
                   IF MustFetch(field[o], o, query'[q].asked) THEN None
                   ELSE AnswerOf(field[o], o, query'[q].asked, Known(field[o]))
<1>1. PICK n \in Asked :
       query' = [query EXCEPT ![q] =
         [open |-> TRUE, asked |-> n, snap |-> field, knew |-> told,
          fetch |-> [o \in Ops |->
            [Unasked EXCEPT !.answer = IF MustFetch(field[o], o, n) THEN None
                                       ELSE AnswerOf(field[o], o, n, Known(field[o]))]]]]
  BY DEF Ask
<1> DEFINE a(o) == IF MustFetch(field[o], o, n) THEN None ELSE AnswerOf(field[o], o, n, Known(field[o]))
           g == [o \in Ops |-> [Unasked EXCEPT !.answer = a(o)]]
           new == [open |-> TRUE, asked |-> n, snap |-> field, knew |-> told, fetch |-> g]
<1>2. n \in Nat /\ field \in [Ops -> Field] /\ told \in [final : SUBSET Ops, sure : SUBSET Ops]
  BY ConstantFacts DEF TypeInv
<1>3. ASSUME NEW o \in Ops PROVE a(o) \in Answer \cup {None}
  <2>1. field[o] \in Field
    BY <1>2
  <2>2. Known(field[o]) \in Int
    BY <2>1, KnownFacts
  <2>3. AnswerOf(field[o], o, n, Known(field[o])) \in Answer
    BY <1>2, <2>1, <2>2, AnswerFacts
  <2> QED BY <2>3
<1>4. query' = [query EXCEPT ![q] = new]
  BY <1>1
<1> HIDE DEF a
<1>5. ASSUME NEW o \in Ops
      PROVE  /\ g[o] \in FetchType /\ g[o].receipt = "none" /\ g[o].number = 0
             /\ g[o].answer = a(o)
  <2>1. g[o] = [Unasked EXCEPT !.answer = a(o)]
    OBVIOUS
  <2>2. a(o) \in Answer \cup {None}
    BY <1>3
  <2> QED BY <2>1, <2>2, QuietFacts DEF FetchType
<1>6. g \in [Ops -> FetchType]
  BY <1>5
<1> HIDE DEF g
<1>7. /\ new \in QueryType /\ new.open /\ new.snap = field /\ new.knew = told /\ new.asked = n /\ new.fetch = g
  BY <1>2, <1>6 DEF QueryType
<1> HIDE DEF new
<1>8. query \in [DOMAIN query -> QueryType]
  BY DEF TypeInv
<1>9. query' \in [DOMAIN query -> QueryType] /\ DOMAIN query' = DOMAIN query /\ query'[q] = new
  BY <1>4, <1>7, <1>8
<1>10. \A p \in DOMAIN query : p # q => query'[p] = query[p]
  BY <1>4
<1> QED BY <1>2, <1>5, <1>7, <1>9, <1>10 DEF a

\* f is what a step makes of the request for o.
Requested(q, o, f) == f \in FetchType /\ SetFetch(q, o, f)

LEMMA GetReceiptFacts ==
  ASSUME TypeInv, NEW q \in DOMAIN query, NEW o \in Ops, GetReceipt(q, o)
  PROVE  \E f : /\ Requested(q, o, f)
                /\ f.answer = None /\ f.number = Fetch(q, o).number
                /\ f.receipt = "found" => block[o] # 0 /\ f.block = block[o]
<1> DEFINE old == Fetch(q, o)
<1>1. old \in FetchType /\ block[o] \in Nat /\ old.answer = None
  BY FetchFacts DEF TypeInv, GetReceipt
<1>2. PICK v \in {"missing", "found", "failed"}, b \in Nat :
        SetFetch(q, o, [old EXCEPT !.receipt = v, !.block = b]) /\ (v = "found" => block[o] # 0 /\ b = block[o])
  <2> DEFINE v == IF block[o] = 0 THEN "missing" ELSE "found"
  <2>1. CASE SetFetch(q, o, [old EXCEPT !.receipt = v, !.block = block[o]])
    <3>1. v \in {"missing", "found", "failed"} /\ (v = "found" => block[o] # 0)
      OBVIOUS
    <3> HIDE DEF v, old
    <3> QED BY <1>1, <2>1, <3>1
  <2>2. CASE \E r \in {"missing", "failed"} : SetFetch(q, o, [old EXCEPT !.receipt = r])
    <3>1. PICK r \in {"missing", "failed"} : SetFetch(q, o, [old EXCEPT !.receipt = r])
      BY <2>2
    <3> HIDE DEF old
    <3>2. [old EXCEPT !.receipt = r] = [old EXCEPT !.receipt = r, !.block = old.block] /\ old.block \in Nat
      BY <1>1 DEF FetchType
    <3>3. SetFetch(q, o, [old EXCEPT !.receipt = r, !.block = old.block])
      BY <3>1, <3>2
    <3> QED BY <3>2, <3>3
  <2> QED BY <2>1, <2>2 DEF GetReceipt
<1> DEFINE f == [old EXCEPT !.receipt = v, !.block = b]
<1> HIDE DEF old
<1>3. /\ f \in FetchType /\ f.answer = old.answer /\ f.number = old.number
      /\ f.receipt = v /\ f.block = b
  BY <1>1 DEF FetchType
<1> QED BY <1>1, <1>2, <1>3 DEF Requested, old

LEMMA GetBlockNumberFacts ==
  ASSUME TypeInv, NEW q \in DOMAIN query, NEW o \in Ops, GetBlockNumber(q, o)
  PROVE  \E f : /\ Requested(q, o, f)
                /\ f.answer = None /\ f.receipt = Fetch(q, o).receipt
                /\ f.block = Fetch(q, o).block /\ f.number <= height
<1> DEFINE old == Fetch(q, o)
<1>1. old \in FetchType /\ old.answer = None
  BY FetchFacts DEF GetBlockNumber
<1>2. PICK h \in (height - Lag)..height : h > 0 /\ SetFetch(q, o, [old EXCEPT !.number = h])
  BY DEF GetBlockNumber
<1>3. h \in Nat /\ h <= height
  BY <1>2, ConstantFacts DEF TypeInv
<1> DEFINE f == [old EXCEPT !.number = h]
<1> HIDE DEF old
<1>4. /\ f \in FetchType /\ f.answer = old.answer /\ f.number = h
      /\ f.receipt = old.receipt /\ f.block = old.block
  BY <1>1, <1>3 DEF FetchType
<1> QED BY <1>1, <1>2, <1>3, <1>4 DEF Requested, old

LEMMA ResolveFacts ==
  ASSUME TypeInv, NEW q \in DOMAIN query, NEW o \in Ops, Resolve(q, o)
  PROVE  \E f : \E n \in Int :
           /\ Requested(q, o, f)
           /\ n = Fetch(q, o).number - Fetch(q, o).block + 1
           /\ f.answer = AnswerOf(query[q].snap[o], o, query[q].asked, n)
           /\ writes' = writes \cup {[op |-> o, kind |-> "count", n |-> n]} /\ f.number = Fetch(q, o).number
           /\ f.receipt = Fetch(q, o).receipt /\ f.block = Fetch(q, o).block
<1> DEFINE old == Fetch(q, o)
           n == Counted(old.number, old.block)
           a == AnswerOf(query[q].snap[o], o, query[q].asked, n)
           f == [old EXCEPT !.answer = a]
<1>1. SetFetch(q, o, f) /\ writes' = writes \cup {[op |-> o, kind |-> "count", n |-> n]}
  BY DEF Resolve
<1>2. old \in FetchType /\ old.number \in Nat /\ old.block \in Nat
  BY FetchFacts
<1>3. n = old.number - old.block + 1 /\ n \in Int
  BY <1>2 DEF Counted
<1>4. a \in Answer
  BY <1>3, FetchFacts, AnswerFacts
<1> HIDE DEF old, n, a
<1>5. /\ f \in FetchType /\ f.answer = a /\ f.number = old.number
      /\ f.receipt = old.receipt /\ f.block = old.block
  BY <1>2, <1>3, <1>4 DEF FetchType
<1> QED BY <1>1, <1>3, <1>5 DEF Requested, old, a

LEMMA ResolveErrorFacts ==
  ASSUME TypeInv, NEW q \in DOMAIN query, NEW o \in Ops, ResolveError(q, o)
  PROVE  \E f :
           /\ Requested(q, o, f)
           /\ f.answer \in Answer
           /\ \/ /\ f.answer = AnswerOf(query[q].snap[o], o, query[q].asked, Known(query[q].snap[o]))
                 /\ writes' = writes
              \/ /\ f.answer.status = "FAILED" /\ OnChain(query[q].snap[o])
                 /\ f.answer.confirmed = AnswerOf(query[q].snap[o], o, query[q].asked, Known(query[q].snap[o])).confirmed
                 /\ writes' = writes \cup {[op |-> o, kind |-> "drop", n |-> 0]}
                 /\ dropped' = dropped \cup {o}
           /\ f.number = Fetch(q, o).number /\ f.receipt = Fetch(q, o).receipt /\ f.block = Fetch(q, o).block
           /\ dropped \subseteq dropped' /\ dropped' \in SUBSET Ops
<1> DEFINE old == Fetch(q, o)
           saved == query[q].snap[o]
           drop == old.receipt = "missing" /\ Known(saved) > 0
           a == AnswerOf(saved, o, query[q].asked, Known(saved))
           b == [a EXCEPT !.status = "FAILED"]
           f == [old EXCEPT !.answer = IF drop THEN b ELSE a]
<1>1. /\ SetFetch(q, o, f) /\ dropped' = IF drop THEN dropped \cup {o} ELSE dropped
      /\ writes' = IF drop THEN writes \cup {[op |-> o, kind |-> "drop", n |-> 0]} ELSE writes
  BY DEF ResolveError
<1>2. old \in FetchType /\ saved \in Field
  BY FetchFacts
<1>3. a \in Answer
  BY <1>2, FetchFacts, KnownFacts, AnswerFacts
<1>4. drop => OnChain(saved)
  BY <1>2, KnownFacts
<1> HIDE DEF a, saved
<1>5. b \in Answer /\ b.status = "FAILED" /\ b.confirmed = a.confirmed
  BY <1>3 DEF Answer, Status, Final
<1> HIDE DEF b, drop, old
<1>6. CASE drop
  <2>1. f = [old EXCEPT !.answer = b]
    BY <1>6
  <2> HIDE DEF f
  <2>2. /\ f \in FetchType /\ f.answer = b /\ f.number = old.number
        /\ f.receipt = old.receipt /\ f.block = old.block
    BY <1>2, <1>5, <2>1 DEF FetchType
  <2>3. /\ writes' = writes \cup {[op |-> o, kind |-> "drop", n |-> 0]}
        /\ dropped' = dropped \cup {o} /\ dropped \in SUBSET Ops
    BY <1>1, <1>6 DEF TypeInv
  <2>4. /\ Requested(q, o, f) /\ f.answer \in Answer
        /\ f.answer.status = "FAILED" /\ OnChain(saved)
        /\ f.answer.confirmed = a.confirmed
        /\ dropped' = dropped \cup {o} /\ dropped \subseteq dropped' /\ dropped' \in SUBSET Ops
    BY <1>1, <1>4, <1>5, <1>6, <2>2, <2>3 DEF Requested
  <2> QED BY <2>2, <2>3, <2>4 DEF old, a, saved
<1>7. CASE ~drop
  <2>1. f = [old EXCEPT !.answer = a]
    BY <1>7
  <2> HIDE DEF f
  <2>2. /\ f \in FetchType /\ f.answer = a /\ f.number = old.number
        /\ f.receipt = old.receipt /\ f.block = old.block
    BY <1>2, <1>3, <2>1 DEF FetchType
  <2>3. dropped' = dropped /\ dropped \in SUBSET Ops /\ writes' = writes
    BY <1>1, <1>7 DEF TypeInv
  <2> QED BY <1>1, <1>3, <2>2, <2>3 DEF Requested, old, a, saved
<1> QED BY <1>6, <1>7

\* The count or the error reaches storage, nothing else of the record changes.
LEMMA StoreFacts ==
  ASSUME TypeInv, NEW w \in writes, Store(w)
  PROVE  /\ writes' = writes \ {w} /\ w \in Write
         /\ UNCHANGED <<given, calls, listed, job, chain, answers, unseen>>
         /\ \E g \in Field :
              /\ field' = [field EXCEPT ![w.op] = g]
              /\ g.skipped = field[w.op].skipped /\ g.hash = field[w.op].hash
              /\ g.finished = field[w.op].finished /\ g.confirmed = field[w.op].confirmed
              /\ g.error = field[w.op].error \/ (w.kind = "drop" /\ g.error)
              /\ \/ g.confirmations = field[w.op].confirmations
                 \/ w.kind = "count" /\ g.confirmations = w.n
<1> DEFINE old == field[w.op]
           g == IF w.kind = "count" THEN [old EXCEPT !.confirmations = w.n] ELSE [old EXCEPT !.error = TRUE]
<1>1. w \in Write /\ field \in [Ops -> Field]
  BY DEF TypeInv
<1>2. w.op \in Ops /\ w.n \in Int /\ w.kind \in {"count", "drop"}
  BY <1>1 DEF Write
<1>3. old \in Field
  BY <1>1, <1>2
<1>4. writes' = writes \ {w} /\ UNCHANGED <<given, calls, listed, job, chain, answers, unseen>>
  BY DEF Store
<1>5. CASE UNCHANGED field
  <2>1. field' = [field EXCEPT ![w.op] = old]
    BY <1>1, <1>2, <1>5
  <2> QED BY <1>1, <1>3, <1>4, <2>1
<1>6. CASE field' = [field EXCEPT ![w.op] = g]
  <2>1. CASE w.kind = "count"
    <3>1. /\ g \in Field /\ g.skipped = old.skipped /\ g.hash = old.hash /\ g.finished = old.finished
          /\ g.confirmed = old.confirmed /\ g.error = old.error /\ g.confirmations = w.n
      BY <1>2, <1>3, <2>1 DEF Field
    <3> HIDE DEF g
    <3> QED BY <1>1, <1>4, <1>6, <2>1, <3>1
  <2>2. CASE w.kind = "drop"
    <3>1. /\ g \in Field /\ g.skipped = old.skipped /\ g.hash = old.hash /\ g.finished = old.finished
          /\ g.confirmed = old.confirmed /\ g.error /\ g.confirmations = old.confirmations
      BY <1>3, <2>2 DEF Field
    <3> HIDE DEF g
    <3> QED BY <1>1, <1>4, <1>6, <2>2, <3>1
  <2> QED BY <1>2, <2>1, <2>2
<1> QED BY <1>5, <1>6 DEF Store

-----------------------------------------------------------------------------
(* What the steps of a request change *)

\* What a step of request r does to the others' jobs, to its own and to the record.
JobsMove(r) ==
  /\ job' \in [Requests -> [Ops -> Stages]]
  /\ \A s \in Requests \ {r} : job'[s] = job[s]
  /\ \A o \in Ops :
       /\ job'[r][o] # "none" => job[r][o] # "none" \/ request[r] = "created"
       /\ job[r][o] = "done" => job'[r][o] = "done" \/ request[r] = "created"
  /\ trusted /\ job[r][0] \in {"none", "done"} => job'[r][0] \in {"none", "done"}
  /\ \/ job' = job \/ request'[r] \in {"accepted", "crashed"}
     \/ request'[r] = request[r] /\ \E o \in Ops : job[r][o] # "none"

RequestMoves(r) ==
  /\ request' \in [Requests -> Steps] /\ \A s \in Requests \ {r} : request'[s] = request[s]
  /\ \/ request'[r] = request[r] /\ UNCHANGED <<overlap, listed>>
     \/ /\ request[r] = "new" /\ listed' = listed
        /\ \/ request'[r] = "refused" /\ listed # 0
           \/ request'[r] = "checking" /\ listed = 0
        /\ overlap' = (overlap \/ (listed = 0 /\ \E s \in Requests : request[s] = "checking"))
     \/ request[r] = "checking" /\ request'[r] = "refused" /\ UNCHANGED <<overlap, listed>>
     \/ /\ request[r] = "checking" /\ request'[r] = "created"
        /\ listed' = listed + 1 /\ UNCHANGED overlap
     \/ request[r] = "created" /\ request'[r] = "accepted" /\ UNCHANGED <<overlap, listed>>
     \/ request'[r] = "crashed" /\ UNCHANGED <<overlap, listed>>

Skips == /\ trusted /\ field' \in [Ops -> Field]
         /\ \A o \in Ops \ {0} : field'[o] = field[o]
         /\ field'[0].skipped /\ field'[0].hash = field[0].hash /\ field'[0].error = field[0].error
         /\ field'[0].finished = field[0].finished /\ field'[0].confirmations = field[0].confirmations

LEMMA GoFacts ==
  ASSUME TypeInv, NEW r \in Requests, NEW step \in Steps, Go(r, step)
  PROVE  /\ request' \in [Requests -> Steps] /\ request'[r] = step
         /\ \A s \in Requests \ {r} : request'[s] = request[s]
BY DEF TypeInv, Go

LEMMA SameJobs ==
  ASSUME TypeInv, NEW r \in Requests, UNCHANGED job
  PROVE  JobsMove(r)
BY DEF TypeInv, JobsMove

\* The jobs of r are replaced.
LEMMA JobsReplaced ==
  ASSUME TypeInv, NEW r \in Requests, NEW g \in [Ops -> Stages], job' = [job EXCEPT ![r] = g]
  PROVE  /\ job' \in [Requests -> [Ops -> Stages]] /\ job'[r] = g
         /\ \A s \in Requests \ {r} : job'[s] = job[s]
BY DEF TypeInv

LEMMA RequestEffect ==
  ASSUME TypeInv, NEW r \in Requests, Request(r) \/ Crash(r)
  PROVE  /\ UNCHANGED <<given, writes, chain, answers, unseen>> /\ lost' \in SUBSET Ops
         /\ JobsMove(r) /\ RequestMoves(r)
         /\ UNCHANGED field \/ Skips
<1>1. /\ request \in [Requests -> Steps] /\ job \in [Requests -> [Ops -> Stages]] /\ lost \in SUBSET Ops
      /\ listed \in Nat /\ overlap \in BOOLEAN /\ field \in [Ops -> Field] /\ trusted \in BOOLEAN
  BY DEF TypeInv
<1>2. /\ {"refused", "checking", "created", "accepted", "crashed"} \subseteq Steps
      /\ {"none", "adding", "simulate", "done"} \subseteq Stages
  BY DEF Steps, Stages
<1>3. CASE HasQuote(r)
  <2>1. /\ UNCHANGED <<given, writes, chain, answers, unseen, lost, job, field, listed>>
        /\ request[r] = "new" /\ Go(r, IF listed > 0 THEN "refused" ELSE "checking")
        /\ overlap' = (overlap \/ (listed = 0 /\ \E s \in Requests : request[s] = "checking"))
    BY <1>3 DEF HasQuote, storage
  <2>2. (IF listed > 0 THEN "refused" ELSE "checking") \in Steps
    BY <1>2
  <2>3. /\ request' \in [Requests -> Steps] /\ request'[r] = IF listed > 0 THEN "refused" ELSE "checking"
        /\ \A s \in Requests \ {r} : request'[s] = request[s]
    BY <2>1, <2>2, GoFacts
  <2>4. RequestMoves(r)
    BY <1>1, <2>1, <2>3 DEF RequestMoves
  <2> QED BY <1>1, <2>1, <2>4, SameJobs
<1>4. CASE Refuse(r)
  <2>1. /\ UNCHANGED <<given, writes, chain, answers, unseen, lost, job, field, listed, overlap>>
        /\ request[r] = "checking" /\ Go(r, "refused")
    BY <1>4 DEF Refuse, storage
  <2>2. RequestMoves(r)
    BY <1>2, <2>1, GoFacts DEF RequestMoves
  <2> QED BY <1>1, <2>1, <2>2, SameJobs
<1>5. CASE CreateQuote(r)
  <2>1. /\ UNCHANGED <<given, writes, chain, answers, unseen, lost, job, field, overlap>>
        /\ request[r] = "checking" /\ Go(r, "created") /\ listed' = listed + 1
    BY <1>5 DEF CreateQuote
  <2>2. RequestMoves(r)
    BY <1>2, <2>1, GoFacts DEF RequestMoves
  <2> QED BY <1>1, <2>1, <2>2, SameJobs
<1>6. CASE Schedule(r)
  <2> DEFINE g == [o \in Ops |-> IF o \in Scheduled THEN "adding" ELSE "done"]
  <2>1. /\ UNCHANGED <<given, writes, chain, answers, unseen, lost, field, listed, overlap>>
        /\ request[r] = "created" /\ Go(r, "accepted") /\ job' = [job EXCEPT ![r] = g]
    BY <1>6 DEF Schedule, storage
  <2>2. g \in [Ops -> Stages]
    BY <1>2
  <2>3. trusted => g[0] = "done"
    BY ConstantFacts DEF Scheduled
  <2> HIDE DEF g
  <2>4. RequestMoves(r) /\ request'[r] = "accepted"
    BY <1>2, <2>1, GoFacts DEF RequestMoves
  <2>5. JobsMove(r)
    BY <2>1, <2>2, <2>3, <2>4, JobsReplaced DEF JobsMove
  <2> QED BY <1>1, <2>1, <2>4, <2>5
<1>7. ASSUME NEW u \in Ops, AddJobs(r, ChainOf[u])
      PROVE  /\ UNCHANGED <<given, writes, chain, answers, unseen, field>> /\ lost' \in SUBSET Ops
             /\ JobsMove(r) /\ RequestMoves(r)
  <2> DEFINE S == {o \in Ops : job[r][o] = "adding" /\ ChainOf[o] = ChainOf[u]}
  <2>1. UNCHANGED <<given, request, overlap, storage, chain, answers, unseen>>
    BY <1>7 DEF AddJobs
  <2>2. PICK v \in {"simulate", "done"} :
          /\ job' = [job EXCEPT ![r] = [o \in Ops |-> IF o \in S THEN v ELSE job[r][o]]]
          /\ lost' \in {lost, lost \cup S}
    BY <1>7, Zenon DEF AddJobs
  <2>3. RequestMoves(r)
    BY <1>1, <2>1 DEF RequestMoves, storage
  <2> DEFINE g == [o \in Ops |-> IF o \in S THEN v ELSE job[r][o]]
  <2>4. g \in [Ops -> Stages]
    BY <1>1, <1>2
  <2>5. \A o \in Ops : g[o] = job[r][o] \/ (job[r][o] = "adding" /\ g[o] = v)
    OBVIOUS
  <2>6. S \in SUBSET Ops
    OBVIOUS
  <2>8. job' = [job EXCEPT ![r] = g]
    BY <2>2
  <2>10. request' = request /\ \E o \in Ops : job[r][o] # "none"
    BY <1>7 DEF AddJobs
  <2> HIDE DEF g, S
  <2>9. JobsMove(r)
    BY <2>4, <2>5, <2>8, <2>10, JobsReplaced, ConstantFacts DEF JobsMove
  <2>7. lost' \in SUBSET Ops
    BY <1>1, <2>2, <2>6
  <2> QED BY <2>1, <2>3, <2>7, <2>9 DEF storage
<1>8. CASE MarkSkipped(r)
  <2> DEFINE f == [field[0] EXCEPT !.skipped = TRUE, !.confirmed = TRUE]
  <2>1. /\ UNCHANGED <<given, writes, chain, answers, unseen, lost, job, request, listed, overlap>>
        /\ trusted /\ field' = [field EXCEPT ![0].skipped = TRUE, ![0].confirmed = TRUE]
    BY <1>8 DEF MarkSkipped, calls
  <2>2. field[0] \in Field
    BY <1>1, ConstantFacts
  <2>3. field' = [field EXCEPT ![0] = f]
    BY <1>1, <2>1, <2>2, ConstantFacts DEF Field
  <2>4. /\ f \in Field /\ f.skipped /\ f.hash = field[0].hash /\ f.error = field[0].error
        /\ f.finished = field[0].finished /\ f.confirmations = field[0].confirmations
    BY <2>2 DEF Field
  <2> HIDE DEF f
  <2>5. Skips
    BY <1>1, <2>1, <2>3, <2>4, ConstantFacts DEF Skips
  <2>6. RequestMoves(r)
    BY <1>1, <2>1 DEF RequestMoves
  <2> QED BY <1>1, <2>1, <2>5, <2>6, SameJobs
<1>9. CASE Crash(r)
  <2> DEFINE S == {o \in Ops : job[r][o] = "adding"}
             g == [o \in Ops |-> IF o \in S THEN "done" ELSE job[r][o]]
             A == IF request[r] = "created" THEN Ops ELSE S
             B == IF trusted /\ request[r] = "accepted" THEN {0} ELSE {}
  <2>1. /\ UNCHANGED <<given, overlap, storage, chain, answers, unseen>>
        /\ Go(r, "crashed") /\ job' = [job EXCEPT ![r] = g]
        /\ lost' = lost \cup A \cup B
    BY <1>9 DEF Crash
  <2>2. g \in [Ops -> Stages]
    BY <1>1, <1>2
  <2>3. \A o \in Ops : g[o] = job[r][o] \/ (job[r][o] = "adding" /\ g[o] = "done")
    OBVIOUS
  <2>4. A \in SUBSET Ops /\ B \in SUBSET Ops
    BY ConstantFacts
  <2> HIDE DEF A, B, S, g
  <2>5. RequestMoves(r) /\ request'[r] = "crashed"
    BY <1>2, <2>1, GoFacts DEF RequestMoves, storage
  <2>6. JobsMove(r)
    BY <2>1, <2>2, <2>3, <2>5, JobsReplaced, ConstantFacts DEF JobsMove
  <2>7. lost' \in SUBSET Ops
    BY <1>1, <2>1, <2>4
  <2> QED BY <2>1, <2>5, <2>6, <2>7 DEF storage
<1> QED BY <1>3, <1>4, <1>5, <1>6, <1>7, <1>8, <1>9 DEF Request

-----------------------------------------------------------------------------
(* Every step keeps the types, and what was deep stays deep *)

ChainGrows == height' >= height /\ \A o \in Ops : first[o] # 0 => first'[o] = first[o]

LEMMA ChainEffect ==
  ASSUME TypeInv, ChainInv, NewBlock \/ Reorg \/ \E r \in Requests, o \in Ops : Include(r, o)
  PROVE  /\ UNCHANGED <<given, calls, storage, job, answers, unseen>>
         /\ height' \in Nat /\ block' \in [Ops -> 0..height'] /\ first' \in [Ops -> 0..height']
         /\ sent' \in [Ops -> Requests \cup {None}]
         /\ ChainInv' /\ ChainGrows
<1>1. /\ height \in Nat /\ block \in [Ops -> 0..height] /\ first \in [Ops -> 0..height]
      /\ sent \in [Ops -> Requests \cup {None}]
  BY DEF TypeInv
<1>2. CASE NewBlock
  <2>1. height' = height + 1 /\ UNCHANGED <<given, calls, storage, job, block, sent, first, answers, unseen>>
    BY <1>2 DEF NewBlock
  <2> QED BY <1>1, <2>1 DEF ChainInv, ChainGrows
<1>3. CASE Reorg
  <2>1. UNCHANGED <<given, calls, storage, job, height, sent, first, answers, unseen>>
    BY <1>3 DEF Reorg
  <2>2. PICK b \in 2..height : block' = [o \in Ops |-> IF block[o] >= b THEN 0 ELSE block[o]]
    BY <1>3 DEF Reorg
  <2> QED BY <1>1, <2>1, <2>2 DEF ChainInv, ChainGrows
<1>4. ASSUME NEW r \in Requests, NEW o \in Ops, Include(r, o)
      PROVE  /\ UNCHANGED <<given, calls, storage, job, answers, unseen>>
             /\ height' \in Nat /\ block' \in [Ops -> 0..height'] /\ first' \in [Ops -> 0..height']
             /\ sent' \in [Ops -> Requests \cup {None}]
             /\ ChainInv' /\ ChainGrows
  <2>1. /\ UNCHANGED <<given, calls, storage, job, answers, unseen>>
        /\ height' = height + 1
        /\ block' = [block EXCEPT ![o] = height + 1]
        /\ sent' = [sent EXCEPT ![o] = r]
        /\ first' = [first EXCEPT ![o] = IF first[o] = 0 THEN height + 1 ELSE first[o]]
    BY <1>4 DEF Include
  <2>2. height' \in Nat /\ block' \in [Ops -> 0..height'] /\ sent' \in [Ops -> Requests \cup {None}]
    BY <1>1, <2>1
  <2>3. first' \in [Ops -> 0..height']
    BY <1>1, <2>1
  <2>4. ChainInv' /\ ChainGrows
    BY <1>1, <2>1 DEF ChainInv, ChainGrows
  <2> QED BY <2>1, <2>2, <2>3, <2>4
<1> QED BY <1>2, <1>3, <1>4

\* A step of a query leaves the requests, the jobs, the records and the chain alone.
LEMMA QueryEffect ==
  ASSUME TypeInv, NEW q \in DOMAIN query, Query(q)
  PROVE  /\ UNCHANGED <<given, calls, listed, field, job, chain, unseen>>
         /\ query' \in [DOMAIN query -> QueryType] /\ DOMAIN query' = DOMAIN query
         /\ told' \in [final : SUBSET Ops, sure : SUBSET Ops]
         /\ dropped \subseteq dropped' /\ dropped' \in SUBSET Ops
         /\ writes' \in SUBSET Write
<1>1. /\ query \in [DOMAIN query -> QueryType] /\ told \in [final : SUBSET Ops, sure : SUBSET Ops]
      /\ dropped \in SUBSET Ops /\ writes \in SUBSET Write
  BY DEF TypeInv
<1>2. CASE Ask(q)
  <2>1. UNCHANGED <<given, calls, listed, writes, job, chain, unseen, dropped, field>> /\ Tell(q)
    BY <1>2 DEF Ask, storage
  <2> QED BY <1>1, <1>2, <2>1, AskFacts, TellFacts
<1>3. CASE Close(q)
  <2>1. /\ UNCHANGED <<given, calls, listed, writes, job, chain, unseen, dropped, field, told>>
        /\ query' = [query EXCEPT ![q] = Quiet]
    BY <1>3 DEF Close, storage
  <2> QED BY <1>1, <2>1, QuietFacts
<1>4. ASSUME NEW o \in Ops, GetReceipt(q, o) \/ GetBlockNumber(q, o)
      PROVE  /\ UNCHANGED <<given, calls, listed, writes, job, chain, unseen, dropped, field, told>>
             /\ query' \in [DOMAIN query -> QueryType] /\ DOMAIN query' = DOMAIN query
  <2>1. UNCHANGED <<given, calls, listed, writes, job, chain, unseen, dropped, field, told>>
    BY <1>4 DEF GetReceipt, GetBlockNumber, storage
  <2>2. PICK f : Requested(q, o, f)
    BY <1>4, GetReceiptFacts, GetBlockNumberFacts
  <2> QED BY <2>1, <2>2, FetchMove DEF Requested
<1>5. ASSUME NEW o \in Ops, Resolve(q, o)
      PROVE  /\ UNCHANGED <<given, calls, listed, job, chain, unseen, dropped, field>>
             /\ query' \in [DOMAIN query -> QueryType] /\ DOMAIN query' = DOMAIN query
             /\ told' \in [final : SUBSET Ops, sure : SUBSET Ops] /\ writes' \in SUBSET Write
  <2>1. UNCHANGED <<given, calls, listed, job, chain, unseen, dropped, field>> /\ Tell(q)
    BY <1>5 DEF Resolve
  <2>2. PICK f : \E n \in Int : Requested(q, o, f) /\ writes' = writes \cup {[op |-> o, kind |-> "count", n |-> n]}
    BY <1>5, ResolveFacts
  <2>3. PICK n \in Int : Requested(q, o, f) /\ writes' = writes \cup {[op |-> o, kind |-> "count", n |-> n]}
    BY <2>2
  <2>4. writes' \in SUBSET Write
    BY <1>1, <2>3 DEF Write
  <2> QED BY <2>1, <2>3, <2>4, FetchMove, TellFacts DEF Requested
<1>6. ASSUME NEW o \in Ops, ResolveError(q, o)
      PROVE  /\ UNCHANGED <<given, calls, listed, job, chain, unseen, field>>
             /\ query' \in [DOMAIN query -> QueryType] /\ DOMAIN query' = DOMAIN query
             /\ told' \in [final : SUBSET Ops, sure : SUBSET Ops]
             /\ dropped \subseteq dropped' /\ dropped' \in SUBSET Ops /\ writes' \in SUBSET Write
  <2>1. UNCHANGED <<given, calls, listed, job, chain, unseen, field>> /\ Tell(q)
    BY <1>6 DEF ResolveError
  <2>2. PICK f : /\ Requested(q, o, f) /\ dropped \subseteq dropped' /\ dropped' \in SUBSET Ops
                 /\ writes' = writes \/ writes' = writes \cup {[op |-> o, kind |-> "drop", n |-> 0]}
    BY <1>6, ResolveErrorFacts
  <2>3. writes' \in SUBSET Write
    BY <1>1, <2>2 DEF Write
  <2> QED BY <2>1, <2>2, <2>3, FetchMove, TellFacts DEF Requested
<1> QED BY <1>1, <1>2, <1>3, <1>4, <1>5, <1>6 DEF Query

LEMMA TypeStep ==
  ASSUME TypeInv, ChainInv, [Next]_vars
  PROVE  TypeInv' /\ ChainInv' /\ ChainGrows /\ UNCHANGED given
         /\ unseen \subseteq unseen' /\ dropped \subseteq dropped' /\ DOMAIN query' = DOMAIN query
<1>1. /\ trusted \in BOOLEAN /\ succeeds \in BOOLEAN /\ overlap \in BOOLEAN /\ listed \in Nat
      /\ request \in [Requests -> Steps]
      /\ job \in [Requests -> [Ops -> Stages]] /\ field \in [Ops -> Field]
      /\ height \in Nat /\ block \in [Ops -> 0..height] /\ first \in [Ops -> 0..height]
      /\ sent \in [Ops -> Requests \cup {None}]
      /\ lost \in SUBSET Ops /\ unseen \in SUBSET Ops /\ dropped \in SUBSET Ops
      /\ told \in [final : SUBSET Ops, sure : SUBSET Ops] /\ writes \in SUBSET Write
      /\ query \in [DOMAIN query -> QueryType]
  BY DEF TypeInv
<1>2. ASSUME NEW r \in Requests, Request(r) \/ Crash(r)
      PROVE  TypeInv' /\ ChainInv' /\ ChainGrows /\ UNCHANGED <<given, unseen, dropped, query>>
  <2>1. /\ UNCHANGED <<given, writes, chain, answers, unseen>> /\ lost' \in SUBSET Ops
        /\ JobsMove(r) /\ RequestMoves(r) /\ (UNCHANGED field \/ Skips)
    BY <1>2, RequestEffect
  <2>2. overlap' \in BOOLEAN /\ listed' \in Nat /\ request' \in [Requests -> Steps]
    <3>1. listed' \in Nat
      BY <1>1, <2>1 DEF RequestMoves
    <3>2. overlap' = overlap \/ overlap' = (overlap \/ (listed = 0 /\ \E s \in Requests : request[s] = "checking"))
      BY <2>1 DEF RequestMoves
    <3>3. overlap' \in BOOLEAN
      BY <1>1, <3>2
    <3> QED BY <2>1, <3>1, <3>3 DEF RequestMoves
  <2>3. job' \in [Requests -> [Ops -> Stages]] /\ field' \in [Ops -> Field]
    BY <1>1, <2>1 DEF JobsMove, Skips
  <2>4. UNCHANGED <<given, writes, height, block, sent, first, query, told, dropped, unseen, trusted, succeeds>>
    BY <2>1 DEF chain, answers, given
  <2>5. TypeInv'
    BY <1>1, <2>1, <2>2, <2>3, <2>4 DEF TypeInv
  <2> QED BY <1>1, <2>4, <2>5 DEF ChainInv, ChainGrows
<1>3. ASSUME NEW r \in Requests, NEW o \in Ops, Job(r, o)
      PROVE  TypeInv' /\ ChainInv' /\ ChainGrows /\ unseen \subseteq unseen' /\ UNCHANGED <<given, dropped, query>>
  <2>1. /\ job' \in [Requests -> [Ops -> Stages]]
        /\ unseen \subseteq unseen' /\ unseen' \subseteq unseen \cup {o}
        /\ UNCHANGED <<given, calls, listed, writes, chain, answers>>
    BY <1>3, JobEffect
  <2>2. PICK g : Writes(r, o, g)
    BY <1>3, JobEffect
  <2>3. field' \in [Ops -> Field]
    BY <1>1, <2>2 DEF Writes
  <2>4. UNCHANGED <<trusted, succeeds, request, overlap, lost, writes, height, block, sent, first, query, told, dropped>>
    BY <2>1 DEF chain, answers, given, calls
  <2>5. unseen' \in SUBSET Ops
    BY <1>1, <2>1
  <2>6. TypeInv'
    BY <1>1, <2>1, <2>3, <2>4, <2>5 DEF TypeInv
  <2> QED BY <1>1, <2>1, <2>4, <2>6 DEF ChainInv, ChainGrows
<1>4. CASE NewBlock \/ Reorg \/ \E r \in Requests, o \in Ops : Include(r, o)
  <2>1. /\ UNCHANGED <<given, calls, storage, job, answers, unseen>>
        /\ height' \in Nat /\ block' \in [Ops -> 0..height'] /\ first' \in [Ops -> 0..height']
        /\ sent' \in [Ops -> Requests \cup {None}]
        /\ ChainInv' /\ ChainGrows
    BY <1>4, ChainEffect
  <2>2. UNCHANGED <<trusted, succeeds, request, overlap, lost, listed, field, writes, job, query, told, dropped, unseen>>
    BY <2>1 DEF storage, answers, given, calls
  <2>3. TypeInv'
    BY <1>1, <2>1, <2>2 DEF TypeInv
  <2> QED BY <2>1, <2>2, <2>3
<1>5. ASSUME NEW q \in DOMAIN query, Query(q)
      PROVE  /\ TypeInv' /\ ChainInv' /\ ChainGrows /\ UNCHANGED <<given, unseen>>
             /\ dropped \subseteq dropped' /\ DOMAIN query' = DOMAIN query
  <2>1. /\ UNCHANGED <<given, calls, listed, field, job, chain, unseen>>
        /\ query' \in [DOMAIN query -> QueryType] /\ DOMAIN query' = DOMAIN query
        /\ told' \in [final : SUBSET Ops, sure : SUBSET Ops]
        /\ dropped \subseteq dropped' /\ dropped' \in SUBSET Ops
        /\ writes' \in SUBSET Write
    BY <1>5, QueryEffect
  <2>2. UNCHANGED <<trusted, succeeds, request, overlap, lost, listed, field, job, height, block, sent, first, unseen>>
    BY <2>1 DEF chain, given, calls
  <2>3. TypeInv'
    BY <1>1, <2>1, <2>2 DEF TypeInv
  <2> QED BY <1>1, <2>1, <2>2, <2>3 DEF ChainInv, ChainGrows
<1>6. CASE UNCHANGED vars
  <2>1. UNCHANGED <<trusted, succeeds, request, overlap, lost, listed, field, writes, job, height, block, sent, first, query, told, dropped, unseen>>
    BY <1>6 DEF vars, chain, given, calls, storage, answers
  <2> QED BY <1>1, <2>1 DEF TypeInv, ChainInv, ChainGrows, given
<1>7. ASSUME NEW w \in writes, Store(w)
      PROVE  TypeInv' /\ ChainInv' /\ ChainGrows /\ UNCHANGED <<given, unseen, dropped, query>>
  <2>1. /\ UNCHANGED <<given, calls, listed, job, chain, answers, unseen>> /\ writes' \in SUBSET Write
        /\ field' \in [Ops -> Field]
    BY <1>1, <1>7, StoreFacts
  <2>2. UNCHANGED <<trusted, succeeds, request, overlap, lost, listed, job, height, block, sent, first, query, told, dropped, unseen>>
    BY <2>1 DEF chain, answers, given, calls
  <2>3. TypeInv'
    BY <1>1, <2>1, <2>2 DEF TypeInv
  <2> QED BY <1>1, <2>1, <2>2, <2>3 DEF ChainInv, ChainGrows
<1> QED BY <1>2, <1>3, <1>4, <1>5, <1>6, <1>7 DEF Next

-----------------------------------------------------------------------------
(* Requests: how often the list is pushed and a userOp queued *)

Stored == {r \in Requests : request[r] \in {"created", "accepted", "crashed"}}

CountInv == listed <= Cardinality(Stored)

\* Jobs are there once the request has scheduled them.
StageInv == \A r \in Requests : \A o \in Ops :
              request[r] \in {"absent", "new", "checking", "created", "refused"} => job[r][o] = "none"

Queued(r) == request[r] \in {"created", "accepted"} \/ \E o \in Ops : job[r][o] # "none"

\* Requests that did not overlap: one looked for the quote at a time, before any had
\* stored it, and one at most has stored it.
SerialInv == ~overlap =>
  /\ \A r, s \in Requests : request[r] = "checking" /\ request[s] = "checking" => r = s
  /\ (\E r \in Requests : request[r] = "checking") => listed = 0
  /\ listed = 0 => \A r \in Requests : ~Queued(r)
  /\ listed <= 1
  /\ \A r, s \in Requests : Queued(r) /\ Queued(s) => r = s

LEMMA RequestInit == Init => CountInv /\ StageInv /\ SerialInv
<1> SUFFICES ASSUME Init PROVE CountInv /\ StageInv /\ SerialInv
  OBVIOUS
<1>1. \A r \in Requests : request[r] \in {"new", "absent"}
  BY DEF Init
<1>2. listed = 0 /\ \A r \in Requests : \A o \in Ops : job[r][o] = "none"
  BY DEF Init
<1>3. IsFiniteSet(Stored)
  BY ConstantFacts, FS_Subset DEF Stored
<1> DEFINE n == Cardinality(Stored)
<1>4. n \in Nat
  BY <1>3, FS_CardinalityType
<1> HIDE DEF n
<1>5. 0 <= n
  BY <1>4
<1>6. CountInv
  BY <1>2, <1>5 DEF CountInv, n
<1>7. StageInv
  BY <1>2 DEF StageInv
<1>8. \A r \in Requests : ~Queued(r) /\ request[r] # "checking"
  BY <1>1, <1>2 DEF Queued
<1> QED BY <1>2, <1>6, <1>7, <1>8 DEF SerialInv

\* What does not touch requests or the list, and works on jobs that are there.
LEMMA RequestSame ==
  ASSUME TypeInv, CountInv, StageInv, SerialInv, UNCHANGED <<request, listed, overlap>>,
         \A r \in Requests : \A o \in Ops : job'[r][o] = job[r][o] \/ (job[r][o] # "none" /\ job'[r][o] # "none")
  PROVE  CountInv' /\ StageInv' /\ SerialInv'
<1>1. Stored' = Stored
  BY DEF Stored
<1>2. CountInv'
  BY <1>1 DEF CountInv
<1>3. StageInv'
  BY DEF StageInv
<1>4. \A r \in Requests : Queued(r)' <=> Queued(r)
  BY DEF Queued
<1> QED BY <1>2, <1>3, <1>4 DEF SerialInv

LEMMA RequestCount ==
  ASSUME TypeInv, CountInv, NEW r \in Requests, RequestMoves(r)
  PROVE  CountInv'
<1> DEFINE m == Cardinality(Stored)
           n == Cardinality(Stored')
<1>1. IsFiniteSet(Stored) /\ IsFiniteSet(Stored')
  <2>1. Stored \subseteq Requests /\ Stored' \subseteq Requests
    BY DEF Stored
  <2> QED BY <2>1, ConstantFacts, FS_Subset
<1>2. Stored \subseteq Stored'
  BY DEF Stored, RequestMoves, TypeInv
<1>3. m \in Nat /\ n \in Nat /\ m <= n
  BY <1>1, <1>2, FS_CardinalityType, FS_Subset
<1>4. CASE listed' = listed
  <2> HIDE DEF m, n
  <2>1. listed <= m /\ listed \in Nat
    BY DEF CountInv, m, TypeInv
  <2>2. listed' <= n
    BY <1>3, <1>4, <2>1
  <2> QED BY <2>2 DEF CountInv, n
<1>5. CASE request[r] = "checking" /\ request'[r] = "created" /\ listed' = listed + 1
  <2>1. r \in Stored' /\ r \notin Stored
    BY <1>5 DEF Stored
  <2>2. Cardinality(Stored \cup {r}) = m + 1
    BY <1>1, <2>1, FS_AddElement
  <2>3. Stored \cup {r} \subseteq Stored'
    BY <1>2, <2>1
  <2>4. Cardinality(Stored \cup {r}) <= n
    BY <1>1, <2>3, FS_Subset
  <2> HIDE DEF m, n
  <2>5. m + 1 <= n
    BY <2>2, <2>4
  <2>6. listed <= m /\ listed \in Nat
    BY DEF CountInv, m, TypeInv
  <2>7. listed' <= n
    BY <1>3, <1>5, <2>5, <2>6
  <2> QED BY <2>7 DEF CountInv, n
<1> QED BY <1>4, <1>5 DEF RequestMoves

LEMMA RequestSerial ==
  ASSUME TypeInv, StageInv, SerialInv, NEW r \in Requests, RequestMoves(r), JobsMove(r)
  PROVE  StageInv' /\ SerialInv'
<1>1. StageInv'
  <2> SUFFICES ASSUME NEW s \in Requests, NEW o \in Ops,
                      request'[s] \in {"absent", "new", "checking", "created", "refused"}
               PROVE  job'[s][o] = "none"
    BY DEF StageInv
  <2>1. CASE s # r
    BY <2>1 DEF StageInv, RequestMoves, JobsMove
  <2>2. CASE s = r
    <3>1. request[r] \in {"absent", "new", "checking", "created", "refused"}
      BY <2>2 DEF RequestMoves
    <3>2. \A u \in Ops : job[r][u] = "none"
      BY <3>1 DEF StageInv
    <3>3. job' = job
      BY <2>2, <3>2 DEF JobsMove
    <3> QED BY <2>2, <3>2, <3>3
  <2> QED BY <2>1, <2>2
<1>2. ASSUME ~overlap' PROVE ~overlap
  BY <1>2 DEF RequestMoves, TypeInv
<1>3. \A s \in Requests : s # r => request'[s] = request[s] /\ (Queued(s)' <=> Queued(s))
  BY DEF RequestMoves, JobsMove, Queued
<1>4. Queued(r)' => Queued(r) \/ (request[r] = "checking" /\ request'[r] = "created")
  <2>1. (\E o \in Ops : job'[r][o] # "none") => Queued(r)
    BY DEF JobsMove, Queued
  <2>2. request'[r] \in {"created", "accepted"} =>
           request[r] \in {"created", "accepted"} \/ (request[r] = "checking" /\ request'[r] = "created")
    BY DEF RequestMoves
  <2> QED BY <2>1, <2>2 DEF Queued
<1>5. SerialInv'
  <2> SUFFICES ASSUME ~overlap'
               PROVE  /\ \A s, t \in Requests : request'[s] = "checking" /\ request'[t] = "checking" => s = t
                      /\ (\E s \in Requests : request'[s] = "checking") => listed' = 0
                      /\ listed' = 0 => \A s \in Requests : ~Queued(s)'
                      /\ listed' <= 1
                      /\ \A s, t \in Requests : Queued(s)' /\ Queued(t)' => s = t
    BY DEF SerialInv
  <2>1. /\ \A s, t \in Requests : request[s] = "checking" /\ request[t] = "checking" => s = t
        /\ (\E s \in Requests : request[s] = "checking") => listed = 0
        /\ listed = 0 => \A s \in Requests : ~Queued(s)
        /\ listed <= 1
        /\ \A s, t \in Requests : Queued(s) /\ Queued(t) => s = t
    BY <1>2 DEF SerialInv
  <2>2. listed \in Nat
    BY DEF TypeInv
  <2>3. CASE request[r] = "checking" /\ request'[r] = "created" /\ listed' = listed + 1
    <3>1. listed = 0 /\ listed' = 1 /\ \A s \in Requests : ~Queued(s)
      BY <2>1, <2>2, <2>3
    <3>2. \A s \in Requests : request'[s] # "checking"
      BY <1>3, <2>1, <2>3
    <3>3. \A s \in Requests : Queued(s)' => s = r
      BY <1>3, <3>1
    <3> QED BY <3>1, <3>2, <3>3
  <2>4. CASE /\ request[r] = "new" /\ request'[r] = "checking" /\ listed = 0 /\ listed' = 0
             /\ overlap' = (overlap \/ (listed = 0 /\ \E s \in Requests : request[s] = "checking"))
    <3>1. \A s \in Requests : request[s] # "checking"
      BY <2>4
    <3>2. \A s \in Requests : request'[s] = "checking" => s = r
      BY <1>3, <3>1
    <3>3. \A s \in Requests : ~Queued(s)'
      BY <1>3, <1>4, <2>1, <2>4
    <3> QED BY <2>4, <3>2, <3>3
  <2>5. CASE listed' = listed /\ (request'[r] = "checking" => request[r] = "checking") /\ (Queued(r)' => Queued(r))
    <3>1. \A s \in Requests : (request'[s] = "checking" => request[s] = "checking") /\ (Queued(s)' => Queued(s))
      BY <1>3, <2>5
    <3> QED BY <2>1, <2>5, <3>1
  <2> QED BY <1>4, <2>3, <2>4, <2>5 DEF RequestMoves
<1> QED BY <1>1, <1>5

LEMMA RequestStep ==
  ASSUME TypeInv, ChainInv, CountInv, StageInv, SerialInv, [Next]_vars
  PROVE  CountInv' /\ StageInv' /\ SerialInv'
<1>1. ASSUME NEW r \in Requests, Request(r) \/ Crash(r) PROVE CountInv' /\ StageInv' /\ SerialInv'
  BY <1>1, RequestEffect, RequestCount, RequestSerial
<1>2. ASSUME NEW r \in Requests, NEW o \in Ops, Job(r, o) PROVE CountInv' /\ StageInv' /\ SerialInv'
  <2>1. /\ job[r][o] \notin {"none", "adding", "done"}
        /\ job'[r][o] \notin {"none", "adding"}
        /\ \A s \in Requests, p \in Ops : s # r \/ p # o => job'[s][p] = job[s][p]
        /\ UNCHANGED <<calls, listed>>
    BY <1>2, JobEffect
  <2>2. UNCHANGED <<request, listed, overlap>>
    BY <2>1 DEF calls
  <2>3. \A s \in Requests : \A p \in Ops : job'[s][p] = job[s][p] \/ (job[s][p] # "none" /\ job'[s][p] # "none")
    BY <2>1
  <2> QED BY <2>2, <2>3, RequestSame
<1>3. CASE NewBlock \/ Reorg \/ \E r \in Requests, o \in Ops : Include(r, o)
  <2>1. UNCHANGED <<calls, storage, job>>
    BY <1>3, ChainEffect
  <2> QED BY <2>1, RequestSame DEF calls, storage
<1>4. ASSUME NEW q \in DOMAIN query, Query(q) PROVE CountInv' /\ StageInv' /\ SerialInv'
  <2>1. UNCHANGED <<calls, listed, job>>
    BY <1>4, QueryEffect
  <2> QED BY <2>1, RequestSame DEF calls
<1>5. CASE UNCHANGED vars
  <2>1. UNCHANGED <<request, overlap, listed, job>>
    BY <1>5 DEF vars, calls, storage
  <2> QED BY <2>1, RequestSame
<1>6. ASSUME NEW w \in writes, Store(w) PROVE CountInv' /\ StageInv' /\ SerialInv'
  <2>1. UNCHANGED <<calls, listed, job>>
    BY <1>6, StoreFacts
  <2> QED BY <2>1, RequestSame DEF calls
<1> QED BY <1>1, <1>2, <1>3, <1>4, <1>5, <1>6 DEF Next

LEMMA QueuedFollows == TypeInv /\ SerialInv => QueuedOnce
<1> SUFFICES ASSUME TypeInv, SerialInv, ~overlap
             PROVE  /\ listed <= 1
                    /\ \A o \in Ops : Cardinality({r \in Requests : job[r][o] \notin {"none", "done"}}) <= 1
  BY DEF QueuedOnce
<1>1. listed <= 1
  BY DEF SerialInv
<1>2. ASSUME NEW o \in Ops PROVE Cardinality({r \in Requests : job[r][o] \notin {"none", "done"}}) <= 1
  <2> DEFINE S == {r \in Requests : job[r][o] \notin {"none", "done"}}
  <2>1. \A r, s \in S : r = s
    BY DEF SerialInv, Queued
  <2> HIDE DEF S
  <2>2. CASE S = {}
    <3>1. Cardinality(S) = 0
      BY <2>2, FS_EmptySet
    <3> QED BY <3>1 DEF S
  <2>3. CASE S # {}
    <3>1. PICK r \in S : TRUE
      BY <2>3
    <3>2. S = {r}
      BY <2>1, <3>1
    <3>3. Cardinality(S) = 1
      BY <3>2, FS_Singleton
    <3> QED BY <3>3 DEF S
  <2> QED BY <2>2, <2>3
<1> QED BY <1>1, <1>2

LEMMA TypeFollows == TypeInv /\ CountInv => TypeOK
<1> SUFFICES ASSUME TypeInv, CountInv PROVE TypeOK
  OBVIOUS
<1>1. listed \in 0..Cardinality(Requests)
  <2> DEFINE m == Cardinality(Stored)
             n == Cardinality(Requests)
  <2>1. IsFiniteSet(Stored) /\ Stored \subseteq Requests
    BY ConstantFacts, FS_Subset DEF Stored
  <2>2. m \in Nat /\ n \in Nat /\ m <= n
    BY <2>1, ConstantFacts, FS_CardinalityType, FS_Subset
  <2>3. listed <= m /\ listed \in Nat
    BY DEF CountInv, TypeInv
  <2> HIDE DEF m, n
  <2>4. listed \in 0..n
    BY <2>2, <2>3
  <2> QED BY <2>4 DEF n
<1>2. \A q \in DOMAIN query, o \in Ops : Fetch(q, o).answer \in Answer \cup {None}
  BY FetchFacts
<1>3. lost \cup unseen \cup dropped \cup told.final \cup told.sure \subseteq Ops
  BY DEF TypeInv
<1> QED BY <1>1, <1>2, <1>3 DEF TypeInv, TypeOK, Steps

-----------------------------------------------------------------------------
(* Confirmations: what is counted was built *)

\* With the chain at height h, block b was followed by n - 1 more.
Built(h, b, n) == b # 0 /\ n <= h - b + 1

\* The record f, of a userOp first in block b, claims no confirmations that it does not have.
Claims(h, b, f) == /\ f.confirmed /\ ~f.skipped => f.hash /\ f.finished /\ Built(h, b, WaitConfirmations)
                   /\ f.confirmations > 0 => Built(h, b, f.confirmations)

\* The request f knows of blocks that were there.
Counts(h, b, f) == /\ f.receipt = "found" => b # 0 /\ b <= f.block
                   /\ f.number <= h

\* The answer a, on o to a query for n.
Honest(h, b, o, n, a) == a # None /\ a.status # "SKIPPED" /\ a.confirmed =>
                           Built(h, b, WaitConfirmations) /\ (Custom(o, n) => Built(h, b, n))

WritesHonest == \A w \in writes : w.kind = "count" /\ w.n > 0 => Built(height, first[w.op], w.n)

RecordsHonest == \A o \in Ops : o \notin unseen => Claims(height, first[o], field[o])

CountsHonest  == \A q \in DOMAIN query : \A o \in Ops : Counts(height, first[o], query[q].fetch[o])
SnapsHonest   == \A q \in DOMAIN query : \A o \in Ops :
                   o \notin unseen => Claims(height, first[o], query[q].snap[o])
AnswersHonest == \A q \in DOMAIN query : \A o \in Ops :
                   o \notin unseen => Honest(height, first[o], o, query[q].asked, query[q].fetch[o].answer)

DepthInv == RecordsHonest /\ WritesHonest /\ CountsHonest /\ SnapsHonest /\ AnswersHonest

\* The chain goes from height h to k, and first blocks from b to c.
Older(h, k, b, c) == h \in Nat /\ k \in Nat /\ b \in Nat /\ c \in Nat /\ h <= k /\ (b # 0 => c = b)

LEMMA StaysBuilt ==
  ASSUME NEW h, NEW k, NEW b, NEW c, Older(h, k, b, c), NEW n \in Int, Built(h, b, n)
  PROVE  Built(k, c, n)
BY DEF Older, Built

LEMMA ClaimsStay ==
  ASSUME NEW h, NEW k, NEW b, NEW c, Older(h, k, b, c), NEW f \in Field, Claims(h, b, f)
  PROVE  Claims(k, c, f)
<1>1. f.confirmations \in Int /\ WaitConfirmations \in Int
  BY ConstantFacts DEF Field
<1> QED BY <1>1, StaysBuilt DEF Claims

LEMMA CountsStay ==
  ASSUME NEW h, NEW k, NEW b, NEW c, Older(h, k, b, c), NEW f \in FetchType, Counts(h, b, f)
  PROVE  Counts(k, c, f)
<1>1. f.number \in Nat /\ f.block \in Nat
  BY DEF FetchType
<1> QED BY <1>1 DEF Counts, Older

LEMMA HonestStays ==
  ASSUME NEW h, NEW k, NEW b, NEW c, Older(h, k, b, c), NEW o \in Ops, NEW n \in Nat, NEW a,
         Honest(h, b, o, n, a)
  PROVE  Honest(k, c, o, n, a)
BY ConstantFacts, StaysBuilt DEF Honest

\* What is derived from a record that claims no more than it has.
LEMMA DerivedHonest ==
  ASSUME NEW h, NEW b, NEW f \in Field, Claims(h, b, f), NEW o \in Ops, NEW n \in Nat, NEW k \in Int,
         h \in Nat, b \in Nat, k > 0 => k = Known(f) \/ Built(h, b, k)
  PROVE  Honest(h, b, o, n, AnswerOf(f, o, n, k))
<1> DEFINE a == AnswerOf(f, o, n, k)
<1> SUFFICES ASSUME a.status # "SKIPPED", a.confirmed
             PROVE  Built(h, b, WaitConfirmations) /\ (Custom(o, n) => Built(h, b, n))
  BY DEF Honest
<1>1. /\ f.confirmed /\ ~f.skipped /\ f.hash /\ f.finished /\ Built(h, b, WaitConfirmations)
      /\ OnChain(f) /\ Custom(o, n) => k >= n
  BY AnswerFacts, StatusFacts DEF Claims
<1>2. OnChain(f)
  BY <1>1, StatusFacts
<1>3. ASSUME Custom(o, n) PROVE Built(h, b, n)
  <2>1. n > WaitConfirmations /\ k >= n /\ WaitConfirmations \in Nat
    BY <1>1, <1>2, <1>3, ConstantFacts DEF Custom
  <2>2. Built(h, b, k)
    <3>1. CASE k = Known(f)
      <4>1. k = f.confirmations /\ k > 0
        BY <2>1, <3>1, KnownFacts
      <4> QED BY <4>1 DEF Claims
    <3> QED BY <2>1, <3>1
  <2> QED BY <2>1, <2>2 DEF Built
<1> QED BY <1>1, <1>3

LEMMA OlderFacts ==
  ASSUME TypeInv, TypeInv', ChainGrows, NEW o \in Ops
  PROVE  Older(height, height', first[o], first'[o])
BY DEF TypeInv, ChainGrows, Older

LEMMA DepthInit == Init => DepthInv
<1> SUFFICES ASSUME Init PROVE DepthInv
  OBVIOUS
<1>1. height = 1 /\ writes = {} /\ \A o \in Ops : field[o] = NoField /\ first[o] = 0
  BY DEF Init
<1>2. \A q \in DOMAIN query : query[q] = Quiet
  BY DEF Init
<1>3. \A q \in DOMAIN query : \A o \in Ops : query[q].snap[o] = NoField /\ query[q].fetch[o] = Unasked
  BY <1>2, QuietFacts
<1>4. Claims(1, 0, NoField)
  BY NoFieldFacts DEF Claims
<1>5. Counts(1, 0, Unasked)
  BY QuietFacts DEF Counts
<1>6. ASSUME NEW o, NEW n PROVE Honest(1, 0, o, n, Unasked.answer)
  BY QuietFacts DEF Honest
<1> QED BY <1>1, <1>3, <1>4, <1>5, <1>6 DEF DepthInv, RecordsHonest, WritesHonest, CountsHonest, SnapsHonest, AnswersHonest

LEMMA RecordsKept ==
  ASSUME TypeInv, TypeInv', ChainGrows, unseen \subseteq unseen', RecordsHonest,
         NEW o \in Ops, o \notin unseen', field'[o] = field[o]
  PROVE  Claims(height', first'[o], field'[o])
<1>1. field[o] \in Field /\ Claims(height, first[o], field[o])
  BY DEF TypeInv, RecordsHonest
<1> QED BY <1>1, OlderFacts, ClaimsStay

\* What is left to write stays true, and so does what is added to it.
LEMMA WritesKept ==
  ASSUME TypeInv, TypeInv', ChainGrows, WritesHonest,
         \A w \in writes' \ writes : w.kind = "count" => Built(height, first[w.op], w.n)
  PROVE  WritesHonest'
<1> SUFFICES ASSUME NEW w \in writes', w.kind = "count", w.n > 0
             PROVE  Built(height', first'[w.op], w.n)
  BY DEF WritesHonest
<1>1. w.op \in Ops /\ w.n \in Int
  BY DEF TypeInv, Write
<1>2. Built(height, first[w.op], w.n)
  BY DEF WritesHonest
<1> QED BY <1>1, <1>2, OlderFacts, StaysBuilt

\* A query that is not touched keeps what is said of it.
LEMMA QueryKept ==
  ASSUME TypeInv, TypeInv', ChainGrows, unseen \subseteq unseen', CountsHonest, SnapsHonest, AnswersHonest,
         NEW q \in DOMAIN query, NEW o \in Ops
  PROVE  /\ Counts(height', first'[o], query[q].fetch[o])
         /\ o \notin unseen' => /\ Claims(height', first'[o], query[q].snap[o])
                                /\ Honest(height', first'[o], o, query[q].asked, query[q].fetch[o].answer)
<1>1. query[q].snap[o] \in Field /\ query[q].fetch[o] \in FetchType /\ query[q].asked \in Nat
  BY FetchFacts DEF Fetch
<1>2. Older(height, height', first[o], first'[o])
  BY OlderFacts
<1>3. Counts(height', first'[o], query[q].fetch[o])
  BY <1>1, <1>2, CountsStay DEF CountsHonest
<1>4. ASSUME o \notin unseen'
      PROVE  /\ Claims(height', first'[o], query[q].snap[o])
             /\ Honest(height', first'[o], o, query[q].asked, query[q].fetch[o].answer)
  <2>1. Claims(height, first[o], query[q].snap[o]) /\ Honest(height, first[o], o, query[q].asked, query[q].fetch[o].answer)
    BY <1>4 DEF SnapsHonest, AnswersHonest
  <2> QED BY <1>1, <1>2, <2>1, ClaimsStay, HonestStays
<1> QED BY <1>3, <1>4

LEMMA QueriesKept ==
  ASSUME TypeInv, TypeInv', ChainGrows, unseen \subseteq unseen', CountsHonest, SnapsHonest, AnswersHonest,
         UNCHANGED query
  PROVE  CountsHonest' /\ SnapsHonest' /\ AnswersHonest'
BY QueryKept DEF CountsHonest, SnapsHonest, AnswersHonest

\* One request of a query moves.
LEMMA QueryMoves ==
  ASSUME TypeInv, TypeInv', ChainGrows, unseen \subseteq unseen', CountsHonest, SnapsHonest, AnswersHonest,
         NEW q \in DOMAIN query, NEW o \in Ops, NEW f, Requested(q, o, f),
         Counts(height', first'[o], f),
         o \notin unseen' => Honest(height', first'[o], o, query[q].asked, f.answer)
  PROVE  CountsHonest' /\ SnapsHonest' /\ AnswersHonest'
<1>1. /\ DOMAIN query' = DOMAIN query
      /\ \A p \in DOMAIN query : query'[p].asked = query[p].asked /\ query'[p].snap = query[p].snap
      /\ \A p \in DOMAIN query : \A u \in Ops :
           query'[p].fetch[u] = IF p = q /\ u = o THEN f ELSE query[p].fetch[u]
  BY FetchMove DEF Requested
<1>2. ASSUME NEW p \in DOMAIN query', NEW u \in Ops
      PROVE  /\ Counts(height', first'[u], query'[p].fetch[u])
             /\ u \notin unseen' => /\ Claims(height', first'[u], query'[p].snap[u])
                                    /\ Honest(height', first'[u], u, query'[p].asked, query'[p].fetch[u].answer)
  <2>1. p \in DOMAIN query
    BY <1>1
  <2>2. /\ Counts(height', first'[u], query[p].fetch[u])
        /\ u \notin unseen' => /\ Claims(height', first'[u], query[p].snap[u])
                               /\ Honest(height', first'[u], u, query[p].asked, query[p].fetch[u].answer)
    BY <2>1, QueryKept
  <2>3. query'[p].asked = query[p].asked /\ query'[p].snap = query[p].snap
    BY <1>1, <2>1
  <2>4. CASE p = q /\ u = o
    <3>1. query'[p].fetch[u] = f
      BY <1>1, <2>1, <2>4
    <3> QED BY <2>2, <2>3, <2>4, <3>1
  <2>5. CASE ~(p = q /\ u = o)
    <3>1. query'[p].fetch[u] = query[p].fetch[u]
      BY <1>1, <2>1, <2>5
    <3> QED BY <2>2, <2>3, <3>1
  <2> QED BY <2>4, <2>5
<1> QED BY <1>2 DEF CountsHonest, SnapsHonest, AnswersHonest

LEMMA DepthOfQuery ==
  ASSUME TypeInv, TypeInv', ChainGrows, DepthInv, UNCHANGED <<height, first, unseen>>,
         NEW q \in DOMAIN query, NEW o \in Ops,
         GetReceipt(q, o) \/ GetBlockNumber(q, o) \/ Resolve(q, o) \/ ResolveError(q, o),
         ChainInv
  PROVE  WritesHonest' /\ CountsHonest' /\ SnapsHonest' /\ AnswersHonest'
<1> USE DEF DepthInv
<1> DEFINE old == Fetch(q, o)
           saved == query[q].snap[o]
           n == query[q].asked
<1>1. /\ old \in FetchType /\ saved \in Field /\ n \in Nat /\ height \in Nat /\ first[o] \in Nat
      /\ block[o] \in Nat /\ old.number \in Nat /\ old.block \in Nat
  BY FetchFacts DEF TypeInv
<1>2. Counts(height, first[o], old)
  BY DEF CountsHonest, Fetch
<1>3. o \notin unseen => Claims(height, first[o], saved) /\ Honest(height, first[o], o, n, old.answer)
  BY DEF SnapsHonest, AnswersHonest, Fetch
<1> DEFINE New == \A w \in writes' \ writes : w.kind = "count" => Built(height, first[w.op], w.n)
           Moved == \E f : /\ Requested(q, o, f) /\ Counts(height, first[o], f)
                           /\ o \notin unseen => Honest(height, first[o], o, n, f.answer)
<1> SUFFICES New /\ Moved
  BY QueryMoves, WritesKept
<1>4. ASSUME NEW k, k = None PROVE Honest(height, first[o], o, n, k)
  BY <1>4 DEF Honest
<1> HIDE DEF old, saved, n
<1>5. CASE GetReceipt(q, o)
  <2>1. PICK f : /\ Requested(q, o, f)
                 /\ f.answer = None /\ f.number = old.number
                 /\ f.receipt = "found" => block[o] # 0 /\ f.block = block[o]
    BY <1>5, GetReceiptFacts DEF old
  <2>2. Counts(height, first[o], f)
    BY <1>2, <2>1 DEF Counts, ChainInv
  <2>3. New
    BY <1>5 DEF GetReceipt, storage
  <2> QED BY <1>4, <2>1, <2>2, <2>3
<1>6. CASE GetBlockNumber(q, o)
  <2>1. PICK f : /\ Requested(q, o, f)
                 /\ f.answer = None /\ f.receipt = old.receipt
                 /\ f.block = old.block /\ f.number <= height
    BY <1>6, GetBlockNumberFacts DEF old
  <2>2. Counts(height, first[o], f)
    BY <1>2, <2>1 DEF Counts
  <2>3. New
    BY <1>6 DEF GetBlockNumber, storage
  <2> QED BY <1>4, <2>1, <2>2, <2>3
<1>7. CASE Resolve(q, o)
  <2> DEFINE R(f, k) == /\ Requested(q, o, f)
                        /\ k = old.number - old.block + 1
                        /\ f.answer = AnswerOf(saved, o, n, k)
                        /\ writes' = writes \cup {[op |-> o, kind |-> "count", n |-> k]} /\ f.number = old.number
                        /\ f.receipt = old.receipt /\ f.block = old.block
  <2>0. \E f : \E k \in Int : R(f, k)
    BY <1>7, ResolveFacts DEF old, saved, n
  <2>1. PICK f : \E k \in Int : R(f, k)
    BY <2>0
  <2>6. PICK k \in Int : R(f, k)
    BY <2>1
  <2>2. old.receipt = "found"
    BY <1>7 DEF Resolve, old
  <2>3. Built(height, first[o], k)
    BY <1>1, <1>2, <2>6, <2>2 DEF Counts, Built
  <2>4. Counts(height, first[o], f)
    BY <1>2, <2>6, <2>3 DEF Counts
  <2>5. o \notin unseen => Honest(height, first[o], o, n, f.answer)
    BY <1>1, <1>3, <2>6, <2>3, DerivedHonest
  <2>7. New
    BY <2>6, <2>3
  <2> QED BY <2>6, <2>4, <2>5, <2>7
<1>8. CASE ResolveError(q, o)
  <2> DEFINE a == AnswerOf(saved, o, n, Known(saved))
  <2>1. PICK f :
           /\ Requested(q, o, f)
           /\ \/ f.answer = a /\ writes' = writes
              \/ /\ f.answer.status = "FAILED" /\ OnChain(saved)
                 /\ f.answer.confirmed = a.confirmed
                 /\ writes' = writes \cup {[op |-> o, kind |-> "drop", n |-> 0]}
           /\ f.number = old.number /\ f.receipt = old.receipt /\ f.block = old.block
    BY <1>8, ResolveErrorFacts DEF old, saved, n
  <2>2. Counts(height, first[o], f)
    BY <1>2, <2>1 DEF Counts
  <2>3. o \notin unseen => Honest(height, first[o], o, n, a)
    BY <1>1, <1>3, KnownFacts, DerivedHonest
  <2>4. a.status = StatusOf(saved)
    BY <1>1, KnownFacts, AnswerFacts
  <2>5. OnChain(saved) => a.status # "SKIPPED"
    BY <1>1, <2>4, StatusFacts
  <2> HIDE DEF a
  <2>6. a # None
    BY <1>1, KnownFacts, AnswerFacts, NoneIsNoAnswer DEF a
  <2>7. New
    BY <2>1
  <2>8. o \notin unseen => Honest(height, first[o], o, n, f.answer)
    BY <2>1, <2>3, <2>5, <2>6 DEF Honest
  <2> QED BY <2>1, <2>2, <2>7, <2>8
<1> QED BY <1>5, <1>6, <1>7, <1>8

LEMMA DepthStep ==
  ASSUME TypeInv, ChainInv, DepthInv, [Next]_vars
  PROVE  DepthInv'
<1>1. TypeInv' /\ ChainGrows /\ unseen \subseteq unseen' /\ DOMAIN query' = DOMAIN query
  BY TypeStep
<1>2. RecordsHonest /\ WritesHonest /\ CountsHonest /\ SnapsHonest /\ AnswersHonest
  BY DEF DepthInv
<1>3. ASSUME UNCHANGED field PROVE RecordsHonest'
  BY <1>1, <1>2, <1>3, RecordsKept DEF RecordsHonest
<1>10. ASSUME writes' \subseteq writes PROVE WritesHonest'
  BY <1>1, <1>2, <1>10, WritesKept
<1>4. ASSUME UNCHANGED query PROVE CountsHonest' /\ SnapsHonest' /\ AnswersHonest'
  BY <1>1, <1>2, <1>4, QueriesKept
<1>5. ASSUME NEW r \in Requests, Request(r) \/ Crash(r) PROVE DepthInv'
  <2>1. UNCHANGED <<query, writes, height, first, unseen>> /\ (UNCHANGED field \/ Skips)
    BY <1>5, RequestEffect DEF answers, chain
  <2>2. ASSUME Skips PROVE RecordsHonest'
    <3> SUFFICES ASSUME NEW o \in Ops, o \notin unseen' PROVE Claims(height', first'[o], field'[o])
      BY DEF RecordsHonest
    <3>1. CASE o = 0
      <4>1. Claims(height, first[o], field[o])
        BY <1>2, <2>1 DEF RecordsHonest
      <4>2. field'[o].skipped /\ field'[o].confirmations = field[o].confirmations
        BY <2>2, <3>1 DEF Skips
      <4> QED BY <2>1, <4>1, <4>2 DEF Claims
    <3>2. CASE o # 0
      <4>1. field'[o] = field[o]
        BY <2>2, <3>2 DEF Skips
      <4> QED BY <1>1, <1>2, <4>1, RecordsKept
    <3> QED BY <3>1, <3>2
  <2> QED BY <1>3, <1>4, <1>10, <2>1, <2>2 DEF DepthInv
<1>6. ASSUME NEW r \in Requests, NEW o \in Ops, Job(r, o) PROVE DepthInv'
  <2>1. UNCHANGED <<query, writes, height, first>>
    BY <1>6, JobEffect DEF answers, chain
  <2>2. PICK g : Writes(r, o, g)
    BY <1>6, JobEffect
  <2>3. /\ g \in Field /\ g.skipped = field[o].skipped /\ field' = [field EXCEPT ![o] = g]
        /\ (field[o].hash => g.hash) /\ (field[o].finished => g.finished)
        /\ g.confirmed => \/ field[o].confirmed
                          \/ g.hash /\ g.finished /\ (o \in unseen' \/ Deep(o, WaitConfirmations))
        /\ g.confirmations > 0 => \/ g.confirmations = field[o].confirmations
                                  \/ o \in unseen' \/ Deep(o, g.confirmations)
    BY <2>2 DEF Writes, Grows
  <2>4. \A p \in Ops : field'[p] = IF p = o THEN g ELSE field[p]
    BY <2>3, FieldMove
  <2>5. ASSUME NEW p \in Ops, p \notin unseen' PROVE Claims(height', first'[p], field'[p])
    <3>1. CASE p # o
      BY <1>1, <1>2, <2>4, <2>5, <3>1, RecordsKept
    <3>2. CASE p = o
      <4>1. Claims(height, first[o], field[o])
        BY <1>1, <1>2, <2>5, <3>2 DEF RecordsHonest
      <4>2. Claims(height, first[o], g)
        BY <2>3, <2>5, <3>2, <4>1 DEF Claims, Deep, Built
      <4> QED BY <2>1, <2>4, <3>2, <4>2
    <3> QED BY <3>1, <3>2
  <2> QED BY <1>4, <1>10, <2>1, <2>5 DEF DepthInv, RecordsHonest
<1>7. CASE NewBlock \/ Reorg \/ \E r \in Requests, o \in Ops : Include(r, o)
  <2>1. UNCHANGED <<field, query, writes>>
    BY <1>7, ChainEffect DEF storage, answers
  <2> QED BY <1>3, <1>4, <1>10, <2>1 DEF DepthInv
<1>8. ASSUME NEW q \in DOMAIN query, Query(q) PROVE DepthInv'
  <2>1. UNCHANGED <<field, height, first, unseen>>
    BY <1>8, QueryEffect DEF chain
  <2>2. CASE Ask(q)
    <3>1. UNCHANGED <<field, writes>>
      BY <2>2 DEF Ask, storage
    <3>2. /\ \A p \in DOMAIN query : p # q => query'[p] = query[p]
          /\ query'[q].open /\ query'[q].snap = field /\ query'[q].knew = told /\ query'[q].asked \in Nat
          /\ \A o \in Ops :
              /\ query'[q].fetch[o].receipt = "none" /\ query'[q].fetch[o].number = 0
              /\ query'[q].fetch[o].answer =
                   IF MustFetch(field[o], o, query'[q].asked) THEN None
                   ELSE AnswerOf(field[o], o, query'[q].asked, Known(field[o]))
      BY <2>2, AskFacts
    <3>3. ASSUME NEW o \in Ops
          PROVE  /\ Counts(height', first'[o], query'[q].fetch[o])
                 /\ o \notin unseen' => /\ Claims(height', first'[o], query'[q].snap[o])
                                        /\ Honest(height', first'[o], o, query'[q].asked, query'[q].fetch[o].answer)
      <4>1. height \in Nat /\ first[o] \in Nat /\ field[o] \in Field
        BY DEF TypeInv
      <4>2. Counts(height', first'[o], query'[q].fetch[o])
        BY <2>1, <3>2, <4>1 DEF Counts
      <4>3. ASSUME o \notin unseen'
            PROVE  /\ Claims(height', first'[o], query'[q].snap[o])
                   /\ Honest(height', first'[o], o, query'[q].asked, query'[q].fetch[o].answer)
        <5>1. Claims(height, first[o], field[o])
          BY <1>2, <2>1, <4>3 DEF RecordsHonest
        <5>2. Honest(height, first[o], o, query'[q].asked, AnswerOf(field[o], o, query'[q].asked, Known(field[o])))
          BY <3>2, <4>1, <5>1, KnownFacts, DerivedHonest
        <5>3. Honest(height, first[o], o, query'[q].asked, None)
          BY DEF Honest
        <5>4. \/ query'[q].fetch[o].answer = None
              \/ query'[q].fetch[o].answer = AnswerOf(field[o], o, query'[q].asked, Known(field[o]))
          BY <3>2
        <5> QED BY <2>1, <3>2, <5>1, <5>2, <5>3, <5>4
      <4> QED BY <4>2, <4>3
    <3>4. ASSUME NEW p \in DOMAIN query', NEW o \in Ops, p # q
          PROVE  /\ Counts(height', first'[o], query'[p].fetch[o])
                 /\ o \notin unseen' => /\ Claims(height', first'[o], query'[p].snap[o])
                                        /\ Honest(height', first'[o], o, query'[p].asked, query'[p].fetch[o].answer)
      <4>1. p \in DOMAIN query /\ query'[p] = query[p]
        BY <1>1, <3>2, <3>4
      <4> QED BY <1>1, <1>2, <4>1, QueryKept
    <3> QED BY <1>3, <1>10, <3>1, <3>3, <3>4 DEF DepthInv, CountsHonest, SnapsHonest, AnswersHonest
  <2>3. CASE Close(q)
    <3>1. UNCHANGED <<field, writes>> /\ query' = [query EXCEPT ![q] = Quiet]
      BY <2>3 DEF Close, storage
    <3>2. ASSUME NEW p \in DOMAIN query', NEW o \in Ops
          PROVE  /\ Counts(height', first'[o], query'[p].fetch[o])
                 /\ o \notin unseen' => /\ Claims(height', first'[o], query'[p].snap[o])
                                        /\ Honest(height', first'[o], o, query'[p].asked, query'[p].fetch[o].answer)
      <4>1. CASE p = q
        <5>1. query'[p].snap[o] = NoField /\ query'[p].fetch[o] = Unasked
          BY <3>1, <4>1, QuietFacts
        <5>2. height' \in Nat /\ first'[o] \in Nat
          BY <1>1 DEF TypeInv
        <5> QED BY <5>1, <5>2, QuietFacts, NoFieldFacts DEF Counts, Claims, Honest
      <4>2. CASE p # q
        <5>1. p \in DOMAIN query /\ query'[p] = query[p]
          BY <1>1, <3>1, <4>2
        <5> QED BY <1>1, <1>2, <5>1, QueryKept
      <4> QED BY <4>1, <4>2
    <3> QED BY <1>3, <1>10, <3>1, <3>2 DEF DepthInv, CountsHonest, SnapsHonest, AnswersHonest
  <2>4. ASSUME NEW o \in Ops,
               GetReceipt(q, o) \/ GetBlockNumber(q, o) \/ Resolve(q, o) \/ ResolveError(q, o)
        PROVE  DepthInv'
    <3>1. WritesHonest' /\ CountsHonest' /\ SnapsHonest' /\ AnswersHonest'
      BY <1>1, <2>1, <2>4, DepthOfQuery
    <3> QED BY <1>3, <2>1, <3>1 DEF DepthInv
  <2> QED BY <1>8, <2>2, <2>3, <2>4 DEF Query
<1>9. CASE UNCHANGED vars
  <2>1. UNCHANGED <<field, query, writes>>
    BY <1>9 DEF vars, storage, answers
  <2> QED BY <1>3, <1>4, <1>10, <2>1 DEF DepthInv
<1>11. ASSUME NEW w \in writes, Store(w) PROVE DepthInv'
  <2>1. UNCHANGED <<query, height, first, unseen>> /\ writes' \subseteq writes /\ w.op \in Ops
    BY <1>11, StoreFacts DEF answers, chain, Write
  <2>2. PICK g \in Field :
          /\ field' = [field EXCEPT ![w.op] = g]
          /\ g.skipped = field[w.op].skipped /\ g.hash = field[w.op].hash
          /\ g.finished = field[w.op].finished /\ g.confirmed = field[w.op].confirmed
          /\ \/ g.confirmations = field[w.op].confirmations
             \/ w.kind = "count" /\ g.confirmations = w.n
    BY <1>11, StoreFacts
  <2>3. \A p \in Ops : field'[p] = IF p = w.op THEN g ELSE field[p]
    BY <2>1, <2>2, FieldMove
  <2>4. w.kind = "count" /\ w.n > 0 => Built(height, first[w.op], w.n)
    BY <1>2 DEF WritesHonest
  <2>5. ASSUME NEW p \in Ops, p \notin unseen' PROVE Claims(height', first'[p], field'[p])
    <3>1. CASE p # w.op
      BY <1>1, <1>2, <2>3, <2>5, <3>1, RecordsKept
    <3>2. CASE p = w.op
      <4>1. Claims(height, first[p], field[p])
        BY <1>2, <2>1, <2>5 DEF RecordsHonest
      <4>2. Claims(height, first[p], g)
        BY <2>2, <2>4, <3>2, <4>1 DEF Claims
      <4> QED BY <2>1, <2>3, <3>2, <4>2
    <3> QED BY <3>1, <3>2
  <2> QED BY <1>4, <1>10, <2>1, <2>5 DEF DepthInv, RecordsHonest
<1> QED BY <1>5, <1>6, <1>7, <1>8, <1>9, <1>11 DEF Next

LEMMA DepthFollows == TypeInv /\ DepthInv => ConfirmedIsDeep
<1> SUFFICES ASSUME TypeInv, DepthInv, NEW q \in DOMAIN query, NEW o \in Ops \ unseen,
                    Fetch(q, o).answer # None, Fetch(q, o).answer.status # "SKIPPED", Fetch(q, o).answer.confirmed
             PROVE  /\ height - first[o] + 1 >= WaitConfirmations
                    /\ Custom(o, query[q].asked) => height - first[o] + 1 >= query[q].asked
  BY DEF ConfirmedIsDeep
<1>1. Honest(height, first[o], o, query[q].asked, Fetch(q, o).answer)
  BY DEF DepthInv, AnswersHonest, Fetch
<1>2. Built(height, first[o], WaitConfirmations) /\ (Custom(o, query[q].asked) => Built(height, first[o], query[q].asked))
  BY <1>1 DEF Honest
<1>3. height \in Int /\ first[o] \in Int /\ WaitConfirmations \in Int /\ query[q].asked \in Int
  BY FetchFacts, ConstantFacts DEF TypeInv
<1> QED BY <1>2, <1>3 DEF Built

-----------------------------------------------------------------------------
(* Answers: what was told stays true *)

\* A record that tells a confirmed success, and what may take it back.
Sure(f)   == ~f.skipped /\ f.hash /\ f.finished /\ ~f.error /\ f.confirmed
Exempt(o) == overlap \/ o \in dropped \/ o \in unseen

\* Nothing is run, fetched or stored for a payment that is skipped or as deep as asked.
PaymentInv ==
  /\ trusted => /\ \A r \in Requests : job[r][0] \in {"none", "done"}
                /\ ~field[0].hash /\ ~field[0].error
  /\ \A w \in writes : w.op # 0
  /\ \A q \in DOMAIN query : query[q].open => query[q].fetch[0].answer # None

\* A hash comes with the end of the execution, a confirmation with the end of the job.
RecordInv == \A o \in Ops :
  /\ field[o].hash => field[o].finished
  /\ field[o].confirmed /\ ~field[o].skipped => \E r \in Requests : job[r][o] = "done"

DropInv == \A w \in writes : w.kind = "drop" => w.op \in dropped

\* What a record, or what was said of it, implies of the record now.
Outlives(final, sure, o) == /\ final => StatusOf(field[o]) \in Final
                            /\ sure => Sure(field[o]) \/ Exempt(o)

ToldInv == \A o \in Ops : Outlives(o \in told.final, o \in told.sure, o)

SnapInv == \A q \in DOMAIN query : \A o \in Ops :
  /\ Outlives(StatusOf(query[q].snap[o]) \in Final, Sure(query[q].snap[o]), o)
  /\ o \in query[q].knew.final => StatusOf(query[q].snap[o]) \in Final
  /\ o \in query[q].knew.sure => StatusOf(query[q].snap[o]) = "MINED_SUCCESS" \/ Exempt(o)

\* An answer is the record's, or that the userOp was dropped.
AnswerInv == \A q \in DOMAIN query : \A o \in Ops :
  LET a == query[q].fetch[o].answer
      f == query[q].snap[o] IN
  a # None => \/ a.status = StatusOf(f) /\ (a.confirmed => f.confirmed)
              \/ a.status = "FAILED" /\ o \in dropped /\ OnChain(f)

StayInv == PaymentInv /\ RecordInv /\ DropInv /\ ToldInv /\ SnapInv /\ AnswerInv

LEMMA SureFacts ==
  ASSUME NEW f \in Field
  PROVE  Sure(f) <=> StatusOf(f) = "MINED_SUCCESS" /\ f.confirmed
BY StatusFacts DEF Sure

LEMMA StayInit == Init => StayInv
<1> SUFFICES ASSUME Init PROVE StayInv
  OBVIOUS
<1>1. /\ \A r \in Requests : \A o \in Ops : job[r][o] = "none"
      /\ \A o \in Ops : field[o] = NoField
      /\ writes = {} /\ told.final = {} /\ told.sure = {}
  BY DEF Init
<1>2. \A q \in DOMAIN query : query[q] = Quiet
  BY DEF Init
<1>3. \A q \in DOMAIN query : \A o \in Ops : query[q].snap[o] = NoField /\ query[q].fetch[o] = Unasked
  BY <1>2, QuietFacts
<1>4. \A q \in DOMAIN query : ~query[q].open /\ query[q].knew.final = {} /\ query[q].knew.sure = {}
  BY <1>2, QuietFacts
<1>5. StatusOf(NoField) \notin Final /\ ~Sure(NoField)
  BY StatusFacts, NoFieldFacts DEF Sure
<1>6. PaymentInv
  BY <1>1, <1>3, <1>4, NoFieldFacts, QuietFacts, ConstantFacts DEF PaymentInv
<1>7. RecordInv /\ DropInv
  BY <1>1, <1>3, NoFieldFacts, QuietFacts DEF RecordInv, DropInv
<1>8. ToldInv /\ SnapInv
  BY <1>1, <1>3, <1>4, <1>5 DEF ToldInv, SnapInv, Outlives
<1>9. AnswerInv
  BY <1>3, QuietFacts DEF AnswerInv
<1> QED BY <1>6, <1>7, <1>8, <1>9 DEF StayInv

\* What a step makes of the records.
RecordsLast == \A o \in Ops : /\ StatusOf(field[o]) \in Final => StatusOf(field'[o]) \in Final
                              /\ Sure(field[o]) => Sure(field'[o]) \/ Exempt(o)'

LEMMA ExemptGrows ==
  ASSUME TypeInv, ChainInv, [Next]_vars
  PROVE  \A o \in Ops : Exempt(o) => Exempt(o)'
<1>1. overlap => overlap'
  <2>1. ASSUME NEW r \in Requests, Request(r) \/ Crash(r) PROVE overlap => overlap'
    BY <2>1, RequestEffect DEF RequestMoves
  <2>2. ASSUME NEW r \in Requests, NEW o \in Ops, Job(r, o) PROVE overlap => overlap'
    BY <2>2, JobEffect DEF calls
  <2>3. ASSUME NewBlock \/ Reorg \/ \E r \in Requests, o \in Ops : Include(r, o) PROVE overlap => overlap'
    BY <2>3, ChainEffect DEF calls
  <2>4. ASSUME NEW q \in DOMAIN query, Query(q) PROVE overlap => overlap'
    BY <2>4, QueryEffect DEF calls
  <2>5. ASSUME UNCHANGED vars PROVE overlap => overlap'
    BY <2>5 DEF vars, calls
  <2>6. ASSUME NEW w \in writes, Store(w) PROVE overlap => overlap'
    BY <2>6, StoreFacts DEF calls
  <2> QED BY <2>1, <2>2, <2>3, <2>4, <2>5, <2>6 DEF Next
<1> QED BY <1>1, TypeStep DEF Exempt

LEMMA RecordsOfRequest ==
  ASSUME TypeInv, StageInv, PaymentInv, RecordInv, NEW r \in Requests, Request(r) \/ Crash(r)
  PROVE  PaymentInv' /\ RecordInv' /\ RecordsLast
<1>1. /\ UNCHANGED <<trusted, query, writes>> /\ JobsMove(r) /\ (UNCHANGED field \/ Skips)
  BY RequestEffect DEF given, answers
<1>2. field[0] \in Field /\ field \in [Ops -> Field] /\ 0 \in Ops
  BY ConstantFacts DEF TypeInv
<1>3. \A s \in Requests : trusted => job'[s][0] \in {"none", "done"}
  BY <1>1 DEF JobsMove, PaymentInv
<1>4. \A s \in Requests : \A o \in Ops : job[s][o] = "done" => job'[s][o] = "done"
  <2> SUFFICES ASSUME NEW s \in Requests, NEW o \in Ops, job[s][o] = "done" PROVE job'[s][o] = "done"
    OBVIOUS
  <2>1. s = r => request[r] # "created"
    BY DEF StageInv
  <2> QED BY <1>1, <2>1 DEF JobsMove
<1>5. CASE UNCHANGED field
  <2>1. PaymentInv'
    BY <1>1, <1>3, <1>5 DEF PaymentInv
  <2>2. RecordInv'
    BY <1>4, <1>5 DEF RecordInv
  <2> QED BY <1>5, <2>1, <2>2 DEF RecordsLast
<1>6. CASE Skips
  <2>1. PaymentInv'
    BY <1>1, <1>3, <1>6 DEF PaymentInv, Skips
  <2>2. RecordInv'
    BY <1>4, <1>6 DEF RecordInv, Skips
  <2>3. StatusOf(field[0]) \notin Final /\ ~Sure(field[0])
    BY <1>2, <1>6, StatusFacts DEF PaymentInv, Skips, Sure
  <2>4. RecordsLast
    BY <1>6, <2>3 DEF RecordsLast, Skips
  <2> QED BY <2>1, <2>2, <2>4
<1> QED BY <1>1, <1>5, <1>6

LEMMA RecordsOfJob ==
  ASSUME TypeInv, ChainInv, SerialInv, PaymentInv, RecordInv, NEW r \in Requests, NEW o \in Ops, Job(r, o)
  PROVE  PaymentInv' /\ RecordInv' /\ RecordsLast
<1>1. /\ job[r][o] \notin {"none", "adding", "done"}
      /\ \A s \in Requests, p \in Ops : s # r \/ p # o => job'[s][p] = job[s][p]
      /\ UNCHANGED <<trusted, query, writes, overlap>>
  BY JobEffect DEF given, answers, calls
<1>2. PICK g : Writes(r, o, g)
  BY JobEffect
<1>3. /\ g \in Field /\ Grows(field[o], g) /\ field' = [field EXCEPT ![o] = g]
      /\ g.confirmed => field[o].confirmed \/ job'[r][o] = "done"
  BY <1>2 DEF Writes
<1>4. /\ g.skipped = field[o].skipped /\ (field[o].hash => g.hash) /\ (field[o].finished => g.finished)
      /\ (field[o].error => g.error) /\ (g.hash => field[o].hash \/ g.finished)
  BY <1>3 DEF Grows
<1>5. \A p \in Ops : field'[p] = IF p = o THEN g ELSE field[p]
  BY <1>3, FieldMove
<1>6. field[o] \in Field
  BY DEF TypeInv
<1>7. \A s \in Requests : \A p \in Ops : job[s][p] = "done" => job'[s][p] = "done"
  BY <1>1
<1>8. PaymentInv'
  <2>1. trusted => o # 0
    BY <1>1 DEF PaymentInv
  <2> QED BY <1>1, <1>5, <2>1, ConstantFacts DEF PaymentInv
<1>9. RecordInv'
  <2> SUFFICES ASSUME NEW p \in Ops
               PROVE  /\ field'[p].hash => field'[p].finished
                      /\ field'[p].confirmed /\ ~field'[p].skipped => \E s \in Requests : job'[s][p] = "done"
    BY DEF RecordInv
  <2>1. CASE p # o
    BY <1>5, <1>7, <2>1 DEF RecordInv
  <2>2. CASE p = o
    <3>1. field'[p] = g
      BY <1>5, <2>2
    <3>2. g.hash => g.finished
      BY <1>4 DEF RecordInv
    <3>3. ASSUME g.confirmed, ~g.skipped PROVE \E s \in Requests : job'[s][o] = "done"
      <4>1. CASE field[o].confirmed
        <5>1. \E s \in Requests : job[s][o] = "done"
          BY <1>4, <3>3, <4>1 DEF RecordInv
        <5> QED BY <1>7, <5>1
      <4>2. CASE job'[r][o] = "done"
        BY <4>2
      <4> QED BY <1>3, <3>3, <4>1, <4>2
    <3> QED BY <2>2, <3>1, <3>2, <3>3
  <2> QED BY <2>1, <2>2
<1>10. StatusOf(field[o]) \in Final => StatusOf(g) \in Final
  <2>1. field[o].hash => field[o].finished
    BY DEF RecordInv
  <2>2. ~field[o].skipped /\ ((field[o].hash /\ field[o].finished) \/ (~field[o].hash /\ field[o].error)) =>
          ~g.skipped /\ ((g.hash /\ g.finished) \/ (~g.hash /\ g.error))
    BY <1>4, <2>1
  <2> QED BY <1>3, <1>6, <2>2, StatusFacts
<1>11. Sure(field[o]) => Exempt(o)'
  <2> SUFFICES ASSUME Sure(field[o]) PROVE overlap
    BY <1>1 DEF Exempt
  <2>1. PICK s \in Requests : job[s][o] = "done"
    BY DEF Sure, RecordInv
  <2>2. Queued(r) /\ Queued(s) /\ r # s
    BY <1>1, <2>1 DEF Queued
  <2> QED BY <2>2 DEF SerialInv
<1> QED BY <1>5, <1>8, <1>9, <1>10, <1>11 DEF RecordsLast

LEMMA RecordsOfQuery ==
  ASSUME TypeInv, PaymentInv, RecordInv, NEW q \in DOMAIN query, Query(q)
  PROVE  /\ RecordInv' /\ RecordsLast
         /\ trusted => (\A r \in Requests : job'[r][0] \in {"none", "done"}) /\ ~field'[0].hash /\ ~field'[0].error
<1>1. UNCHANGED <<job, field>>
  BY QueryEffect
<1> QED BY <1>1 DEF RecordInv, RecordsLast, PaymentInv

LEMMA RecordsOfStore ==
  ASSUME TypeInv, PaymentInv, RecordInv, DropInv, NEW w \in writes, Store(w)
  PROVE  PaymentInv' /\ RecordInv' /\ RecordsLast
<1>1. /\ UNCHANGED <<trusted, job, overlap, unseen, dropped, query>>
      /\ writes' = writes \ {w} /\ w \in Write
  BY StoreFacts DEF calls, answers, given
<1>2. w.op \in Ops /\ w.op # 0
  BY <1>1 DEF Write, PaymentInv
<1>3. PICK g \in Field :
        /\ field' = [field EXCEPT ![w.op] = g]
        /\ g.skipped = field[w.op].skipped /\ g.hash = field[w.op].hash
        /\ g.finished = field[w.op].finished /\ g.confirmed = field[w.op].confirmed
        /\ g.error = field[w.op].error \/ (w.kind = "drop" /\ g.error)
  BY StoreFacts
<1>4. \A p \in Ops : field'[p] = IF p = w.op THEN g ELSE field[p]
  BY <1>2, <1>3, FieldMove
<1>5. w.kind = "drop" => Exempt(w.op)'
  BY <1>1 DEF DropInv, Exempt
<1>6. StatusOf(field[w.op]) \in Final => StatusOf(g) \in Final
  <2>1. field[w.op] \in Field
    BY <1>2 DEF TypeInv
  <2> QED BY <1>3, <2>1, StatusFacts
<1>7. Sure(field[w.op]) => Sure(g) \/ Exempt(w.op)'
  BY <1>3, <1>5 DEF Sure
<1>8. RecordsLast
  BY <1>4, <1>6, <1>7 DEF RecordsLast
<1>9. RecordInv'
  BY <1>1, <1>3, <1>4 DEF RecordInv
<1>10. PaymentInv'
  BY <1>1, <1>2, <1>4, ConstantFacts DEF PaymentInv
<1> QED BY <1>8, <1>9, <1>10

\* What is told follows from the records, as the answers do.
LEMMA ToldStays ==
  ASSUME TypeInv, TypeInv', RecordsLast, \A o \in Ops : Exempt(o) => Exempt(o)',
         ToldInv, SnapInv', AnswerInv', NEW q \in DOMAIN query', UNCHANGED told \/ Tell(q)
  PROVE  ToldInv'
<1> SUFFICES ASSUME NEW o \in Ops
             PROVE  /\ o \in told'.final => StatusOf(field'[o]) \in Final
                    /\ o \in told'.sure => Sure(field'[o]) \/ Exempt(o)'
  BY DEF ToldInv, Outlives
<1>1. /\ o \in told.final => StatusOf(field'[o]) \in Final
      /\ o \in told.sure => Sure(field'[o]) \/ Exempt(o)'
  BY DEF ToldInv, Outlives, RecordsLast
<1>2. CASE UNCHANGED told
  BY <1>1, <1>2
<1>3. CASE Tell(q)
  <2> DEFINE a == query'[q].fetch[o].answer
             f == query'[q].snap[o]
  <2>1. f \in Field
    BY DEF TypeInv, QueryType
  <2>2. /\ StatusOf(f) \in Final => StatusOf(field'[o]) \in Final
        /\ Sure(f) => Sure(field'[o]) \/ Exempt(o)'
    BY DEF SnapInv, Outlives
  <2>3. a # None => \/ a.status = StatusOf(f) /\ (a.confirmed => f.confirmed)
                    \/ a.status = "FAILED" /\ OnChain(f)
    BY DEF AnswerInv
  <2>4. /\ o \in told'.final => o \in told.final \/ (a # None /\ a.status \in Final)
        /\ o \in told'.sure => o \in told.sure \/ (a # None /\ a.status = "MINED_SUCCESS" /\ a.confirmed)
    BY <1>3, TellFacts
  <2> HIDE DEF a, f
  <2>5. a # None /\ a.status \in Final => StatusOf(f) \in Final
    BY <2>1, <2>3, StatusFacts
  <2>6. a # None /\ a.status = "MINED_SUCCESS" /\ a.confirmed => Sure(f)
    BY <2>1, <2>3, SureFacts
  <2> QED BY <1>1, <2>2, <2>4, <2>5, <2>6
<1> QED BY <1>2, <1>3

\* A query that is not touched.
LEMMA SnapStays ==
  ASSUME RecordsLast, \A o \in Ops : Exempt(o) => Exempt(o)', SnapInv, NEW q \in DOMAIN query, NEW o \in Ops
  PROVE  /\ StatusOf(query[q].snap[o]) \in Final => StatusOf(field'[o]) \in Final
         /\ Sure(query[q].snap[o]) => Sure(field'[o]) \/ Exempt(o)'
         /\ o \in query[q].knew.final => StatusOf(query[q].snap[o]) \in Final
         /\ o \in query[q].knew.sure => StatusOf(query[q].snap[o]) = "MINED_SUCCESS" \/ Exempt(o)'
BY DEF SnapInv, Outlives, RecordsLast

LEMMA QueriesStay ==
  ASSUME TypeInv, TypeInv', RecordsLast, \A o \in Ops : Exempt(o) => Exempt(o)', dropped \subseteq dropped',
         UNCHANGED <<query, told>>, writes' \subseteq writes, DropInv, ToldInv, SnapInv, AnswerInv
  PROVE  DropInv' /\ ToldInv' /\ SnapInv' /\ AnswerInv'
<1>1. SnapInv'
  BY SnapStays DEF SnapInv, Outlives
<1>2. DropInv'
  BY DEF DropInv
<1>3. AnswerInv'
  BY DEF AnswerInv
<1>4. ToldInv'
  BY DEF ToldInv, Outlives, RecordsLast
<1> QED BY <1>1, <1>2, <1>3, <1>4

\* One request of a query moves.
LEMMA AnswerMoves ==
  ASSUME TypeInv, TypeInv', RecordsLast, \A p \in Ops : Exempt(p) => Exempt(p)', dropped \subseteq dropped',
         PaymentInv, DropInv, ToldInv, SnapInv, AnswerInv,
         NEW q \in DOMAIN query, NEW o \in Ops, NEW f, Requested(q, o, f), o # 0,
         UNCHANGED told \/ Tell(q),
         \A w \in writes' \ writes : w.op = o /\ (w.kind = "drop" => o \in dropped'),
         f.answer # None =>
           \/ f.answer.status = StatusOf(query[q].snap[o]) /\ (f.answer.confirmed => query[q].snap[o].confirmed)
           \/ f.answer.status = "FAILED" /\ o \in dropped' /\ OnChain(query[q].snap[o])
  PROVE  /\ DropInv' /\ ToldInv' /\ SnapInv' /\ AnswerInv'
         /\ \A w \in writes' : w.op # 0
         /\ \A p \in DOMAIN query' : query'[p].open => query'[p].fetch[0].answer # None
<1>1. /\ DOMAIN query' = DOMAIN query
      /\ \A p \in DOMAIN query : /\ query'[p].open = query[p].open
                                 /\ query'[p].snap = query[p].snap /\ query'[p].knew = query[p].knew
      /\ \A p \in DOMAIN query : \A u \in Ops :
           query'[p].fetch[u] = IF p = q /\ u = o THEN f ELSE query[p].fetch[u]
  BY FetchMove DEF Requested
<1>2. SnapInv'
  <2> SUFFICES ASSUME NEW p \in DOMAIN query, NEW u \in Ops
               PROVE  /\ StatusOf(query'[p].snap[u]) \in Final => StatusOf(field'[u]) \in Final
                      /\ Sure(query'[p].snap[u]) => Sure(field'[u]) \/ Exempt(u)'
                      /\ u \in query'[p].knew.final => StatusOf(query'[p].snap[u]) \in Final
                      /\ u \in query'[p].knew.sure => StatusOf(query'[p].snap[u]) = "MINED_SUCCESS" \/ Exempt(u)'
    BY <1>1 DEF SnapInv, Outlives
  <2>1. query'[p].snap = query[p].snap /\ query'[p].knew = query[p].knew
    BY <1>1
  <2> QED BY <2>1, SnapStays
<1>3. DropInv'
  BY DEF DropInv
<1>4. AnswerInv'
  <2> SUFFICES ASSUME NEW p \in DOMAIN query, NEW u \in Ops, query'[p].fetch[u].answer # None
               PROVE  \/ /\ query'[p].fetch[u].answer.status = StatusOf(query'[p].snap[u])
                         /\ query'[p].fetch[u].answer.confirmed => query'[p].snap[u].confirmed
                      \/ /\ query'[p].fetch[u].answer.status = "FAILED" /\ u \in dropped'
                         /\ OnChain(query'[p].snap[u])
    BY <1>1 DEF AnswerInv
  <2>1. query'[p].snap = query[p].snap
    BY <1>1
  <2>2. CASE p = q /\ u = o
    <3>1. query'[p].fetch[u] = f
      BY <1>1, <2>2
    <3> QED BY <2>1, <2>2, <3>1
  <2>3. CASE ~(p = q /\ u = o)
    <3>1. query'[p].fetch[u] = query[p].fetch[u]
      BY <1>1, <2>3
    <3>2. \/ /\ query[p].fetch[u].answer.status = StatusOf(query[p].snap[u])
             /\ query[p].fetch[u].answer.confirmed => query[p].snap[u].confirmed
          \/ /\ query[p].fetch[u].answer.status = "FAILED" /\ u \in dropped
             /\ OnChain(query[p].snap[u])
      BY <3>1 DEF AnswerInv
    <3> QED BY <2>1, <3>1, <3>2
  <2> QED BY <2>2, <2>3
<1>5. ToldInv'
  BY <1>1, <1>2, <1>4, ToldStays
<1>6. /\ \A w \in writes' : w.op # 0
      /\ \A p \in DOMAIN query' : query'[p].open => query'[p].fetch[0].answer # None
  BY <1>1, ConstantFacts DEF PaymentInv
<1> QED BY <1>2, <1>3, <1>4, <1>5, <1>6

LEMMA StayOfRequest ==
  ASSUME TypeInv, TypeInv', StayInv, \A p \in Ops : Exempt(p) => Exempt(p)', NEW q \in DOMAIN query, NEW o \in Ops,
         GetReceipt(q, o) \/ GetBlockNumber(q, o) \/ Resolve(q, o) \/ ResolveError(q, o)
  PROVE  StayInv'
<1> DEFINE old == Fetch(q, o)
           saved == query[q].snap[o]
           n == query[q].asked
<1>1. PaymentInv /\ RecordInv /\ DropInv /\ ToldInv /\ SnapInv /\ AnswerInv
  BY DEF StayInv
<1>2. Query(q)
  BY DEF Query
<1>3. /\ RecordInv' /\ RecordsLast /\ dropped \subseteq dropped' /\ UNCHANGED trusted
      /\ trusted => (\A r \in Requests : job'[r][0] \in {"none", "done"}) /\ ~field'[0].hash /\ ~field'[0].error
  BY <1>1, <1>2, RecordsOfQuery, QueryEffect DEF given
<1>4. saved \in Field /\ n \in Nat /\ old.number \in Nat /\ old.block \in Nat
  BY FetchFacts
<1>5. o # 0
  BY <1>1 DEF PaymentInv, GetReceipt, GetBlockNumber, Resolve, ResolveError, Fetch
<1> SUFFICES \E f : /\ Requested(q, o, f)
                    /\ UNCHANGED told \/ Tell(q)
                    /\ \A w \in writes' \ writes : w.op = o /\ (w.kind = "drop" => o \in dropped')
                    /\ f.answer # None =>
                         \/ f.answer.status = StatusOf(saved) /\ (f.answer.confirmed => saved.confirmed)
                         \/ f.answer.status = "FAILED" /\ o \in dropped' /\ OnChain(saved)
  <2>1. PICK f : /\ Requested(q, o, f)
                 /\ UNCHANGED told \/ Tell(q)
                 /\ \A w \in writes' \ writes : w.op = o /\ (w.kind = "drop" => o \in dropped')
                 /\ f.answer # None =>
                      \/ f.answer.status = StatusOf(saved) /\ (f.answer.confirmed => saved.confirmed)
                      \/ f.answer.status = "FAILED" /\ o \in dropped' /\ OnChain(saved)
    OBVIOUS
  <2>2. /\ DropInv' /\ ToldInv' /\ SnapInv' /\ AnswerInv'
        /\ \A w \in writes' : w.op # 0
        /\ \A p \in DOMAIN query' : query'[p].open => query'[p].fetch[0].answer # None
    BY <1>1, <1>3, <1>5, <2>1, AnswerMoves
  <2>3. PaymentInv'
    BY <1>3, <2>2 DEF PaymentInv
  <2> QED BY <1>3, <2>2, <2>3 DEF StayInv
<1> HIDE DEF old, saved, n
<1>6. CASE GetReceipt(q, o) \/ GetBlockNumber(q, o)
  <2>1. PICK f : Requested(q, o, f) /\ f.answer = None
    BY <1>6, GetReceiptFacts, GetBlockNumberFacts
  <2>2. UNCHANGED <<told, writes>>
    BY <1>6 DEF GetReceipt, GetBlockNumber, storage
  <2> QED BY <2>1, <2>2
<1>7. CASE Resolve(q, o)
  <2>1. PICK f : \E k \in Int : /\ Requested(q, o, f)
                                /\ f.answer = AnswerOf(saved, o, n, k)
                                /\ writes' = writes \cup {[op |-> o, kind |-> "count", n |-> k]}
    BY <1>7, ResolveFacts DEF saved, n
  <2>2. PICK k \in Int : /\ Requested(q, o, f)
                         /\ f.answer = AnswerOf(saved, o, n, k)
                         /\ writes' = writes \cup {[op |-> o, kind |-> "count", n |-> k]}
    BY <2>1
  <2>3. Tell(q)
    BY <1>7 DEF Resolve
  <2>4. f.answer.status = StatusOf(saved) /\ (f.answer.confirmed => saved.confirmed)
    BY <1>4, <2>2, AnswerFacts
  <2> QED BY <2>2, <2>3, <2>4
<1>8. CASE ResolveError(q, o)
  <2> DEFINE a == AnswerOf(saved, o, n, Known(saved))
  <2>1. PICK f : /\ Requested(q, o, f)
                 /\ \/ f.answer = a /\ writes' = writes
                    \/ /\ f.answer.status = "FAILED" /\ OnChain(saved)
                       /\ writes' = writes \cup {[op |-> o, kind |-> "drop", n |-> 0]}
                       /\ dropped' = dropped \cup {o}
    BY <1>8, ResolveErrorFacts DEF saved, n
  <2>2. Tell(q)
    BY <1>8 DEF ResolveError
  <2>3. a.status = StatusOf(saved) /\ (a.confirmed => saved.confirmed)
    BY <1>4, KnownFacts, AnswerFacts
  <2> HIDE DEF a
  <2> QED BY <2>1, <2>2, <2>3
<1> QED BY <1>6, <1>7, <1>8

LEMMA StayOfAsk ==
  ASSUME TypeInv, TypeInv', StayInv, \A p \in Ops : Exempt(p) => Exempt(p)', NEW q \in DOMAIN query, Ask(q)
  PROVE  StayInv'
<1>1. PaymentInv /\ RecordInv /\ DropInv /\ ToldInv /\ SnapInv /\ AnswerInv
  BY DEF StayInv
<1>2. Query(q)
  BY DEF Query
<1>3. /\ RecordInv' /\ RecordsLast /\ UNCHANGED <<trusted, dropped, field, writes>>
      /\ trusted => (\A r \in Requests : job'[r][0] \in {"none", "done"}) /\ ~field'[0].hash /\ ~field'[0].error
  BY <1>1, <1>2, RecordsOfQuery, QueryEffect DEF given, Ask, storage
<1>4. /\ DOMAIN query' = DOMAIN query
      /\ \A p \in DOMAIN query : p # q => query'[p] = query[p]
      /\ query'[q].open /\ query'[q].snap = field /\ query'[q].knew = told /\ query'[q].asked \in Nat
      /\ \A o \in Ops :
          query'[q].fetch[o].answer =
            IF MustFetch(field[o], o, query'[q].asked) THEN None
            ELSE AnswerOf(field[o], o, query'[q].asked, Known(field[o]))
  BY AskFacts
<1>5. ASSUME NEW o \in Ops
      PROVE  LET a == AnswerOf(field[o], o, query'[q].asked, Known(field[o])) IN
             a \in Answer /\ a.status = StatusOf(field[o]) /\ (a.confirmed => field[o].confirmed)
  <2>1. field[o] \in Field
    BY DEF TypeInv
  <2> QED BY <1>4, <2>1, KnownFacts, AnswerFacts
<1>6. ASSUME NEW p \in DOMAIN query', NEW o \in Ops
      PROVE  /\ StatusOf(query'[p].snap[o]) \in Final => StatusOf(field'[o]) \in Final
             /\ Sure(query'[p].snap[o]) => Sure(field'[o]) \/ Exempt(o)'
             /\ o \in query'[p].knew.final => StatusOf(query'[p].snap[o]) \in Final
             /\ o \in query'[p].knew.sure => StatusOf(query'[p].snap[o]) = "MINED_SUCCESS" \/ Exempt(o)'
  <2>1. CASE p = q
    <3>1. field[o] \in Field
      BY DEF TypeInv
    <3>2. o \in told.final => StatusOf(field[o]) \in Final
      BY <1>1 DEF ToldInv, Outlives
    <3>3. o \in told.sure => StatusOf(field[o]) = "MINED_SUCCESS" \/ Exempt(o)'
      BY <1>1, <3>1, SureFacts DEF ToldInv, Outlives
    <3> QED BY <1>3, <1>4, <2>1, <3>2, <3>3
  <2>2. CASE p # q
    BY <1>1, <1>3, <1>4, <2>2, SnapStays
  <2> QED BY <2>1, <2>2
<1>7. SnapInv'
  BY <1>6 DEF SnapInv, Outlives
<1>8. DropInv'
  BY <1>1, <1>3 DEF DropInv
<1>9. AnswerInv'
  <2> SUFFICES ASSUME NEW p \in DOMAIN query, NEW u \in Ops, query'[p].fetch[u].answer # None
               PROVE  \/ /\ query'[p].fetch[u].answer.status = StatusOf(query'[p].snap[u])
                         /\ query'[p].fetch[u].answer.confirmed => query'[p].snap[u].confirmed
                      \/ /\ query'[p].fetch[u].answer.status = "FAILED" /\ u \in dropped'
                         /\ OnChain(query'[p].snap[u])
    BY <1>4 DEF AnswerInv
  <2>1. CASE p = q
    <3>1. query'[p].fetch[u].answer = AnswerOf(field[u], u, query'[q].asked, Known(field[u]))
      BY <1>4, <2>1
    <3> QED BY <1>4, <1>5, <2>1, <3>1
  <2>2. CASE p # q
    BY <1>1, <1>3, <1>4, <2>2 DEF AnswerInv
  <2> QED BY <2>1, <2>2
<1>10. Tell(q)
  BY DEF Ask
<1>11. ToldInv'
  BY <1>1, <1>3, <1>4, <1>7, <1>9, <1>10, ToldStays
<1>12. \A p \in DOMAIN query' : query'[p].open => query'[p].fetch[0].answer # None
  <2> SUFFICES ASSUME NEW p \in DOMAIN query PROVE query'[p].open => query'[p].fetch[0].answer # None
    BY <1>4
  <2>1. CASE p = q
    <3>1. ~MustFetch(field[0], 0, query'[q].asked)
      BY DEF MustFetch, Custom
    <3>2. query'[p].fetch[0].answer = AnswerOf(field[0], 0, query'[q].asked, Known(field[0]))
      BY <1>4, <2>1, <3>1, ConstantFacts
    <3>3. query'[p].fetch[0].answer \in Answer
      BY <1>5, <3>2, ConstantFacts
    <3> QED BY <1>4, <2>1, <3>3, NoneIsNoAnswer, ConstantFacts
  <2>2. CASE p # q
    BY <1>1, <1>4, <2>2 DEF PaymentInv
  <2> QED BY <2>1, <2>2
<1>13. PaymentInv'
  BY <1>1, <1>3, <1>12 DEF PaymentInv
<1> QED BY <1>3, <1>7, <1>8, <1>9, <1>11, <1>13 DEF StayInv

LEMMA StayOfClose ==
  ASSUME TypeInv, TypeInv', StayInv, \A p \in Ops : Exempt(p) => Exempt(p)', NEW q \in DOMAIN query, Close(q)
  PROVE  StayInv'
<1>1. PaymentInv /\ RecordInv /\ DropInv /\ ToldInv /\ SnapInv /\ AnswerInv
  BY DEF StayInv
<1>2. Query(q)
  BY DEF Query
<1>3. /\ RecordInv' /\ RecordsLast /\ UNCHANGED <<trusted, dropped, told, writes>>
      /\ trusted => (\A r \in Requests : job'[r][0] \in {"none", "done"}) /\ ~field'[0].hash /\ ~field'[0].error
  BY <1>1, <1>2, RecordsOfQuery, QueryEffect DEF given, Close, storage
<1>4. /\ DOMAIN query' = DOMAIN query
      /\ \A p \in DOMAIN query : p # q => query'[p] = query[p]
      /\ query'[q] = Quiet
  BY <1>2, QueryEffect DEF Close
<1>5. StatusOf(NoField) \notin Final /\ ~Sure(NoField)
  BY StatusFacts, NoFieldFacts DEF Sure
<1>6. \A o \in Ops : Quiet.snap[o] = NoField /\ Quiet.fetch[o] = Unasked
  BY QuietFacts
<1>7. SnapInv'
  <2> SUFFICES ASSUME NEW p \in DOMAIN query, NEW o \in Ops
               PROVE  /\ StatusOf(query'[p].snap[o]) \in Final => StatusOf(field'[o]) \in Final
                      /\ Sure(query'[p].snap[o]) => Sure(field'[o]) \/ Exempt(o)'
                      /\ o \in query'[p].knew.final => StatusOf(query'[p].snap[o]) \in Final
                      /\ o \in query'[p].knew.sure => StatusOf(query'[p].snap[o]) = "MINED_SUCCESS" \/ Exempt(o)'
    BY <1>4 DEF SnapInv, Outlives
  <2>1. CASE p = q
    BY <1>4, <1>5, <1>6, <2>1, QuietFacts
  <2>2. CASE p # q
    BY <1>1, <1>3, <1>4, <2>2, SnapStays
  <2> QED BY <2>1, <2>2
<1>8. DropInv'
  BY <1>1, <1>3 DEF DropInv
<1>9. AnswerInv'
  BY <1>1, <1>3, <1>4, <1>6, QuietFacts DEF AnswerInv
<1>10. ToldInv'
  BY <1>1, <1>3, <1>4, <1>7, <1>9, ToldStays
<1>11. PaymentInv'
  BY <1>1, <1>3, <1>4, <1>6, QuietFacts, ConstantFacts DEF PaymentInv
<1> QED BY <1>3, <1>7, <1>8, <1>9, <1>10, <1>11 DEF StayInv

LEMMA StayStep ==
  ASSUME TypeInv, ChainInv, StageInv, SerialInv, StayInv, [Next]_vars
  PROVE  StayInv'
<1>1. TypeInv' /\ dropped \subseteq dropped' /\ \A p \in Ops : Exempt(p) => Exempt(p)'
  BY TypeStep, ExemptGrows
<1>2. PaymentInv /\ RecordInv /\ DropInv /\ ToldInv /\ SnapInv /\ AnswerInv
  BY DEF StayInv
<1>3. ASSUME NEW r \in Requests, Request(r) \/ Crash(r) PROVE StayInv'
  <2>1. PaymentInv' /\ RecordInv' /\ RecordsLast
    BY <1>2, <1>3, RecordsOfRequest
  <2>2. UNCHANGED <<query, told, writes>>
    BY <1>3, RequestEffect DEF answers
  <2> QED BY <1>1, <1>2, <2>1, <2>2, QueriesStay DEF StayInv
<1>4. ASSUME NEW r \in Requests, NEW o \in Ops, Job(r, o) PROVE StayInv'
  <2>1. PaymentInv' /\ RecordInv' /\ RecordsLast
    BY <1>2, <1>4, RecordsOfJob
  <2>2. UNCHANGED <<query, told, writes>>
    BY <1>4, JobEffect DEF answers
  <2> QED BY <1>1, <1>2, <2>1, <2>2, QueriesStay DEF StayInv
<1>5. ASSUME UNCHANGED <<trusted, field, writes, job, query, told>> PROVE StayInv'
  <2>1. PaymentInv' /\ RecordInv' /\ RecordsLast
    BY <1>2, <1>5 DEF PaymentInv, RecordInv, RecordsLast
  <2> QED BY <1>1, <1>2, <1>5, <2>1, QueriesStay DEF StayInv
<1>6. CASE NewBlock \/ Reorg \/ \E r \in Requests, o \in Ops : Include(r, o)
  BY <1>5, <1>6, ChainEffect DEF given, storage, answers
<1>7. ASSUME NEW q \in DOMAIN query, Query(q) PROVE StayInv'
  BY <1>1, <1>7, StayOfRequest, StayOfAsk, StayOfClose DEF Query
<1>8. CASE UNCHANGED vars
  BY <1>5, <1>8 DEF vars, given, storage, answers
<1>9. ASSUME NEW w \in writes, Store(w) PROVE StayInv'
  <2>1. PaymentInv' /\ RecordInv' /\ RecordsLast
    BY <1>2, <1>9, RecordsOfStore
  <2>2. UNCHANGED <<query, told>> /\ writes' \subseteq writes
    BY <1>9, StoreFacts DEF answers
  <2> QED BY <1>1, <1>2, <2>1, <2>2, QueriesStay DEF StayInv
<1> QED BY <1>3, <1>4, <1>6, <1>7, <1>8, <1>9 DEF Next

LEMMA StayFollows == TypeInv /\ StayInv => AnswersStay
<1> SUFFICES ASSUME TypeInv, StayInv, NEW q \in DOMAIN query, NEW o \in Ops, Fetch(q, o).answer # None
             PROVE  /\ o \in query[q].knew.final => Fetch(q, o).answer.status \in Final
                    /\ o \in query[q].knew.sure =>
                         Fetch(q, o).answer.status = "MINED_SUCCESS" \/ o \in dropped \/ overlap \/ o \in unseen
  BY DEF AnswersStay
<1> DEFINE a == query[q].fetch[o].answer
           f == query[q].snap[o]
<1>1. f \in Field /\ a = Fetch(q, o).answer
  BY FetchFacts DEF Fetch
<1>2. \/ a.status = StatusOf(f)
      \/ a.status = "FAILED" /\ o \in dropped
  BY <1>1 DEF StayInv, AnswerInv
<1>3. o \in query[q].knew.final => StatusOf(f) \in Final
  BY DEF StayInv, SnapInv
<1>4. o \in query[q].knew.sure => StatusOf(f) = "MINED_SUCCESS" \/ Exempt(o)
  BY DEF StayInv, SnapInv
<1>5. "FAILED" \in Final
  BY DEF Final
<1> HIDE DEF a, f
<1> QED BY <1>1, <1>2, <1>3, <1>4, <1>5 DEF Exempt

-----------------------------------------------------------------------------
(* The theorems *)

IInv == TypeInv /\ ChainInv /\ CountInv /\ StageInv /\ SerialInv /\ DepthInv /\ StayInv

LEMMA Invariance == Spec => []IInv
<1>1. Init => IInv
  <2>1. Init => ChainInv
    BY DEF Init, ChainInv
  <2> QED BY <2>1, TypeInit, RequestInit, DepthInit, StayInit DEF IInv
<1>2. IInv /\ [Next]_vars => IInv'
  BY TypeStep, RequestStep, DepthStep, StayStep DEF IInv
<1> QED BY <1>1, <1>2, PTL DEF Spec

\* The values of the variables, for every number of userOps, requests and clients: above
\* all, the list of userOps is pushed to storage at most once by each request
\* (StorageService.createQuote).
THEOREM TypeCorrect == Spec => []TypeOK
<1>1. IInv => TypeOK
  BY TypeFollows DEF IInv
<1> QED BY <1>1, Invariance, PTL

\* Requests that do not overlap between hasQuote and createQuote list a supertransaction
\* once, and queue each of its userOps once (executeQuote, StorageService.hasQuote): the
\* check protects all requests but those that race, whatever crashes.
THEOREM OnceUnlessRaced == Spec => []QueuedOnce
<1>1. IInv => QueuedOnce
  BY QueuedFollows DEF IInv
<1> QED BY <1>1, Invariance, PTL

\* A client who is told that a userOp is confirmed was told so when that many blocks had
\* been built on its first (getQuote's count, and what executor and queries store), whatever
\* the chain reorganises and however old the cached block number is.
THEOREM ConfirmedTheorem == Spec => []ConfirmedIsDeep
<1>1. IInv => ConfirmedIsDeep
  BY DepthFollows DEF IInv
<1> QED BY <1>1, Invariance, PTL

\* What getQuote answers is never taken back: final statuses stay final, and a confirmed
\* success stays one but for the exceptions the property names. Writes of jobs and of
\* queries to the same record do not undo each other.
THEOREM AnswersTheorem == Spec => []AnswersStay
<1>1. IInv => AnswersStay
  BY StayFollows DEF IInv
<1> QED BY <1>1, Invariance, PTL
=============================================================================
