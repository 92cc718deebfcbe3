----------------------------- MODULE SlotProofs -----------------------------
(***************************************************************************)
(* The records of a token hold whatever the token, the calls that search   *)
(* it and the faults, as long as the parser finds its mappings.            *)
(*                                                                         *)
(* RecordsHold is not inductive: an answer under way becomes the record of *)
(* the cache (AnswersHold), and the result of a check becomes an answer    *)
(* (ChecksHold).                                                           *)
(***************************************************************************)
EXTENDS SlotDetection, TLAPS

\* The parser finds each entry that the balance depends on.
ParserFinds == \A s \in Scenarios : DOMAIN s.token.moves \subseteq {Entry(k) : k \in Mappings(s.token)}

TokenGiven == \E s \in Scenarios : token = s.token
Shaped     == DOMAIN at = Calls /\ DOMAIN checks = Calls /\ DOMAIN answer = Calls

\* What a check has found out about its entry.
CheckHolds(t, k, x) ==
  /\ x.ratio \in Nat
  /\ x.state = "same" => Entry(k) \notin DOMAIN t.moves
  /\ x.state = "ok" => IF Entry(k) \in DOMAIN t.moves THEN x.ratio = t.moves[Entry(k)]
                       ELSE x.raced
  /\ x.state \in {"pending", "same", "ok", "failed"}

ChecksHold ==
  \A c \in Calls : at[c] = "checking" =>
    DOMAIN checks[c] = Candidates /\ \A k \in Candidates : CheckHolds(token, k, checks[c][k])

AnswersHold == \A c \in Calls : Holds(token, answer[c])

SlotInv == TokenGiven /\ Shaped /\ ChecksHold /\ AnswersHold /\ RecordsHold

LEMMA NothingHolds == \A t : Holds(t, NoRecord) /\ Holds(t, Error)
BY DEF Holds, NoRecord, Error

LEMMA PendingHolds == \A t, k : CheckHolds(t, k, Pending)
BY DEF CheckHolds, Pending

\* The entries the balance depends on are all checked.
LEMMA AllTried ==
  ASSUME ParserFinds, SlotInv, NEW c \in Calls, at[c] = "checking", NEW m \in DOMAIN token.moves
  PROVE  \E k \in DOMAIN checks[c] : Entry(k) = m /\ CheckHolds(token, k, checks[c][k])
BY DEF ParserFinds, SlotInv, TokenGiven, ChecksHold, Candidates

\* One that was answered passed.
LEMMA Answered ==
  ASSUME ParserFinds, SlotInv, NEW c \in Calls, Checked(c),
         NEW m \in DOMAIN token.moves, m \notin Failed(c)
  PROVE  \E k \in Passed(c) : Entry(k) = m /\ checks[c][k].ratio = token.moves[m]
<1>1. PICK k \in DOMAIN checks[c] : Entry(k) = m /\ CheckHolds(token, k, checks[c][k])
  BY AllTried DEF Checked
<1>2. checks[c][k].state # "pending"
  BY <1>1 DEF Checked
<1>3. checks[c][k].state # "failed"
  BY <1>1 DEF Failed
<1>4. checks[c][k].state = "ok"
  BY <1>1, <1>2, <1>3 DEF CheckHolds
<1> QED
  BY <1>1, <1>4 DEF Passed, CheckHolds

LEMMA NotFoundHolds ==
  ASSUME ParserFinds, SlotInv, NEW c \in Calls, Checked(c), Passed(c) = {}
  PROVE  Holds(token, NotFound(c))
<1>1. DOMAIN token.moves \subseteq Failed(c)
  BY Answered
<1> QED
  BY <1>1 DEF Holds, NotFound

LEMMA FoundHolds ==
  ASSUME ParserFinds, SlotInv, NEW c \in Calls, Checked(c), NEW k \in Closest(c)
  PROVE  Holds(token, Found(c, k))
<1>1. k \in Passed(c) /\ k \in DOMAIN checks[c] /\ checks[c][k].state = "ok"
  BY DEF Closest, Passed
<1>2. CheckHolds(token, k, checks[c][k])
  BY <1>1 DEF SlotInv, ChecksHold, Checked
<1>3. \A m \in DOMAIN token.moves \ Failed(c) :
        Distance(checks[c][k].ratio) <= Distance(token.moves[m])
  <2>1. TAKE m \in DOMAIN token.moves \ Failed(c)
  <2>2. PICK j \in Passed(c) : Entry(j) = m /\ checks[c][j].ratio = token.moves[m]
    BY Answered
  <2> QED
    BY <2>2 DEF Closest
<1>4. IF Entry(k) \in DOMAIN token.moves THEN checks[c][k].ratio = token.moves[Entry(k)]
      ELSE \E j \in Passed(c) : checks[c][j].raced
  BY <1>1, <1>2 DEF CheckHolds
<1> DEFINE r == Found(c, k)
<1>5. /\ r.kind = "found" /\ r.slot = k /\ r.ratio = checks[c][k].ratio
      /\ r.failed = Failed(c) /\ r.raced = \E j \in Passed(c) : checks[c][j].raced
  BY DEF Found
<1> HIDE DEF r
<1>6. Holds(token, r)
  BY <1>3, <1>4, <1>5 DEF Holds
<1> QED
  BY <1>6 DEF r

LEMMA InitInv == Init => SlotInv
<1> SUFFICES ASSUME Init PROVE SlotInv
  OBVIOUS
<1>1. TokenGiven /\ Shaped
  BY DEF Init, TokenGiven, Shaped
<1>2. ChecksHold
  BY DEF Init, ChecksHold
<1> QED
  BY <1>1, <1>2, NothingHolds DEF Init, SlotInv, AnswersHold, RecordsHold

\* What an answer of the service keeps, of the things it touches.
LEMMA ReplyKeeps ==
  ASSUME SlotInv, UNCHANGED <<given, checks>>, NEW c \in Calls, NEW r, Holds(token, r), Reply(c, r)
  PROVE  TokenGiven' /\ Shaped' /\ ChecksHold' /\ AnswersHold'
<1>1. TokenGiven' /\ Shaped'
  BY DEF SlotInv, TokenGiven, Shaped, Reply, To, given
<1>2. ChecksHold'
  BY DEF SlotInv, Shaped, ChecksHold, Reply, To, given, Candidates
<1>3. AnswersHold'
  BY DEF SlotInv, Shaped, AnswersHold, Reply, given
<1> QED
  BY <1>1, <1>2, <1>3

\* A step of the node, which asks for no check and answers nothing.
LEMMA NodeKeeps ==
  ASSUME SlotInv, UNCHANGED <<given, checks, answer>>, NEW c \in Calls, NEW step, step # "checking",
         To(c, step)
  PROVE  TokenGiven' /\ Shaped' /\ ChecksHold' /\ AnswersHold'
<1>1. TokenGiven' /\ Shaped'
  BY DEF SlotInv, TokenGiven, Shaped, To, given
<1>2. ChecksHold'
  BY DEF SlotInv, Shaped, ChecksHold, To, given, Candidates
<1> QED
  BY <1>1, <1>2 DEF SlotInv, AnswersHold, given

LEMMA GoEnds ==
  ASSUME NEW c, NEW slot, Go(c, slot)
  PROVE  \E step \in {"estimating", "done"} : To(c, step)
BY DEF Go

-----------------------------------------------------------------------------
LEMMA LookUpKeeps ==
  ASSUME SlotInv, NEW c \in Calls, LookUp(c)
  PROVE  SlotInv'
<1>1. UNCHANGED <<given, checks, db, cache>>
  BY DEF LookUp
<1>2. RecordsHold'
  BY <1>1 DEF SlotInv, RecordsHold, given
<1>3. CASE Reply(c, Error)
  BY <1>1, <1>2, <1>3, ReplyKeeps, NothingHolds DEF SlotInv
<1>4. CASE Reply(c, db)
  BY <1>1, <1>2, <1>4, ReplyKeeps DEF SlotInv, RecordsHold
<1>5. CASE To(c, "tracing") /\ UNCHANGED answer
  BY <1>1, <1>2, <1>5, NodeKeeps DEF SlotInv
<1> QED
  BY <1>3, <1>4, <1>5 DEF LookUp

LEMMA TraceKeeps ==
  ASSUME SlotInv, NEW c \in Calls, Trace(c)
  PROVE  SlotInv'
<1>1. UNCHANGED <<given, db, cache>>
  BY DEF Trace
<1>2. RecordsHold'
  BY <1>1 DEF SlotInv, RecordsHold, given
<1>3. CASE To(c, "checking") /\ checks' = [checks EXCEPT ![c] = [k \in Candidates |-> Pending]]
           /\ UNCHANGED answer
  <2>1. TokenGiven' /\ Shaped' /\ AnswersHold'
    BY <1>1, <1>3 DEF SlotInv, TokenGiven, Shaped, AnswersHold, To, given
  <2>2. Candidates' = Candidates /\ token' = token
    BY <1>1 DEF Candidates, given
  <2>3. ChecksHold'
    <3> SUFFICES ASSUME NEW d \in Calls, at'[d] = "checking"
                 PROVE  /\ DOMAIN checks'[d] = Candidates
                        /\ \A k \in Candidates : CheckHolds(token, k, checks'[d][k])
      BY <2>2 DEF ChecksHold
    <3>1. CASE d = c
      BY <1>3, <3>1, PendingHolds DEF SlotInv, Shaped
    <3>2. CASE d # c
      BY <1>3, <3>2 DEF SlotInv, Shaped, ChecksHold, To
    <3> QED
      BY <3>1, <3>2
  <2> QED
    BY <1>2, <2>1, <2>3 DEF SlotInv
<1>4. CASE Reply(c, Error) /\ UNCHANGED checks
  BY <1>1, <1>2, <1>4, ReplyKeeps, NothingHolds DEF SlotInv
<1> QED
  BY <1>3, <1>4 DEF Trace

\* Whatever a check finds out holds.
LEMMA ResultHolds ==
  ASSUME ParserFinds, ConstantsOK, SlotInv, NEW c \in Calls, NEW k \in Candidates, Check(c, k)
  PROVE  \E x : CheckHolds(token, k, x) /\ checks' = [checks EXCEPT ![c][k] = x]
<1>1. \A m \in DOMAIN token.moves : token.moves[m] \in Nat
  BY DEF ConstantsOK, IsToken, SlotInv, TokenGiven
<1> QED
  BY <1>1 DEF Check, CheckHolds

LEMMA CheckKeeps ==
  ASSUME ParserFinds, ConstantsOK, SlotInv, NEW c \in Calls, NEW k \in DOMAIN checks[c], Check(c, k)
  PROVE  SlotInv'
<1>1. UNCHANGED <<given, db, cache, at, answer>> /\ at[c] = "checking"
  BY DEF Check
<1>2. TokenGiven' /\ AnswersHold' /\ RecordsHold'
  BY <1>1 DEF SlotInv, TokenGiven, AnswersHold, RecordsHold, given
<1>3. k \in Candidates
  BY <1>1 DEF SlotInv, ChecksHold
<1>4. PICK x : CheckHolds(token, k, x) /\ checks' = [checks EXCEPT ![c][k] = x]
  BY <1>3, ResultHolds
<1>5. Shaped'
  BY <1>1, <1>4 DEF SlotInv, Shaped
<1>6. Candidates' = Candidates /\ token' = token
  BY <1>1 DEF Candidates, given
<1>7. ChecksHold'
  BY <1>1, <1>3, <1>4, <1>6 DEF SlotInv, Shaped, ChecksHold
<1> QED
  BY <1>2, <1>5, <1>7 DEF SlotInv

LEMMA StoreKeeps ==
  ASSUME SlotInv, NEW c \in Calls, NEW r, Holds(token, r), Store(c, r),
         UNCHANGED <<given, cache, checks>>
  PROVE  SlotInv'
<1>1. Reply(c, r) \/ Reply(c, Error)
  BY DEF Store
<1>2. db' = db \/ db' = r
  BY DEF Store
<1>3. RecordsHold'
  BY <1>2 DEF SlotInv, RecordsHold, given
<1>4. TokenGiven' /\ Shaped' /\ ChecksHold' /\ AnswersHold'
  BY <1>1, ReplyKeeps, NothingHolds
<1> QED
  BY <1>3, <1>4 DEF SlotInv

LEMMA SearchKeeps ==
  ASSUME ParserFinds, SlotInv, NEW c \in Calls, Search(c)
  PROVE  SlotInv'
<1>1. UNCHANGED <<given, cache, checks>> /\ Checked(c)
  BY DEF Search
<1>2. CASE Passed(c) = {}
  BY <1>1, <1>2, NotFoundHolds, StoreKeeps DEF Search
<1>3. CASE Passed(c) # {}
  <2>1. PICK k \in Closest(c) : Store(c, Found(c, k))
    BY <1>3 DEF Search
  <2> QED
    BY <1>1, <2>1, FoundHolds, StoreKeeps
<1> QED
  BY <1>2, <1>3

LEMMA TimeoutKeeps ==
  ASSUME SlotInv, NEW c \in Calls, Timeout(c)
  PROVE  SlotInv'
<1>1. UNCHANGED <<given, checks, db, cache>> /\ Reply(c, Error)
  BY DEF Timeout
<1>2. RecordsHold'
  BY <1>1 DEF SlotInv, RecordsHold, given
<1> QED
  BY <1>1, <1>2, ReplyKeeps, NothingHolds DEF SlotInv

LEMMA RestartKeeps ==
  ASSUME SlotInv, Restart
  PROVE  SlotInv'
<1>1. UNCHANGED <<given, checks, db, cache>>
  BY DEF Restart
<1>2. TokenGiven' /\ RecordsHold' /\ Candidates' = Candidates
  BY <1>1 DEF SlotInv, TokenGiven, RecordsHold, given, Candidates
<1>3. Shaped'
  BY <1>1 DEF Restart, SlotInv, Shaped
<1>4. ChecksHold'
  BY <1>1, <1>2 DEF Restart, SlotInv, ChecksHold, given
<1>5. AnswersHold'
  BY <1>1, NothingHolds DEF Restart, SlotInv, AnswersHold, given
<1> QED
  BY <1>2, <1>3, <1>4, <1>5 DEF SlotInv

LEMMA AskKeeps ==
  ASSUME SlotInv, NEW c \in Calls, Ask(c)
  PROVE  SlotInv'
<1>1. UNCHANGED <<given, checks, answer, db, cache>>
  BY DEF Ask
<1>2. RecordsHold'
  BY <1>1 DEF SlotInv, RecordsHold, given
<1>3. \E step \in {"estimating", "done", "asked"} : To(c, step)
  BY GoEnds DEF Ask
<1> QED
  BY <1>1, <1>2, <1>3, NodeKeeps DEF SlotInv

LEMMA ReceiveKeeps ==
  ASSUME SlotInv, NEW c \in Calls, Receive(c)
  PROVE  SlotInv'
<1>1. UNCHANGED <<given, checks, answer, db>>
  BY DEF Receive
<1>2. cache' = cache \/ cache' = answer[c]
  BY DEF Receive
<1>3. RecordsHold'
  BY <1>1, <1>2 DEF SlotInv, AnswersHold, RecordsHold, given
<1>4. \E step \in {"estimating", "done"} : To(c, step)
  BY GoEnds DEF Receive
<1> QED
  BY <1>1, <1>3, <1>4, NodeKeeps DEF SlotInv

LEMMA EstimateKeeps ==
  ASSUME SlotInv, NEW c \in Calls, Estimate(c)
  PROVE  SlotInv'
<1>1. UNCHANGED <<given, checks, answer, db, cache>> /\ To(c, "done")
  BY DEF Estimate
<1>2. RecordsHold'
  BY <1>1 DEF SlotInv, RecordsHold, given
<1> QED
  BY <1>1, <1>2, NodeKeeps DEF SlotInv

LEMMA StepInv == ParserFinds /\ ConstantsOK /\ SlotInv /\ [Next]_vars => SlotInv'
<1> SUFFICES ASSUME ParserFinds, ConstantsOK, SlotInv, [Next]_vars PROVE SlotInv'
  OBVIOUS
<1>1. CASE UNCHANGED vars
  BY <1>1 DEF vars, given, SlotInv, TokenGiven, Shaped, ChecksHold, Candidates, AnswersHold, RecordsHold
<1>2. CASE Restart
  BY <1>2, RestartKeeps
<1>3. ASSUME NEW c \in Calls, ServiceStep(c) PROVE SlotInv'
  <2>1. ASSUME NEW k \in DOMAIN checks[c], Check(c, k) PROVE SlotInv'
    BY <2>1, CheckKeeps
  <2> QED
    BY <1>3, <2>1, LookUpKeeps, TraceKeeps, SearchKeeps, TimeoutKeeps DEF ServiceStep
<1>4. ASSUME NEW c \in Calls, NodeStep(c) PROVE SlotInv'
  BY <1>4, AskKeeps, ReceiveKeeps, EstimateKeeps DEF NodeStep
<1> QED
  BY <1>1, <1>2, <1>3, <1>4 DEF Next, Finished

\* Every record of a token holds, for all tokens whose mappings the parser finds: a wrong
\* one takes the failed checks and the block that Holds names (_search_handler).
THEOREM RecordsTheorem == ParserFinds => (Spec => []RecordsHold)
<1> SUFFICES ASSUME ParserFinds PROVE Spec => []RecordsHold
  OBVIOUS
<1>1. SlotInv /\ [Next]_vars => SlotInv'
  BY StepInv, ConstantsOK
<1>2. SlotInv => RecordsHold
  BY DEF SlotInv
<1> QED
  BY InitInv, <1>1, <1>2, PTL DEF Spec

-----------------------------------------------------------------------------
(* Types: checks concern mappings of the token, and records come from them.  *)

Outcome == [state : {"pending", "same", "ok", "failed"}, ratio : Nat, raced : BOOLEAN]

Steps == {"new", "asked", "tracing", "checking", "replied", "estimating", "done"}

TypeInv ==
  /\ TokenGiven
  /\ at \in [Calls -> Steps] /\ DOMAIN checks = Calls
  /\ \A c \in Calls : /\ DOMAIN checks[c] \subseteq Candidates
                      /\ \A k \in DOMAIN checks[c] : checks[c][k] \in Outcome
  /\ answer \in [Calls -> Record(Candidates)]
  /\ result \in [Calls -> {Null, "slot", "failed", "estimate", "default"}]
  /\ db \in Record(Candidates) /\ db.kind # "error"
  /\ cache \in Record(Candidates) /\ cache.kind \in {"none", "found"}
  /\ limit \in {Null, "estimate"} /\ poisoned \in BOOLEAN

LEMMA BlankRecords == \A K : NoRecord \in Record(K) /\ Error \in Record(K)
BY DEF NoRecord, Error, Record

LEMMA TypeInit == Init => TypeInv
<1> SUFFICES ASSUME Init PROVE TypeInv
  OBVIOUS
<1>1. at \in [Calls -> Steps] /\ TokenGiven
  BY DEF Init, Steps, TokenGiven
<1>2. NoRecord.kind = "none"
  BY DEF NoRecord
<1>3. /\ DOMAIN checks = Calls
      /\ \A c \in Calls : DOMAIN checks[c] = {}
  BY DEF Init
<1>4. db = NoRecord /\ cache = NoRecord /\ \A r \in {NoRecord} : r \in Record(Candidates)
  BY BlankRecords DEF Init
<1>5. answer \in [Calls -> Record(Candidates)]
  BY BlankRecords DEF Init
<1>6. result \in [Calls -> {Null, "slot", "failed", "estimate", "default"}] /\ limit = Null
      /\ poisoned = FALSE
  BY DEF Init
<1> QED
  BY <1>1, <1>2, <1>3, <1>4, <1>5, <1>6 DEF TypeInv

\* What closest_slot makes of the checks is a record of the token.
LEMMA ResultTypes ==
  ASSUME TypeInv, NEW c \in Calls
  PROVE  /\ NotFound(c) \in Record(Candidates) /\ NotFound(c).kind = "notfound"
         /\ \A k \in Closest(c) : Found(c, k) \in Record(Candidates) /\ Found(c, k).kind = "found"
<1>1. DOMAIN checks[c] \subseteq Candidates /\ \A k \in DOMAIN checks[c] : checks[c][k] \in Outcome
  BY DEF TypeInv
<1>2. Failed(c) \in SUBSET {Entry(k) : k \in Candidates}
  BY <1>1 DEF Failed
<1>3. \A k \in Closest(c) : k \in Candidates /\ checks[c][k].ratio \in Nat
  BY <1>1 DEF Closest, Passed, Outcome
<1>4. NotFound(c) \in Record(Candidates) /\ NotFound(c).kind = "notfound"
  BY <1>2 DEF NotFound, Record
<1>5. ASSUME NEW k \in Closest(c)
      PROVE  Found(c, k) \in Record(Candidates) /\ Found(c, k).kind = "found"
  <2>1. (\E j \in Passed(c) : checks[c][j].raced) \in BOOLEAN
    OBVIOUS
  <2> QED BY <1>2, <1>3, <2>1 DEF Found, Record
<1> QED BY <1>4, <1>5

LEMMA TypeStep == TypeInv /\ [Next]_vars => TypeInv'
<1> SUFFICES ASSUME TypeInv, [Next]_vars PROVE TypeInv'
  OBVIOUS
<1> DEFINE K == Candidates
<1>1. /\ TokenGiven /\ at \in [Calls -> Steps] /\ DOMAIN checks = Calls
      /\ answer \in [Calls -> Record(K)]
      /\ result \in [Calls -> {Null, "slot", "failed", "estimate", "default"}]
  BY DEF TypeInv
<1>2. \A r \in Record(K) : r.slot \in K \cup {Null}
  BY DEF Record
<1>3. ASSUME UNCHANGED <<given, checks>>
      PROVE  /\ TokenGiven' /\ Candidates' = K /\ DOMAIN checks' = Calls
             /\ \A c \in Calls : /\ DOMAIN checks'[c] \subseteq K
                                 /\ \A k \in DOMAIN checks'[c] : checks'[c][k] \in Outcome
  BY <1>3 DEF TypeInv, TokenGiven, given, Candidates
\* What the steps of a call assign.
<1>4. ASSUME NEW c \in Calls
      PROVE  /\ \A s \in Steps : To(c, s) => at' \in [Calls -> Steps]
             /\ \A r \in Record(K) : Reply(c, r) =>
                  at' \in [Calls -> Steps] /\ answer' \in [Calls -> Record(K)]
             /\ \A v : Go(c, v) =>
                  /\ at' \in [Calls -> Steps]
                  /\ result' \in [Calls -> {Null, "slot", "failed", "estimate", "default"}]
  BY <1>1 DEF To, Reply, Go, Steps
<1>5. ASSUME NEW c \in Calls, LookUp(c) PROVE TypeInv'
  <2>1. /\ TokenGiven' /\ Candidates' = K /\ DOMAIN checks' = Calls
        /\ \A d \in Calls : /\ DOMAIN checks'[d] \subseteq K
                            /\ \A k \in DOMAIN checks'[d] : checks'[d][k] \in Outcome
    BY <1>3, <1>5 DEF LookUp
  <2>2. at' \in [Calls -> Steps] /\ answer' \in [Calls -> Record(K)]
    BY <1>1, <1>4, <1>5, BlankRecords DEF LookUp, Steps, TypeInv
  <2> QED BY <1>5, <2>1, <2>2 DEF LookUp, TypeInv
<1>6. ASSUME NEW c \in Calls, Trace(c) PROVE TypeInv'
  <2>1. TokenGiven' /\ Candidates' = K
    BY <1>1, <1>6 DEF Trace, TokenGiven, given, Candidates
  <2>2. at' \in [Calls -> Steps] /\ answer' \in [Calls -> Record(K)]
    BY <1>1, <1>4, <1>6, BlankRecords DEF Trace, Steps
  <2>3. Pending \in Outcome
    BY DEF Pending, Outcome
  <2>4. /\ DOMAIN checks' = Calls
        /\ \A d \in Calls : /\ DOMAIN checks'[d] \subseteq K
                            /\ \A k \in DOMAIN checks'[d] : checks'[d][k] \in Outcome
    <3>1. CASE UNCHANGED checks
      BY <3>1 DEF TypeInv
    <3>2. CASE checks' = [checks EXCEPT ![c] = [k \in K |-> Pending]]
      BY <2>3, <3>2 DEF TypeInv
    <3> QED BY <1>6, <3>1, <3>2 DEF Trace
  <2> QED BY <1>6, <2>1, <2>2, <2>4 DEF Trace, TypeInv
<1>7. ASSUME NEW c \in Calls, NEW k \in DOMAIN checks[c], Check(c, k) PROVE TypeInv'
  <2>1. TokenGiven' /\ Candidates' = K
    BY <1>1, <1>7 DEF Check, TokenGiven, given, Candidates
  <2>2. PICK x \in Outcome : checks' = [checks EXCEPT ![c][k] = x]
    <3>1. Entry(k) \in DOMAIN token.moves => token.moves[Entry(k)] \in Nat
      BY <1>1, ConstantsOK DEF TokenGiven, ConstantsOK, IsToken
    <3> DEFINE Of(state, ratio, raced) == [state |-> state, ratio |-> ratio, raced |-> raced]
    <3>2. /\ Entry(k) \in DOMAIN token.moves => Of("ok", token.moves[Entry(k)], FALSE) \in Outcome
          /\ Of("same", 0, FALSE) \in Outcome /\ Of("ok", 0, TRUE) \in Outcome
          /\ Of("failed", 0, FALSE) \in Outcome
      BY <3>1 DEF Outcome
    <3> QED BY <1>7, <3>2 DEF Check
  <2>3. /\ DOMAIN checks' = Calls
        /\ \A d \in Calls : /\ DOMAIN checks'[d] \subseteq K
                            /\ \A j \in DOMAIN checks'[d] : checks'[d][j] \in Outcome
    <3>1. /\ DOMAIN checks' = Calls /\ \A d \in Calls \ {c} : checks'[d] = checks[d]
          /\ DOMAIN checks'[c] = DOMAIN checks[c] /\ checks'[c][k] = x
          /\ \A j \in DOMAIN checks[c] \ {k} : checks'[c][j] = checks[c][j]
      BY <1>1, <2>2
    <3> QED BY <3>1 DEF TypeInv
  <2> QED BY <1>7, <2>1, <2>3 DEF Check, TypeInv
<1>8. ASSUME NEW c \in Calls, Search(c) PROVE TypeInv'
  <2>1. /\ TokenGiven' /\ Candidates' = K /\ DOMAIN checks' = Calls
        /\ \A d \in Calls : /\ DOMAIN checks'[d] \subseteq K
                            /\ \A k \in DOMAIN checks'[d] : checks'[d][k] \in Outcome
    BY <1>3, <1>8 DEF Search
  <2>2. PICK r \in Record(K) : Store(c, r) /\ r.kind # "error"
    BY <1>8, ResultTypes DEF Search
  <2>3. /\ at' \in [Calls -> Steps] /\ answer' \in [Calls -> Record(K)]
        /\ db' \in Record(K) /\ db'.kind # "error"
    BY <1>4, <2>2, BlankRecords DEF Store, TypeInv
  <2>4. poisoned' \in BOOLEAN
    BY <2>2 DEF Store, TypeInv
  <2> QED BY <1>8, <2>1, <2>3, <2>4 DEF Search, TypeInv
<1>9. ASSUME NEW c \in Calls, Timeout(c) PROVE TypeInv'
  <2>1. /\ TokenGiven' /\ Candidates' = K /\ DOMAIN checks' = Calls
        /\ \A d \in Calls : /\ DOMAIN checks'[d] \subseteq K
                            /\ \A k \in DOMAIN checks'[d] : checks'[d][k] \in Outcome
    BY <1>3, <1>9 DEF Timeout
  <2>2. at' \in [Calls -> Steps] /\ answer' \in [Calls -> Record(K)]
    BY <1>4, <1>9, BlankRecords DEF Timeout
  <2> QED BY <1>9, <2>1, <2>2 DEF Timeout, TypeInv
<1>10. ASSUME Restart PROVE TypeInv'
  <2>1. /\ TokenGiven' /\ Candidates' = K /\ DOMAIN checks' = Calls
        /\ \A d \in Calls : /\ DOMAIN checks'[d] \subseteq K
                            /\ \A k \in DOMAIN checks'[d] : checks'[d][k] \in Outcome
    BY <1>3, <1>10 DEF Restart
  <2>2. at' \in [Calls -> Steps] /\ answer' \in [Calls -> Record(K)]
    BY <1>1, <1>10, BlankRecords DEF Restart, Steps
  <2> QED BY <1>10, <2>1, <2>2 DEF Restart, TypeInv
<1>11. ASSUME NEW c \in Calls, Ask(c) PROVE TypeInv'
  <2>1. /\ TokenGiven' /\ Candidates' = K /\ DOMAIN checks' = Calls
        /\ \A d \in Calls : /\ DOMAIN checks'[d] \subseteq K
                            /\ \A k \in DOMAIN checks'[d] : checks'[d][k] \in Outcome
    BY <1>3, <1>11 DEF Ask
  <2>2. /\ at' \in [Calls -> Steps]
        /\ result' \in [Calls -> {Null, "slot", "failed", "estimate", "default"}]
    BY <1>1, <1>4, <1>11 DEF Ask, Steps, TypeInv
  <2> QED BY <1>11, <2>1, <2>2 DEF Ask, TypeInv
<1>12. ASSUME NEW c \in Calls, Receive(c) PROVE TypeInv'
  <2>1. /\ TokenGiven' /\ Candidates' = K /\ DOMAIN checks' = Calls
        /\ \A d \in Calls : /\ DOMAIN checks'[d] \subseteq K
                            /\ \A k \in DOMAIN checks'[d] : checks'[d][k] \in Outcome
    BY <1>3, <1>12 DEF Receive
  <2>2. /\ at' \in [Calls -> Steps]
        /\ result' \in [Calls -> {Null, "slot", "failed", "estimate", "default"}]
    BY <1>4, <1>12 DEF Receive
  <2>3. cache' \in Record(K) /\ cache'.kind \in {"none", "found"}
    BY <1>1, <1>12 DEF Receive, TypeInv
  <2> QED BY <1>12, <2>1, <2>2, <2>3 DEF Receive, TypeInv
<1>13. ASSUME NEW c \in Calls, Estimate(c) PROVE TypeInv'
  <2>1. /\ TokenGiven' /\ Candidates' = K /\ DOMAIN checks' = Calls
        /\ \A d \in Calls : /\ DOMAIN checks'[d] \subseteq K
                            /\ \A k \in DOMAIN checks'[d] : checks'[d][k] \in Outcome
    BY <1>3, <1>13 DEF Estimate
  <2>2. /\ at' \in [Calls -> Steps]
        /\ result' \in [Calls -> {Null, "slot", "failed", "estimate", "default"}]
        /\ limit' \in {Null, "estimate"}
    BY <1>1, <1>13 DEF Estimate, To, Steps, TypeInv
  <2> QED BY <1>13, <2>1, <2>2 DEF Estimate, TypeInv
<1>14. CASE UNCHANGED vars
  BY <1>14, <1>3 DEF vars, TypeInv
<1> QED BY <1>5, <1>6, <1>7, <1>8, <1>9, <1>10, <1>11, <1>12, <1>13, <1>14
        DEF Next, ServiceStep, NodeStep, Finished

\* Every reachable state of the databases, of the calls and of their answers is well formed:
\* the service stores no error, and the node caches slots only (getBalanceStorageSlot).
THEOREM TypeCorrect == Spec => []TypeOK
<1>1. TypeInv => TypeOK
  BY DEF TypeInv, TypeOK, Steps
<1> QED BY <1>1, TypeInit, TypeStep, PTL DEF Spec
=============================================================================
