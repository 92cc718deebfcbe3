--------------------------- MODULE SlotDetection ---------------------------
(***************************************************************************)
(* The token slot detection service, and the node as its client.           *)
(*                                                                         *)
(* A call of the node asks its cache, then the service. The service asks   *)
(* its database, then traces balanceOf, tries each mapping it finds by     *)
(* overriding the entry of the holder, and stores the one whose entry is   *)
(* closest to the balance, or that there is none. Requests overlap, RPC    *)
(* and Redis requests fail, blocks change the holder's balance, requests   *)
(* time out, and the service restarts.                                     *)
(*                                                                         *)
(* One token on one chain; all keys of both databases are per token and    *)
(* chain.                                                                  *)
(***************************************************************************)
EXTENDS SlotTrace, FiniteSets

CONSTANTS
  Calls,      \* of the node
  Token,      \* the address asked for
  Null,
  Scenarios   \* what the token is like, who calls, and what may go wrong

\* A token: the program of its balanceOf, and by how much (percent) the balance changes
\* with a word that it reads, for the words it depends on.
IsToken(t) ==
  /\ DOMAIN t.moves \subseteq Execution(Token, t.program).reads
  /\ \A r \in DOMAIN t.moves : t.moves[r] \in Nat /\ Holder \in {r[2][1], r[2][2]}

ASSUME ConstantsOK ==
  \A s \in Scenarios :
    /\ IsToken(s.token) /\ s.stores \in BOOLEAN
    /\ s.kind \in [Calls -> {"override", "limit", "health", "none"}]
    /\ s.budget \in [{"rpc", "block", "redis", "http", "restart"} -> Nat]

VARIABLES
  token, stores, kind,   \* as the scenario says; whether the service has a database
  db,        \* what the service's database says of the token
  poisoned,  \* whether a panic left the lock of the database poisoned
  cache,     \* the slot in the node's cache
  limit,     \* gas limit of a transfer in the node's cache
  at,        \* call -> its step
  checks,    \* call -> candidate -> result of its check
  answer,    \* call -> what the service answers
  result,    \* call -> what it ends with
  budget

given == <<token, stores, kind>>
vars  == <<given, db, poisoned, cache, limit, at, checks, answer, result, budget>>

Mappings(t) == Parse(Execution(Token, t.program).logs, Token)
Candidates  == Mappings(token)
Entry(k)   == <<k.contract, MappingLoc(k.lang, k.slot)>>

\* A record carries, as history, the entries whose check failed, and whether the
\* balance changed between the two calls of a check.
NoRecord == [kind |-> "none", slot |-> Null, ratio |-> 0, failed |-> {}, raced |-> FALSE]
Error    == [NoRecord EXCEPT !.kind = "error"]
Pending  == [state |-> "pending", ratio |-> 0, raced |-> FALSE]

Init ==
  /\ \E s \in Scenarios :
       /\ token = s.token /\ stores = s.stores /\ kind = s.kind /\ budget = s.budget
       /\ at = [c \in Calls |-> IF s.kind[c] = "none" THEN "done" ELSE "new"]
  /\ db = NoRecord /\ poisoned = FALSE /\ cache = NoRecord /\ limit = Null
  /\ checks = [c \in Calls |-> <<>>]
  /\ answer = [c \in Calls |-> NoRecord]
  /\ result = [c \in Calls |-> Null]

Spend(what) == budget[what] > 0 /\ budget' = [budget EXCEPT ![what] = @ - 1]
NoFault     == UNCHANGED budget
To(c, step) == at' = [at EXCEPT ![c] = step]
Reply(c, r) == To(c, "replied") /\ answer' = [answer EXCEPT ![c] = r]

-----------------------------------------------------------------------------
(* The service *)

\* get_search_response: the lock is taken, which panics once it is poisoned.
LookUp(c) ==
  /\ at[c] = "asked"
  /\ \/ stores /\ poisoned /\ Reply(c, Error) /\ NoFault
     \/ stores /\ ~poisoned /\ Spend("redis") /\ Reply(c, Error)
     \/ stores /\ ~poisoned /\ db # NoRecord /\ Reply(c, db) /\ NoFault
     \/ (~stores \/ (~poisoned /\ db = NoRecord)) /\ To(c, "tracing") /\ NoFault /\ UNCHANGED answer
  /\ UNCHANGED <<given, db, poisoned, cache, limit, checks, result>>

TraceIgnored(c) ==   \* variant: a failed trace is an empty one
  /\ at[c] = "tracing"
  /\ To(c, "checking") /\ UNCHANGED answer
  /\ \/ checks' = [checks EXCEPT ![c] = [k \in Candidates |-> Pending]] /\ NoFault
     \/ checks' = [checks EXCEPT ![c] = <<>>] /\ Spend("rpc")
  /\ UNCHANGED <<given, db, poisoned, cache, limit, result>>

\* find_balance_slots
Trace(c) ==
  /\ at[c] = "tracing"
  /\ \/ /\ To(c, "checking") /\ checks' = [checks EXCEPT ![c] = [k \in Candidates |-> Pending]]
        /\ NoFault /\ UNCHANGED answer
     \/ Reply(c, Error) /\ Spend("rpc") /\ UNCHANGED checks
  /\ UNCHANGED <<given, db, poisoned, cache, limit, result>>

\* slot_update_to_bal_ratio: one call with the entry overridden and one without. A block
\* between them makes the balances differ whatever the override does.
Check(c, k) ==
  LET Set(state, ratio, raced) ==
        checks' = [checks EXCEPT ![c][k] = [state |-> state, ratio |-> ratio, raced |-> raced]]
      moved == Entry(k) \in DOMAIN token.moves
  IN /\ at[c] = "checking" /\ k \in DOMAIN checks[c] /\ checks[c][k] = Pending
     /\ \/ moved /\ Set("ok", token.moves[Entry(k)], FALSE) /\ NoFault
        \/ ~moved /\ Set("same", 0, FALSE) /\ NoFault
        \/ ~moved /\ Set("ok", 0, TRUE) /\ Spend("block")
        \/ Set("failed", 0, FALSE) /\ Spend("rpc")
     /\ UNCHANGED <<given, db, poisoned, cache, limit, at, answer, result>>

\* |ratio - 1| in percent, as an unsigned byte.
Distance(ratio) ==
  LET d == IF ratio > 100 THEN ratio - 100 ELSE 100 - ratio IN IF d > 255 THEN 255 ELSE d

\* closest_slot: failed checks are left out, and the first of several that are closest is
\* taken, in the order of a hash set.
Passed(c)  == {k \in DOMAIN checks[c] : checks[c][k].state = "ok"}
Closest(c) == {k \in Passed(c) : \A j \in Passed(c) :
                 Distance(checks[c][k].ratio) <= Distance(checks[c][j].ratio)}
Failed(c)  == {Entry(k) : k \in {j \in DOMAIN checks[c] : checks[c][j].state = "failed"}}

Found(c, k) == [kind |-> "found", slot |-> k, ratio |-> checks[c][k].ratio,
                failed |-> Failed(c), raced |-> \E j \in Passed(c) : checks[c][j].raced]
NotFound(c) == [kind |-> "notfound", slot |-> Null, ratio |-> 0,
                failed |-> Failed(c), raced |-> FALSE]

Checked(c) == at[c] = "checking" /\ \A k \in DOMAIN checks[c] : checks[c][k].state # "pending"

\* _search_handler stores what it found, without waiting. A write of NotFound that fails
\* panics with the lock held; one of a slot is an error.
Store(c, r) ==
  \/ ~stores /\ Reply(c, r) /\ NoFault /\ UNCHANGED <<db, poisoned>>
  \/ stores /\ poisoned /\ Reply(c, Error) /\ NoFault /\ UNCHANGED <<db, poisoned>>
  \/ stores /\ ~poisoned /\ db' = r /\ Reply(c, r) /\ NoFault /\ UNCHANGED poisoned
  \/ /\ stores /\ ~poisoned /\ Reply(c, Error) /\ Spend("redis") /\ UNCHANGED db
     /\ poisoned' = (r.kind = "notfound")

Search(c) ==
  /\ Checked(c)
  /\ IF Passed(c) = {} THEN Store(c, NotFound(c)) ELSE \E k \in Closest(c) : Store(c, Found(c, k))
  /\ UNCHANGED <<given, cache, limit, checks, result>>

TraceTimeout(c) ==   \* variant: only the trace has a time limit
  /\ at[c] = "tracing"
  /\ Reply(c, Error)
  /\ UNCHANGED <<given, db, poisoned, cache, limit, checks, result, budget>>

\* The timeout drops the search where it waits.
Timeout(c) ==
  /\ at[c] = "tracing" \/ (at[c] = "checking" /\ ~Checked(c))
  /\ Reply(c, Error)
  /\ UNCHANGED <<given, db, poisoned, cache, limit, checks, result, budget>>

\* The process exits: its requests end, and the lock is new.
Restart ==
  /\ Spend("restart")
  /\ poisoned' = FALSE
  /\ LET open == {c \in Calls : at[c] \in {"asked", "tracing", "checking"}}
     IN /\ at' = [c \in Calls |-> IF c \in open THEN "replied" ELSE at[c]]
        /\ answer' = [c \in Calls |-> IF c \in open THEN Error ELSE answer[c]]
  /\ UNCHANGED <<given, db, cache, limit, checks, result>>

-----------------------------------------------------------------------------
(* The node *)

\* With a slot or without one: an override is written or the simulation refused, the
\* health of the service is told, and a gas limit is estimated or the default is taken.
Go(c, slot) ==
  \/ kind[c] = "limit" /\ slot # Null /\ To(c, "estimating") /\ UNCHANGED result
  \/ kind[c] = "limit" /\ slot = Null /\ To(c, "done") /\ result' = [result EXCEPT ![c] = "default"]
  \/ /\ kind[c] # "limit" /\ To(c, "done")
     /\ result' = [result EXCEPT ![c] = IF slot # Null THEN "slot" ELSE "failed"]

\* getBalanceStorageSlot: the cache; a failing read is a miss. The gas limit of a transfer
\* is cached in its own right.
Ask(c) ==
  /\ at[c] = "new"
  /\ \/ /\ kind[c] = "limit" /\ limit # Null
        /\ To(c, "done") /\ result' = [result EXCEPT ![c] = limit] /\ NoFault
     \/ /\ (kind[c] # "limit" \/ limit = Null) /\ cache # NoRecord
        /\ Go(c, cache.slot) /\ NoFault
     \/ /\ (kind[c] # "limit" \/ limit = Null)
        /\ IF cache = NoRecord THEN NoFault ELSE Spend("redis")
        /\ To(c, "asked") /\ UNCHANGED result
  /\ UNCHANGED <<given, db, poisoned, cache, limit, checks, answer>>

ReceiveAny(c) ==     \* variant: whatever is answered is cached
  /\ at[c] = "replied"
  /\ Go(c, IF answer[c].kind = "found" THEN answer[c].slot ELSE Null)
  /\ cache' = answer[c]
  /\ UNCHANGED <<given, db, poisoned, limit, checks, answer, budget>>

\* The answer arrives, or is lost; a slot is cached, unless Redis fails.
Receive(c) ==
  /\ at[c] = "replied"
  /\ \/ /\ answer[c].kind = "found"
        /\ Go(c, answer[c].slot)
        /\ (cache' = answer[c] /\ NoFault) \/ (Spend("redis") /\ UNCHANGED cache)
     \/ answer[c].kind # "found" /\ Go(c, Null) /\ NoFault /\ UNCHANGED cache
     \/ Spend("http") /\ Go(c, Null) /\ UNCHANGED cache
  /\ UNCHANGED <<given, db, poisoned, limit, checks, answer>>

\* calculateTokenPullTransferGasLimit: the default stands in for a failed estimate, and
\* is not cached.
Estimate(c) ==
  /\ at[c] = "estimating" /\ To(c, "done")
  /\ \/ limit' = "estimate" /\ result' = [result EXCEPT ![c] = "estimate"] /\ NoFault
     \/ result' = [result EXCEPT ![c] = "default"] /\ Spend("rpc") /\ UNCHANGED limit
  /\ UNCHANGED <<given, db, poisoned, cache, checks, answer>>

Finished == (\A c \in Calls : at[c] = "done") /\ UNCHANGED vars

ServiceStep(c) ==
  \/ LookUp(c) \/ Trace(c) \/ (\E k \in DOMAIN checks[c] : Check(c, k)) \/ Search(c) \/ Timeout(c)
NodeStep(c) == Ask(c) \/ Receive(c) \/ Estimate(c)

Next == Restart \/ (\E c \in Calls : ServiceStep(c) \/ NodeStep(c)) \/ Finished

\* Both processes take their steps, and the timer of a request runs; a trace or a check
\* may never be answered.
Spec ==
  /\ Init /\ [][Next]_vars
  /\ \A c \in Calls : WF_vars(LookUp(c) \/ Search(c) \/ NodeStep(c)) /\ WF_vars(Timeout(c))

-----------------------------------------------------------------------------
Record(K) ==
  [kind : {"none", "found", "notfound", "error"}, slot : K \cup {Null}, ratio : Nat,
   failed : SUBSET {Entry(k) : k \in K}, raced : BOOLEAN]

TypeOK ==
  /\ LET K == Candidates
     IN {db, cache} \cup {answer[c] : c \in Calls} \subseteq Record(K)
  /\ db.kind # "error" /\ cache.kind \in {"none", "found"}
  /\ at \in [Calls -> {"new", "asked", "tracing", "checking", "replied", "estimating", "done"}]
  /\ \A c \in Calls : result[c] \in {Null, "slot", "failed", "estimate", "default"}
  /\ limit \in {Null, "estimate"} /\ poisoned \in BOOLEAN

\* Whichever contract balanceOf reads in, however it is called: every entry its balance
\* depends on is no closer than the recorded one, unless its own check failed; with no slot
\* recorded, all their checks failed; and an entry the balance does not depend on is only
\* recorded after a block between the two calls of a check.
Holds(t, r) ==
  LET unfailed == DOMAIN t.moves \ r.failed IN
  /\ r.kind = "notfound" => unfailed = {}
  /\ r.kind = "found" =>
       /\ \A m \in unfailed : Distance(r.ratio) <= Distance(t.moves[m])
       /\ IF Entry(r.slot) \in DOMAIN t.moves THEN r.ratio = t.moves[Entry(r.slot)]
          ELSE r.raced

\* So it is for the records of the service's database and of the node's cache, which never
\* expire (closest_slot, and _search_handler, which stores its result for good).
RecordsHold == Holds(token, db) /\ Holds(token, cache)

\* Every call of the node ends, although RPC requests may hang, the database fail, the
\* lock be poisoned and the service restart (search_handler's timeout).
EveryCallEnds == \A c \in Calls : <>(at[c] = "done")
=============================================================================
