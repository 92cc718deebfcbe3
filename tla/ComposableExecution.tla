------------------------ MODULE ComposableExecution ------------------------
(***************************************************************************)
(* Composable batches on chain: ComposableExecutionModule and the library  *)
(* resolve the inputs of each entry, check their constraints, make the     *)
(* call and capture outputs in the Storage contract.                       *)
(*                                                                         *)
(* A call may run anything, further batches of the same or another account *)
(* included, and may revert and be caught by who made it: the frames of    *)
(* the running batches form a stack, each with the state to fall back to.  *)
(*                                                                         *)
(* Memory behind a value is whatever is there: reads past the end of a     *)
(* value give any word.                                                    *)
(***************************************************************************)
EXTENDS Integers, Sequences

CONSTANTS
  Accounts,   \* smart accounts
  Module,     \* the module's address, msg.sender of captures in call mode
  SlotNames,  \* base slots of captures
  Getters,    \* what a static call or a balance query can read
  Words,      \* 32-byte words
  Unset,      \* mark of a slot that was never written
  Returns,    \* data a call can return: sequences of words
  Batches,    \* batches accounts may send: sequences of entries
  MaxWords,   \* bound on the words captured by one output
  MaxDepth,   \* bound on batches running inside each other
  MaxBatches  \* bound on batches started, and on writes made without one

Slots == SlotNames \X (1..MaxWords)    \* keccak256(base slot, index)

Constraint == [type: {"EQ", "GTE", "LTE"}, ref: Words] \cup [type: {"IN"}, ref: Words, upper: Words]

InputParam ==
  LET Of(fetchers, data) == [type: {"TARGET", "VALUE", "CALL_DATA"}, fetch: fetchers, data: data,
                             constraints: Seq(Constraint)]
  IN  Of({"RAW_BYTES"}, Seq(Words)) \cup Of({"BALANCE"}, Getters)
        \cup Of({"STATIC_CALL"}, Getters \cup Slots)

OutputParam == [fetch: {"EXEC_RESULT", "STATIC_CALL"}, source: Getters, slot: SlotNames,
                count: 0..MaxWords]

ASSUME ComposableConstantsOK ==
  /\ Accounts # {} /\ Module \notin Accounts
  /\ Unset \notin Words
  /\ Words \subseteq Nat /\ 0 \in Words
  /\ MaxWords \in Nat /\ MaxDepth \in Nat /\ MaxBatches \in Nat
  /\ Returns \subseteq Seq(Words)
  /\ Batches # {}
  /\ Batches \subseteq Seq([inputs: Seq(InputParam), outputs: Seq(OutputParam)])

VARIABLES
  store,    \* Storage: account, caller, slot -> word
  world,    \* getter -> words it answers
  depth,    \* frames on the stack
  frames,   \* level -> frame
  begun,    \* batches started, and writes made without one
  written   \* keys of Storage written in the running transaction (history)

vars == <<store, world, depth, frames, begun, written>>

-----------------------------------------------------------------------------
Callers == Accounts \cup {Module}
Keys    == Accounts \X Callers \X Slots  \* keccak256(namespace, slot)
Levels  == 1..MaxDepth
Blank   == [s \in Slots |-> Unset]
State   == [store: [Keys -> Words \cup {Unset}], world: [Getters -> Seq(Words)]]

Frame == [acct: Accounts, mode: {"call", "delegate"}, batch: Batches, at: Nat \ {0},
          pc: {"inputs", "call", "outputs"}, out: Nat \ {0}, args: Seq(Seq(Words)),
          ret: Seq(Words), saved: State, captured: [Slots -> Words \cup {Unset}]]

\* getNamespace(account, msg.sender): the module writes for its caller, a
\* delegatecall makes the account itself the caller.
Caller(f)  == IF f.mode = "delegate" THEN f.acct ELSE Module
Key(f, s)  == <<f.acct, Caller(f), s>>
SameSpace(f, g) == f.acct = g.acct /\ Caller(f) = Caller(g)

NewFrame(a, mode, b, st) ==
  [acct |-> a, mode |-> mode, batch |-> b, at |-> 1, pc |-> "inputs", out |-> 1,
   args |-> <<>>, ret |-> <<>>, saved |-> st, captured |-> Blank]

\* What the levels above the top hold.
NoFrame ==
  NewFrame(CHOOSE a \in Accounts : TRUE, "call", CHOOSE b \in Batches : TRUE,
           [store |-> [k \in Keys |-> Unset], world |-> [g \in Getters |-> <<>>]])

Init ==
  /\ store = [k \in Keys |-> Unset]
  /\ world = [g \in Getters |-> <<>>]
  /\ depth = 0
  /\ frames = [i \in Levels |-> NoFrame]
  /\ begun = 0
  /\ written = {}

Top   == frames[depth]
Entry == Top.batch[Top.at]
Pop ==
  /\ depth' = depth - 1
  /\ frames' = [i \in Levels |-> IF i = depth THEN NoFrame ELSE frames[i]]

SetTop(f) == frames' = [i \in Levels |-> IF i = depth THEN f ELSE frames[i]]

-----------------------------------------------------------------------------
(* processInputs *)

\* Word i of a value in memory, junk past its end.
WordAt(v, i, junk) == IF i <= Len(v) THEN v[i] ELSE junk

Holds(w, c) ==
  CASE c.type = "EQ"  -> w = c.ref
    [] c.type = "GTE" -> w >= c.ref
    [] c.type = "LTE" -> w <= c.ref
    [] c.type = "IN"  -> c.ref <= w /\ w <= c.upper

\* _validateConstraints: constraint i is checked against word i. It may hold of what
\* lies past the end.
Passes(v, cs) == \A i \in 1..Len(cs) : \E junk \in Words : Holds(WordAt(v, i, junk), cs[i])

FetchedUnwritten(p) ==   \* variant: readStorage answers for any slot
  IF p.fetch = "STATIC_CALL" /\ p.data \in Slots THEN <<<<store[Key(Top, p.data)]>>>>
  ELSE <<IF p.fetch = "RAW_BYTES" THEN p.data ELSE world[p.data]>>

\* processInput of the top frame: what a fetcher answers, <<>> if it reverts.
\* readStorage reverts for a slot that was never written.
Fetched(p) ==
  CASE p.fetch = "RAW_BYTES"   -> <<p.data>>
    [] p.fetch = "BALANCE"     ->
         IF world[p.data] = <<>> THEN <<>> ELSE <<<<world[p.data][1]>>>>
    [] p.fetch = "STATIC_CALL" /\ p.data \in Getters -> <<world[p.data]>>
    [] p.fetch = "STATIC_CALL" /\ p.data \in Slots ->
         IF store[Key(Top, p.data)] = Unset THEN <<>> ELSE <<<<store[Key(Top, p.data)]>>>>

OfType(e, t) == {i \in 1..Len(e.inputs) : e.inputs[i].type = t}

\* Every input resolves and passes; TARGET and VALUE occur once at most, decode, and
\* TARGET is no balance.
InputsOK(e, args) ==
  /\ Len(args) = Len(e.inputs)
  /\ \A i \in 1..Len(e.inputs) :
       /\ Fetched(e.inputs[i]) = <<args[i]>>
       /\ Passes(args[i], e.inputs[i].constraints)
       /\ e.inputs[i].type \in {"TARGET", "VALUE"} => args[i] # <<>>
  /\ \A t \in {"TARGET", "VALUE"} : \A i, j \in OfType(e, t) : i = j
  /\ \A i \in OfType(e, "TARGET") : e.inputs[i].fetch # "BALANCE"

\* The call goes to the resolved target; without one, or to address(0), it is skipped.
HasTarget(e, args) == \E i \in OfType(e, "TARGET") : args[i][1] # 0

Inputs ==
  /\ depth > 0
  /\ Top.pc = "inputs"
  /\ Top.at <= Len(Top.batch)
  /\ LET args == [i \in 1..Len(Entry.inputs) |->
                    IF Fetched(Entry.inputs[i]) = <<>> THEN <<>>
                    ELSE Fetched(Entry.inputs[i])[1]]
     IN  /\ InputsOK(Entry, args)
         /\ SetTop([Top EXCEPT !.args = args, !.ret = <<>>, !.out = 1,
                      !.pc = IF HasTarget(Entry, args) THEN "call" ELSE "outputs"])
  /\ UNCHANGED <<store, world, depth, begun, written>>

-----------------------------------------------------------------------------
(* The call, and batches that start *)

\* A frame gives up its claim on captures once its account starts another batch.
Unclaimed(f, g) == IF SameSpace(f, g) THEN [f EXCEPT !.captured = Blank] ELSE f

Push(f) ==
  /\ depth < MaxDepth
  /\ begun < MaxBatches
  /\ depth' = depth + 1
  /\ begun' = begun + 1
  /\ frames' = [i \in Levels |-> IF i = depth + 1 THEN f
                                 ELSE IF i <= depth THEN Unclaimed(frames[i], f)
                                 ELSE frames[i]]

\* executeComposable, executeComposableCall or executeComposableDelegateCall in a
\* transaction of its own; what happened since the last one is in the answers of getters.
Begin(a, mode, b) ==
  /\ depth = 0
  /\ world' \in [Getters -> Returns]
  /\ Push(NewFrame(a, mode, b, [store |-> store, world |-> world']))
  /\ written' = {}
  /\ UNCHANGED store

\* The called contract leads to another batch before it returns.
Nest(a, mode, b) ==
  /\ depth > 0
  /\ Top.pc = "call"
  /\ Push(NewFrame(a, mode, b, [store |-> store, world |-> world]))
  /\ UNCHANGED <<store, world, written>>

\* The call returns, having changed what one getter answers.
Return ==
  /\ depth > 0
  /\ Top.pc = "call"
  /\ \E g \in Getters, v \in Returns, r \in Returns :
       /\ world' = [world EXCEPT ![g] = v]
       /\ SetTop([Top EXCEPT !.pc = "outputs", !.ret = r])
  /\ UNCHANGED <<store, depth, begun, written>>

\* The account that called Storage itself gives up what its delegatecalls captured there.
Overwritten(f, a, s) ==
  IF f.acct = a /\ Caller(f) = a
  THEN [f EXCEPT !.captured = [t \in Slots |-> IF t = s THEN Unset ELSE f.captured[t]]]
  ELSE f

\* writeStorage can be called by anybody: a called contract leads to an account that
\* writes for itself, where its batches in delegatecall mode capture.
WriteStorage(a, s, w) ==
  /\ depth > 0
  /\ Top.pc = "call"
  /\ begun < MaxBatches
  /\ begun' = begun + 1
  /\ store' = [k \in Keys |-> IF k = <<a, a, s>> THEN w ELSE store[k]]
  /\ written' = written \cup {<<a, a, s>>}
  /\ frames' = [i \in Levels |-> IF i <= depth THEN Overwritten(frames[i], a, s) ELSE frames[i]]
  /\ UNCHANGED <<world, depth>>

\* A failed input, call or output, or too little gas: the batch leaves no trace.
\* Whoever called it goes on or reverts in turn.
Revert ==
  /\ depth > 0
  /\ store' = Top.saved.store
  /\ world' = Top.saved.world
  /\ Pop
  /\ UNCHANGED <<begun, written>>

-----------------------------------------------------------------------------
(* processOutputs *)

Data(o) == IF o.fetch = "EXEC_RESULT" THEN Top.ret ELSE world[o.source]

OutputUnspaced ==   \* variant: the namespace is that of the caller alone
  /\ depth > 0
  /\ Top.pc = "outputs"
  /\ Top.out <= Len(Entry.outputs)
  /\ LET o == Entry.outputs[Top.out]
         hit(s) == s[1] = o.slot /\ s[2] <= o.count
         w(s)   == WordAt(Data(o), s[2], 0)
     IN  /\ store' = [k \in Keys |-> IF k[2] = Caller(Top) /\ hit(k[3]) THEN w(k[3]) ELSE store[k]]
         /\ written' = written
         /\ SetTop([Top EXCEPT !.out = Top.out + 1,
              !.captured = [s \in Slots |-> IF hit(s) THEN w(s) ELSE Top.captured[s]]])
  /\ UNCHANGED <<world, depth, begun>>

\* One output: its words go to consecutive slots of the account's namespace.
Output ==
  /\ depth > 0
  /\ Top.pc = "outputs"
  /\ Top.at <= Len(Top.batch)
  /\ Top.out <= Len(Entry.outputs)
  /\ \E junk \in [1..MaxWords -> Words] :
       LET o == Entry.outputs[Top.out]
           hit(s) == s[1] = o.slot /\ s[2] <= o.count
           w(s)   == WordAt(Data(o), s[2], junk[s[2]])
       IN  /\ store' = [k \in Keys |-> IF \E s \in Slots : hit(s) /\ k = Key(Top, s)
                                         THEN w(k[3]) ELSE store[k]]
           /\ written' = written \cup {Key(Top, s) : s \in {t \in Slots : hit(t)}}
           /\ SetTop([Top EXCEPT !.out = Top.out + 1,
                !.captured = [s \in Slots |-> IF hit(s) THEN w(s) ELSE Top.captured[s]]])
  /\ UNCHANGED <<world, depth, begun>>

NextEntry ==
  /\ depth > 0
  /\ Top.pc = "outputs"
  /\ Top.at <= Len(Top.batch)
  /\ Top.out > Len(Entry.outputs)
  /\ SetTop([Top EXCEPT !.pc = "inputs", !.at = Top.at + 1, !.out = 1, !.args = <<>>,
                                !.ret = <<>>])
  /\ UNCHANGED <<store, world, depth, begun, written>>

\* The last entry is through.
End ==
  /\ depth > 0
  /\ Top.pc = "inputs"
  /\ Top.at > Len(Top.batch)
  /\ Pop
  /\ UNCHANGED <<store, world, begun, written>>

Next ==
  \/ \E a \in Accounts, mode \in {"call", "delegate"}, b \in Batches :
       Begin(a, mode, b) \/ Nest(a, mode, b)
  \/ \E a \in Accounts, s \in Slots, w \in Words : WriteStorage(a, s, w)
  \/ Inputs \/ Return \/ Revert \/ Output \/ NextEntry \/ End

Spec == Init /\ [][Next]_vars

-----------------------------------------------------------------------------
TypeOK ==
  /\ store \in [Keys -> Words \cup {Unset}]
  /\ world \in [Getters -> Seq(Words)]
  /\ depth \in 0..MaxDepth
  /\ begun \in 0..MaxBatches
  /\ frames \in [Levels -> Frame]
  /\ written \subseteq Keys

\* What a running batch has captured stays in Storage until the batch is through,
\* whatever the calls in between run: batches of other accounts, batches that revert,
\* and Storage's other namespaces. Only a batch of the same account and mode may
\* overwrite it, or the account itself in delegatecall mode.
CapturesStay ==
  \A i \in 1..depth : \A s \in Slots :
    frames[i].captured[s] # Unset => store[Key(frames[i], s)] = frames[i].captured[s]

\* tldr.md:116: "Reading an uninitialized slot reverts, preventing stale data from prior
\* transactions from leaking in." So an entry whose inputs resolved has read only slots
\* that its own transaction wrote.
ReadsAreFresh ==
  depth > 0 /\ Top.pc = "call" =>
    \A i \in 1..Len(Entry.inputs) :
      LET p == Entry.inputs[i] IN
      p.fetch = "STATIC_CALL" /\ p.data \in Slots => Key(Top, p.data) \in written
=============================================================================
