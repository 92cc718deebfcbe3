--------------------------- MODULE PipelineProofs ---------------------------
(***************************************************************************)
(* The way from an accepted supertransaction to the executor queue, for    *)
(* every number of userOps, requests, jobs, blocks and faults.             *)
(***************************************************************************)
EXTENDS Pipeline, TLAPS, FiniteSetTheorems, SequenceTheorems, WellFoundedInduction

-----------------------------------------------------------------------------
(* Recursion over the naturals *)

LEMMA LeastExists ==
  ASSUME NEW S \in SUBSET Nat, S # {}
  PROVE  \E k \in S : \A l \in S : k <= l
<1> DEFINE Smaller == {ss \in Nat \X Nat : ss[1] < ss[2]}
<1>1. IsWellFoundedOn(Smaller, Nat)
  BY NatLessThanWellFounded DEF OpToRel
<1>2. PICK x \in S : \A y \in S : <<y, x>> \notin Smaller
  <2> HIDE DEF Smaller
  <2> QED BY <1>1, WFMin
<1>3. \A y \in S : ~(y < x)
  BY <1>2
<1> QED BY <1>3

\* A recursion over 0..n has a solution.
Solves(g, n, S, b, step) ==
  g \in [0..n -> S] /\ g[0] = b /\ \A i \in 1..n : g[i] = step[i][g[i - 1]]

LEMMA SolutionExists ==
  ASSUME NEW S, NEW b \in S, NEW n \in Nat, NEW step \in [1..n -> [S -> S]]
  PROVE  \E g : Solves(g, n, S, b, step)
<1> DEFINE Bad == {k \in Nat : k <= n /\ ~ \E g : Solves(g, k, S, b, step)}
<1> SUFFICES ASSUME ~ \E g : Solves(g, n, S, b, step) PROVE FALSE
  OBVIOUS
<1>1. PICK k \in Bad : \A l \in Bad : k <= l
  <2>1. n \in Bad
    OBVIOUS
  <2> HIDE DEF Bad
  <2>2. Bad \in SUBSET Nat
    BY DEF Bad
  <2> QED BY <2>1, <2>2, LeastExists
<1>2. CASE k = 0
  <2>1. Solves([i \in 0..0 |-> b], 0, S, b, step)
    BY DEF Solves
  <2> QED BY <1>2, <2>1
<1>3. CASE k # 0
  <2>1. k - 1 \in Nat /\ k - 1 <= n /\ k \in 1..n /\ k - 1 \notin Bad
    BY <1>1, <1>3
  <2>2. PICK g : Solves(g, k - 1, S, b, step)
    BY <2>1
  <2> DEFINE h == [i \in 0..k |-> IF i = k THEN step[k][g[k - 1]] ELSE g[i]]
  <2>3. step[k] \in [S -> S] /\ g[k - 1] \in S
    BY <2>1, <2>2 DEF Solves
  <2>4. h \in [0..k -> S] /\ h[0] = b
    BY <1>3, <2>1, <2>2, <2>3 DEF Solves
  <2>5. \A i \in 1..k : h[i] = step[i][h[i - 1]]
    BY <2>1, <2>2 DEF Solves
  <2>6. Solves(h, k, S, b, step)
    <3> HIDE DEF h
    <3> QED BY <2>4, <2>5 DEF Solves
  <2> QED BY <2>6
<1> QED BY <1>2, <1>3

-----------------------------------------------------------------------------
(* The gas of a block *)

\* f counts the gas of the userOps one by one.
Counts(f, ops) == f[0] = 0 /\ \A n \in 1..Len(ops) : f[n] = f[n - 1] + Gas[ops[n]]

LEMMA GasForCounts ==
  ASSUME NEW ops \in Seq(Ops)
  PROVE  \E f : Counts(f, ops) /\ GasFor(ops) = f[Len(ops)]
<1> DEFINE sum[n \in 0..Len(ops)] == IF n = 0 THEN 0 ELSE sum[n - 1] + Gas[ops[n]]
           step    == [i \in 1..Len(ops) |-> [x \in Nat |-> x + Gas[ops[i]]]]
           body(f) == [n \in 0..Len(ops) |-> IF n = 0 THEN 0 ELSE f[n - 1] + Gas[ops[n]]]
<1>1. GasFor(ops) = sum[Len(ops)]
  BY DEF GasFor
<1>2. \A i \in 1..Len(ops) : Gas[ops[i]] \in Nat
  BY PipelineConstantsOK
<1>3. step \in [1..Len(ops) -> [Nat -> Nat]]
  BY <1>2
<1>4. PICK g : Solves(g, Len(ops), Nat, 0, step)
  <2> DEFINE n == Len(ops)
  <2>1. n \in Nat /\ 0 \in Nat /\ step \in [1..n -> [Nat -> Nat]]
    BY <1>3
  <2> HIDE DEF step, n
  <2>2. \E g : Solves(g, n, Nat, 0, step)
    BY <2>1, SolutionExists
  <2> QED BY <2>2 DEF n
<1>5. \A i \in 1..Len(ops), x \in Nat : step[i][x] = x + Gas[ops[i]]
  OBVIOUS
<1> HIDE DEF step
<1>6. g = body(g)
  <2>1. g \in [0..Len(ops) -> Nat] /\ g[0] = 0
    BY <1>4 DEF Solves
  <2>2. ASSUME NEW n \in 1..Len(ops) PROVE g[n] = g[n - 1] + Gas[ops[n]]
    <3>1. g[n] = step[n][g[n - 1]] /\ g[n - 1] \in Nat
      BY <1>4, <2>1 DEF Solves
    <3> QED BY <1>5, <3>1
  <2> QED BY <2>1, <2>2
<1>7. sum = body(sum)
  <2>1. \E f : f = body(f)
    BY <1>6
  <2> QED BY <2>1
<1> HIDE DEF sum
<1>8. sum[0] = 0 /\ \A n \in 1..Len(ops) : sum[n] = sum[n - 1] + Gas[ops[n]]
  BY <1>7
<1>9. Counts(sum, ops)
  BY <1>8 DEF Counts
<1> QED BY <1>1, <1>9

\* Two counts agree on what their sequences have in common.
LEMMA CountsAgree ==
  ASSUME NEW f, NEW g, NEW s, NEW t, NEW n \in Nat, n <= Len(s), n <= Len(t),
         Len(s) \in Nat, Len(t) \in Nat,
         Counts(f, s), Counts(g, t), \A i \in 1..n : s[i] = t[i]
  PROVE  f[n] = g[n]
<1> DEFINE Bad == {k \in 0..n : f[k] # g[k]}
<1> SUFFICES ASSUME n \in Bad PROVE FALSE
  OBVIOUS
<1>1. PICK k \in Bad : \A l \in Bad : k <= l
  <2> HIDE DEF Bad
  <2>1. Bad \in SUBSET Nat
    BY DEF Bad
  <2> QED BY <2>1, LeastExists
<1>2. k # 0
  BY DEF Counts
<1>3. k \in 1..Len(s) /\ k \in 1..Len(t) /\ k \in 1..n /\ k - 1 \in 0..n /\ k - 1 \notin Bad
  BY <1>1, <1>2
<1>4. f[k - 1] = g[k - 1]
  BY <1>3
<1>5. f[k] = f[k - 1] + Gas[s[k]] /\ g[k] = g[k - 1] + Gas[t[k]] /\ s[k] = t[k]
  BY <1>3 DEF Counts
<1> QED BY <1>1, <1>4, <1>5

LEMMA GasForEmpty == GasFor(<<>>) = 0
<1>1. <<>> \in Seq(Ops) /\ Len(<<>>) = 0
  OBVIOUS
<1> QED BY <1>1, GasForCounts DEF Counts

LEMMA GasForAppend ==
  ASSUME NEW ops \in Seq(Ops), NEW o \in Ops
  PROVE  GasFor(Append(ops, o)) = GasFor(ops) + Gas[o]
<1> DEFINE t == Append(ops, o)
           n == Len(ops)
<1>1. n \in Nat /\ t \in Seq(Ops) /\ Len(t) = n + 1 /\ t[n + 1] = o /\ \A i \in 1..n : ops[i] = t[i]
  BY AppendProperties
<1>2. PICK f : Counts(f, ops) /\ GasFor(ops) = f[n]
  BY GasForCounts
<1>3. PICK g : Counts(g, t) /\ GasFor(t) = g[n + 1]
  <2> HIDE DEF t, n
  <2> QED BY <1>1, GasForCounts
<1>4. f[n] = g[n]
  <2>1. n <= Len(ops) /\ n <= Len(t) /\ Len(ops) \in Nat /\ Len(t) \in Nat
    BY <1>1
  <2> HIDE DEF t, n
  <2> QED BY <1>1, <1>2, <1>3, <2>1, CountsAgree
<1>5. g[n + 1] = g[n] + Gas[o]
  <2>1. n + 1 \in 1..Len(t) /\ (n + 1) - 1 = n
    BY <1>1
  <2> HIDE DEF t, n
  <2> QED BY <1>1, <1>3, <2>1 DEF Counts
<1> QED BY <1>2, <1>3, <1>4, <1>5

-----------------------------------------------------------------------------
(* Packing *)

Fits(b) == b.ops # <<>> /\ GasFor(b.ops) = b.gas /\ b.gas <= GasCap

Placement == [full : Seq(Batch), open : Batch]

Sound(p) ==
  /\ p \in Placement
  /\ \A k \in 1..Len(p.full) : Fits(p.full[k])
  /\ p.open = Empty \/ Fits(p.open)

Holds(p, o) == InBlock(o, p.open) \/ \E k \in 1..Len(p.full) : InBlock(o, p.full[k])

LEMMA InAppended ==
  ASSUME NEW ops \in Seq(Ops), NEW o \in Ops, NEW gas \in Nat, NEW more \in Nat, NEW x
  PROVE  InBlock(x, [ops |-> Append(ops, o), gas |-> more])
           <=> InBlock(x, [ops |-> ops, gas |-> gas]) \/ x = o
<1> DEFINE t == Append(ops, o)
           n == Len(ops)
<1>1. n \in Nat /\ Len(t) = n + 1 /\ t[n + 1] = o /\ \A i \in 1..n : ops[i] = t[i]
  BY AppendProperties
<1>2. 1..(n + 1) = 1..n \cup {n + 1}
  BY <1>1
<1>3. (\E i \in 1..Len(t) : t[i] = x) <=> (\E i \in 1..n : ops[i] = x) \/ x = o
  <2> HIDE DEF t, n
  <2> QED BY <1>1, <1>2
<1> QED BY <1>3 DEF InBlock

LEMMA OneInBlock == ASSUME NEW o, NEW gas, NEW x PROVE InBlock(x, [ops |-> <<o>>, gas |-> gas]) <=> x = o
BY DEF InBlock

\* The userOp closes the batch, or fits.
LEMMA PlaceFacts ==
  ASSUME NEW p, Sound(p), NEW o \in Ops
  PROVE  /\ Sound(Place(p, o))
         /\ \A x : Holds(Place(p, o), x) <=> Holds(p, x) \/ (x = o /\ ~TooBig(o))
<1>1. /\ p \in Placement /\ p.full \in Seq(Batch) /\ p.open \in Batch
      /\ p.open.ops \in Seq(Ops) /\ p.open.gas \in Nat /\ Gas[o] \in Nat /\ GasCap \in Nat
  BY PipelineConstantsOK DEF Sound, Placement, Batch
<1>2. CASE TooBig(o)
  BY <1>2 DEF Place
<1>3. CASE ~TooBig(o) /\ p.open.gas + Gas[o] > GasCap
  <2> DEFINE b == [ops |-> <<o>>, gas |-> Gas[o]]
             full == Append(p.full, p.open)
             n == Len(p.full)
  <2>1. Place(p, o) = [full |-> full, open |-> b]
    BY <1>3 DEF Place
  <2>2. Gas[o] <= GasCap
    BY <1>1, <1>3 DEF TooBig
  <2>3. Fits(p.open)
    <3>1. p.open # Empty
      BY <1>1, <1>3, <2>2 DEF Empty
    <3> QED BY <3>1 DEF Sound
  <2>4. b \in Batch /\ Fits(b)
    <3>1. <<o>> \in Seq(Ops) /\ <<o>> # <<>> /\ <<>> \in Seq(Ops) /\ Append(<<>>, o) = <<o>>
      OBVIOUS
    <3>2. GasFor(<<o>>) = Gas[o]
      <4>1. GasFor(Append(<<>>, o)) = GasFor(<<>>) + Gas[o]
        BY <3>1, GasForAppend
      <4> QED BY <1>1, <3>1, <4>1, GasForEmpty
    <3> QED BY <1>1, <2>2, <3>1, <3>2 DEF Fits, Batch
  <2>5. /\ n \in Nat /\ full \in Seq(Batch) /\ Len(full) = n + 1
        /\ full[n + 1] = p.open /\ \A k \in 1..n : full[k] = p.full[k]
    BY <1>1, AppendProperties
  <2>6. 1..(n + 1) = 1..n \cup {n + 1}
    BY <2>5
  <2>7. \A k \in 1..n : Fits(p.full[k])
    BY DEF Sound
  <2> HIDE DEF b, full, n
  <2>8. \A k \in 1..Len(full) : Fits(full[k])
    BY <2>3, <2>5, <2>6, <2>7
  <2>9. Sound(Place(p, o))
    BY <2>1, <2>4, <2>5, <2>8 DEF Sound, Placement
  <2>10. ASSUME NEW x
         PROVE  Holds(Place(p, o), x) <=> Holds(p, x) \/ x = o
    <3>1. InBlock(x, b) <=> x = o
      BY OneInBlock DEF b
    <3>2. (\E k \in 1..Len(full) : InBlock(x, full[k]))
            <=> InBlock(x, p.open) \/ \E k \in 1..n : InBlock(x, p.full[k])
      BY <2>5, <2>6
    <3> QED BY <2>1, <3>1, <3>2 DEF Holds, n
  <2> QED BY <1>3, <2>9, <2>10
<1>4. CASE ~TooBig(o) /\ ~(p.open.gas + Gas[o] > GasCap)
  <2> DEFINE ops == Append(p.open.ops, o)
             gas == p.open.gas + Gas[o]
             b   == [ops |-> ops, gas |-> gas]
  <2>1. Place(p, o) = [p EXCEPT !.open = [ops |-> Append(@.ops, o), gas |-> @.gas + Gas[o]]]
    BY <1>4 DEF Place
  <2>2. Place(p, o) = [full |-> p.full, open |-> b]
    BY <1>1, <2>1 DEF Placement
  <2>3. ops \in Seq(Ops) /\ ops # <<>> /\ gas \in Nat /\ gas <= GasCap
    <3>1. ops \in Seq(Ops) /\ Len(ops) = Len(p.open.ops) + 1 /\ Len(p.open.ops) \in Nat
      BY <1>1, AppendProperties
    <3>2. ops # <<>>
      BY <3>1, EmptySeq
    <3> QED BY <1>1, <1>4, <3>1, <3>2
  <2>4. GasFor(p.open.ops) = p.open.gas
    BY GasForEmpty DEF Sound, Empty, Fits
  <2>5. GasFor(ops) = gas
    BY <1>1, <2>4, GasForAppend
  <2>6. p.open = [ops |-> p.open.ops, gas |-> p.open.gas]
    BY <1>1 DEF Batch
  <2>7. ASSUME NEW x PROVE InBlock(x, b) <=> InBlock(x, p.open) \/ x = o
    <3> DEFINE c == [ops |-> p.open.ops, gas |-> p.open.gas]
    <3>1. InBlock(x, b) <=> InBlock(x, c) \/ x = o
      <4> HIDE DEF gas
      <4> QED BY <1>1, <2>3, InAppended
    <3> HIDE DEF c, b
    <3> QED BY <2>6, <3>1 DEF c
  <2>8. b \in Batch /\ Fits(b)
    <3> HIDE DEF ops, gas
    <3> QED BY <2>3, <2>5 DEF Batch, Fits
  <2> HIDE DEF b
  <2>9. Sound(Place(p, o))
    BY <1>1, <2>2, <2>8 DEF Sound, Placement
  <2>10. \A x : Holds(Place(p, o), x) <=> Holds(p, x) \/ x = o
    BY <2>2, <2>7 DEF Holds
  <2> QED BY <1>4, <2>9, <2>10
<1> QED BY <1>2, <1>3, <1>4

\* The state of the packing after each userOp.
Packing(order, placed) ==
  LET N    == Len(order)
      last == placed[N]
  IN  /\ placed[0] = [full |-> <<>>, open |-> Empty]
      /\ \A n \in 1..N : placed[n] = Place(placed[n - 1], order[n])
      /\ \A n \in 0..N : /\ Sound(placed[n])
                          /\ \A x : Holds(placed[n], x)
                                      <=> \E i \in 1..n : x = order[i] /\ ~TooBig(x)
      /\ Pack(order) = IF last.open = Empty THEN last.full ELSE Append(last.full, last.open)

LEMMA PackSteps == ASSUME NEW order \in Seq(Ops) PROVE \E placed : Packing(order, placed)
<1> DEFINE start == [full |-> <<>>, open |-> Empty]
           N     == Len(order)
           placed[n \in 0..Len(order)] == IF n = 0 THEN start ELSE Place(placed[n - 1], order[n])
           body(f) == [n \in 0..Len(order) |-> IF n = 0 THEN start ELSE Place(f[n - 1], order[n])]
           SoundOnes == {p \in Placement : Sound(p)}
           step == [i \in 1..N |-> [p \in SoundOnes |-> Place(p, order[i])]]
<1>1. N \in Nat /\ \A i \in 1..N : order[i] \in Ops
  OBVIOUS
<1>2. start \in SoundOnes /\ \A x : ~Holds(start, x)
  <2>1. /\ Len(<<>>) = 0 /\ <<>> \in Seq(Batch) /\ <<>> \in Seq(Ops) /\ \A k \in 1..0 : FALSE
    OBVIOUS
  <2>2. Empty \in Batch /\ Sound(start)
    BY <2>1 DEF Sound, Placement, Empty, Batch
  <2> QED BY <2>1, <2>2 DEF Holds, InBlock, Empty, Sound
<1>3. \A p \in SoundOnes, i \in 1..N : Place(p, order[i]) \in SoundOnes
  BY <1>1, PlaceFacts DEF Sound
<1>4. step \in [1..N -> [SoundOnes -> SoundOnes]]
  BY <1>3
<1>5. \A i \in 1..N, p \in SoundOnes : step[i][p] = Place(p, order[i])
  OBVIOUS
<1>6. PICK g : Solves(g, N, SoundOnes, start, step)
  <2> HIDE DEF step, N, start, SoundOnes
  <2> QED BY <1>1, <1>2, <1>4, SolutionExists
<1>7. g = body(g)
  <2> HIDE DEF step, start, SoundOnes
  <2>1. g \in [0..Len(order) -> SoundOnes] /\ g[0] = start
    BY <1>6 DEF Solves
  <2>2. ASSUME NEW n \in 1..Len(order) PROVE g[n] = Place(g[n - 1], order[n])
    <3>1. g[n] = step[n][g[n - 1]] /\ g[n - 1] \in SoundOnes
      BY <1>6, <2>1 DEF Solves
    <3> QED BY <1>5, <3>1
  <2> QED BY <2>1, <2>2
<1>8. placed = body(placed)
  <2>1. \E f : f = body(f)
    BY <1>7
  <2> QED BY <2>1
<1> DEFINE last == placed[N]
<1>9. Pack(order) = IF last.open = Empty THEN last.full ELSE Append(last.full, last.open)
  BY DEF Pack
<1> HIDE DEF placed, step
<1>10. placed[0] = start /\ \A n \in 1..N : placed[n] = Place(placed[n - 1], order[n])
  <2> HIDE DEF start
  <2> QED BY <1>8
<1> DEFINE Good(n) == /\ Sound(placed[n])
                      /\ \A x : Holds(placed[n], x) <=> \E i \in 1..n : x = order[i] /\ ~TooBig(x)
           Bad == {n \in 0..N : ~Good(n)}
<1>11. Bad = {}
  <2> SUFFICES ASSUME Bad # {} PROVE FALSE
    OBVIOUS
  <2>1. PICK n \in Bad : \A l \in Bad : n <= l
    <3> HIDE DEF Bad
    <3>1. Bad \in SUBSET Nat
      BY DEF Bad
    <3> QED BY <3>1, LeastExists
  <2>2. n # 0
    <3> HIDE DEF start
    <3> QED BY <1>2, <1>10
  <2>3. n \in 1..N /\ n - 1 \in 0..N /\ n - 1 \notin Bad
    <3>1. n \in 0..N
      OBVIOUS
    <3> HIDE DEF Bad, N
    <3> QED BY <1>1, <2>1, <2>2, <3>1
  <2>4. Good(n - 1)
    BY <2>3
  <2>5. placed[n] = Place(placed[n - 1], order[n]) /\ order[n] \in Ops
    BY <1>1, <1>10, <2>3
  <2>6. /\ Sound(placed[n])
        /\ \A x : Holds(placed[n], x) <=> Holds(placed[n - 1], x) \/ (x = order[n] /\ ~TooBig(order[n]))
    <3> HIDE DEF start
    <3> QED BY <2>4, <2>5, PlaceFacts
  <2>7. 1..n = 1..(n - 1) \cup {n}
    BY <2>3
  <2>8. Good(n)
    <3> HIDE DEF start
    <3> QED BY <2>4, <2>6, <2>7
  <2> QED BY <2>1, <2>8
<1>12. \A n \in 0..N : Good(n)
  <2> HIDE DEF Good, N
  <2> QED BY <1>11
<1> QED BY <1>9, <1>10, <1>12 DEF Packing

\* Every userOp that fits a block is packed into one, nothing else is, and the blocks fit.
LEMMA PackFacts ==
  ASSUME NEW order \in Seq(Ops)
  PROVE  /\ Pack(order) \in Seq(Batch)
         /\ \A k \in 1..Len(Pack(order)) : Fits(Pack(order)[k])
         /\ \A x : (\E k \in 1..Len(Pack(order)) : InBlock(x, Pack(order)[k]))
                     <=> \E i \in 1..Len(order) : x = order[i] /\ ~TooBig(x)
<1> DEFINE N == Len(order)
<1>8. PICK placed : Packing(order, placed)
  BY PackSteps
<1> DEFINE last == placed[N]
<1>9. Pack(order) = IF last.open = Empty THEN last.full ELSE Append(last.full, last.open)
  BY <1>8 DEF Packing
<1>12. Sound(last) /\ \A x : Holds(last, x) <=> \E i \in 1..N : x = order[i] /\ ~TooBig(x)
  <2>1. N \in 0..N
    OBVIOUS
  <2> QED BY <1>8, <2>1 DEF Packing
<1> HIDE DEF last, N
<1>13. last.full \in Seq(Batch) /\ last.open \in Batch /\ \A k \in 1..Len(last.full) : Fits(last.full[k])
  BY <1>12 DEF Sound, Placement
<1>14. CASE last.open = Empty
  <2>1. \A x : ~InBlock(x, last.open)
    BY <1>14 DEF InBlock, Empty
  <2> QED BY <1>9, <1>12, <1>13, <1>14, <2>1 DEF Holds, N
<1>15. CASE last.open # Empty
  <2> DEFINE t == Append(last.full, last.open)
             m == Len(last.full)
  <2>1. /\ t \in Seq(Batch) /\ m \in Nat /\ Len(t) = m + 1 /\ t[m + 1] = last.open
        /\ \A k \in 1..m : t[k] = last.full[k]
    BY <1>13, AppendProperties
  <2>2. 1..(m + 1) = 1..m \cup {m + 1}
    BY <2>1
  <2>3. Fits(last.open) /\ Pack(order) = t
    BY <1>9, <1>12, <1>15 DEF Sound
  <2>4. \A x : Holds(last, x) <=> InBlock(x, last.open) \/ \E k \in 1..m : InBlock(x, last.full[k])
    BY DEF Holds
  <2>5. \A k \in 1..m : Fits(last.full[k])
    BY <1>13
  <2> HIDE DEF t, m
  <2>6. \A k \in 1..Len(t) : Fits(t[k])
    BY <2>1, <2>2, <2>3, <2>5
  <2>7. \A x : (\E k \in 1..Len(t) : InBlock(x, t[k])) <=> Holds(last, x)
    BY <2>1, <2>2, <2>4
  <2> QED BY <1>12, <2>1, <2>3, <2>6, <2>7 DEF N
<1> QED BY <1>14, <1>15

-----------------------------------------------------------------------------
(* Adding jobs to the simulator queue *)

\* There are k members of F whose rank is k or less.
LEMMA LowestRanks ==
  ASSUME NEW F \in SUBSET Nat, IsFiniteSet(F), NEW k \in Nat, k <= Cardinality(F)
  PROVE  LET S == {j \in F : Cardinality({i \in F : i <= j}) <= k}
         IN  IsFiniteSet(S) /\ Cardinality(S) = k
<1> DEFINE n == Cardinality(F)
           upTo(j) == {i \in F : i <= j}
           rank == [j \in F |-> Cardinality(upTo(j))]
           S == {j \in F : rank[j] <= k}
           low == [j \in S |-> rank[j]]
<1>1. n \in Nat
  BY FS_CardinalityType
<1>2. ASSUME NEW j \in F PROVE IsFiniteSet(upTo(j)) /\ rank[j] \in 1..n
  <2>1. upTo(j) \in SUBSET F /\ j \in upTo(j)
    OBVIOUS
  <2>2. IsFiniteSet(upTo(j)) /\ Cardinality(upTo(j)) <= n /\ Cardinality(upTo(j)) \in Nat
    BY <2>1, FS_Subset, FS_CardinalityType
  <2>3. Cardinality(upTo(j)) # 0
    BY <2>1, <2>2, FS_EmptySet
  <2> QED BY <1>1, <2>2, <2>3
<1>3. ASSUME NEW i \in F, NEW j \in F, i < j PROVE rank[i] # rank[j]
  <2>1. i \in Nat /\ j \in Nat /\ j <= j /\ ~(j <= i) /\ \A l \in Nat : l <= i => l <= j
    BY <1>3
  <2>2. \A l \in F : l \in Nat
    OBVIOUS
  <2>3. upTo(i) \in SUBSET upTo(j) /\ j \in upTo(j) /\ j \notin upTo(i)
    BY <2>1, <2>2, Zenon
  <2>4. IsFiniteSet(upTo(j)) /\ rank[i] = Cardinality(upTo(i)) /\ rank[j] = Cardinality(upTo(j))
    BY <1>2
  <2> HIDE DEF upTo, rank
  <2>5. upTo(i) # upTo(j)
    BY <2>3
  <2> QED BY <2>3, <2>4, <2>5, FS_Subset
<1>4. \A i, j \in F : rank[i] = rank[j] => i = j
  <2> HIDE DEF rank
  <2>1. \A i, j \in F : i = j \/ i < j \/ j < i
    OBVIOUS
  <2> QED BY <1>3, <2>1
<1>5. rank \in Injection(F, 1..n)
  <2>1. rank \in [F -> 1..n]
    <3> HIDE DEF n, upTo
    <3> QED BY <1>2
  <2> HIDE DEF rank
  <2> QED BY <1>4, <2>1 DEF Injection, IsInjective
<1>6. rank \in Surjection(F, 1..n)
  <2> HIDE DEF rank
  <2>1. IsFiniteSet(1..n) /\ Cardinality(1..n) = n
    <3> HIDE DEF n
    <3> QED BY <1>1, FS_Interval
  <2> QED BY <1>5, <2>1, FS_Injection
<1>7. low \in Bijection(S, 1..k)
  <2> HIDE DEF rank
  <2>1. \A j \in S : j \in F /\ rank[j] \in 1..k
    <3> SUFFICES ASSUME NEW j \in S PROVE j \in F /\ rank[j] \in 1..k
      OBVIOUS
    <3>1. j \in F /\ rank[j] <= k
      OBVIOUS
    <3> HIDE DEF n, S, upTo
    <3>2. rank[j] \in 1..n
      BY <1>2, <3>1
    <3> QED BY <1>1, <3>1, <3>2
  <2>2. \A m \in 1..k : \E j \in S : rank[j] = m
    <3>1. ASSUME NEW m \in 1..k PROVE m \in 1..n /\ m <= k
      BY <1>1
    <3> QED BY <1>6, <3>1 DEF Surjection
  <2>3. low \in [S -> 1..k] /\ \A j \in S : low[j] = rank[j]
    <3> HIDE DEF S
    <3> QED BY <2>1
  <2> HIDE DEF low, S
  <2>4. \A i, j \in S : low[i] = low[j] => i = j
    BY <1>4, <2>1, <2>3
  <2>5. \A m \in 1..k : \E j \in S : low[j] = m
    BY <2>2, <2>3
  <2> QED BY <2>3, <2>4, <2>5 DEF Bijection, Injection, Surjection, IsInjective
<1>8. S \in SUBSET F
  OBVIOUS
<1>9. IsFiniteSet(S) /\ Cardinality(S) = k
  <2> HIDE DEF low, S, rank
  <2>1. IsFiniteSet(1..k) /\ Cardinality(1..k) = k
    BY FS_Interval
  <2>2. IsFiniteSet(S) /\ ExistsBijection(S, 1..k)
    BY <1>7, <1>8, FS_Subset DEF ExistsBijection
  <2> QED BY <2>1, <2>2, FS_Bijection
<1>10. S = {j \in F : Cardinality({i \in F : i <= j}) <= k}
  OBVIOUS
<1> QED BY <1>9, <1>10

\* Free slots get one job for each of the userOps.
LaidOut(B, retry) ==
  \E S \in SUBSET Free : \E f \in [S -> B] :
    /\ Added(B, retry) = [j \in S |-> NewJob(f[j], retry)]
    /\ \A o \in B : \E j \in S : f[j] = o
    /\ \A i, j \in S : f[i] = f[j] => i = j

LEMMA AddedFacts ==
  ASSUME NEW B \in SUBSET Ops, Room(B), NEW retry
  PROVE  LaidOut(B, retry)
<1> DEFINE k == Cardinality(B)
           S == {j \in Free : Cardinality({i \in Free : i <= j}) <= k}
           f == CHOOSE g \in Bijection(S, B) : TRUE
<1>1. IsFiniteSet(B) /\ k \in Nat
  BY SimulatorConstantsOK, FS_Subset, FS_CardinalityType
<1>2. Free \in SUBSET Nat /\ IsFiniteSet(Free)
  <2>1. MaxSims \in Nat /\ IsFiniteSet(Slots) /\ Slots \in SUBSET Nat
    BY SimulatorConstantsOK, FS_Interval DEF Slots
  <2> QED BY <2>1, FS_Subset DEF Free
<1>3. k <= Cardinality(Free) /\ Cardinality(Free) \in Nat
  BY <1>1, <1>2, FS_CardinalityType DEF Room
<1>4. IsFiniteSet(S) /\ Cardinality(S) = k
  <2> HIDE DEF k
  <2> QED BY <1>1, <1>2, <1>3, LowestRanks
<1>5. f \in Bijection(S, B)
  <2> HIDE DEF S
  <2>1. Bijection(S, B) # {}
    BY <1>1, <1>4, FS_SameCardinalityBij DEF ExistsBijection
  <2> QED BY <2>1
<1>6. /\ S \in SUBSET Free /\ f \in [S -> B] /\ \A o \in B : \E j \in S : f[j] = o
      /\ \A i, j \in S : f[i] = f[j] => i = j
  <2>1. S \in SUBSET Free
    OBVIOUS
  <2> HIDE DEF f, S
  <2> QED BY <1>5, <2>1 DEF Bijection, Injection, Surjection, IsInjective
<1>7. Added(B, retry) = [j \in S |-> NewJob(f[j], retry)]
  BY DEF Added
<1> HIDE DEF f, S
<1> QED BY <1>6, <1>7 DEF LaidOut

-----------------------------------------------------------------------------
(* Steps of the simulator *)

\* Redis and the threads fail less often than BullMQ gives up on a job: after
\* SIMULATOR_QUEUE_JOB_ATTEMPTS attempts, or more than maxStalledCount lost ones.
FewDisruptions ==
  \A q \in Quotes : q.faults.disruption < MaxAttempts /\ q.faults.disruption <= MaxStalled

SimTypes ==
  /\ quote \in Quotes
  /\ phase \in [quote.ops -> Phases] /\ deployed \in BOOLEAN /\ ready \subseteq quote.ops
  /\ req \in [Requests -> {"idle", "checked", "stored", "done", "refused", "dead"}]
  /\ stored \in BOOLEAN /\ scheduled \subseteq Requests
  /\ failed \subseteq quote.ops
  /\ sims \in [Slots -> Job]
  /\ strays \in [quote.ops -> {"none", "valid", "defer"}]
  /\ budget \in Faults /\ budget.disruption <= quote.faults.disruption

\* What holds of each job: it belongs to the quote; it waits for answers while it is checked;
\* a good trace of it was taken when it could be executed; every lost attempt was paid for.
Okay(job) ==
  /\ job.st # "free" => job.op \in quote.ops
  /\ job.asked # {} => job.st = "active" /\ job.pc = "check"
  /\ job.st = "ready" => job.pc = "check"
  /\ job.sim = "ok" => /\ job.op \in quote.ops /\ phase[job.op] # "early"
                       /\ deployed /\ job.op \notin quote.badSig
  /\ job.attempts + job.stalls + (IF job.st = "active" /\ job.pc = "lost" THEN 1 ELSE 0)
       <= quote.faults.disruption - budget.disruption

SimOK == SimTypes /\ \A i \in Slots : Okay(sims[i])

\* A job that will bring its userOp further.
Live(job)   == job.st # "free" /\ (job.st = "active" => job.pc # "drop")
Carried(o)  == \E i \in Slots : sims[i].op = o /\ Live(sims[i])

InWindow(o) == \/ phase[o] \in {"open", "closing"} /\ deployed /\ o \notin quote.badSig
               \/ o \in Forced /\ phase[o] \in {"closing", "over"}

\* What every step of the simulator does.
Moves ==
  /\ quote' = quote
  /\ failed \subseteq failed'
  /\ \A i \in Slots : sims[i].st = "done" => sims'[i] = sims[i]
  /\ \A i \in Slots : sims[i].st = "active" /\ sims'[i].st = "done" => InWindow(sims[i].op)
  /\ FewDisruptions => \A o \in quote.ops : Carried(o) => Carried(o)' \/ o \in failed'
  /\ scheduled = {} /\ scheduled' # {} => \A o \in quote.ops : Carried(o)'

LEMMA QuoteFacts ==
  ASSUME NEW q \in Quotes
  PROVE  /\ q.ops \subseteq Ops /\ q.ops # {} /\ q.undeployed \in BOOLEAN /\ IsFiniteSet(q.ops)
         /\ q.faults \in Faults /\ q.faults.disruption \in Nat
<1>1. q.ops \subseteq Ops /\ IsFiniteSet(Ops) /\ q.faults \in Faults /\ q.ops # {}
  BY SimulatorConstantsOK
<1>2. IsFiniteSet(q.ops)
  BY <1>1, FS_Subset
<1>3. q.undeployed \in BOOLEAN
  BY SimulatorConstantsOK
<1> QED BY <1>1, <1>2, <1>3 DEF Faults

LEMMA NewJobFacts ==
  ASSUME NEW o \in Ops, NEW retry \in BOOLEAN
  PROVE  NewJob(o, retry) \in Job
BY SimulatorConstantsOK DEF NewJob, Job

LEMMA FreeJobFacts ==
  /\ FreeJob \in Job /\ FreeJob.st = "free" /\ FreeJob.asked = {} /\ FreeJob.sim = "unknown"
  /\ FreeJob.attempts = 0 /\ FreeJob.stalls = 0 /\ FreeJob.pc = "check"
<1> DEFINE c == CHOOSE o \in Ops : TRUE
<1>1. c \in Ops
  BY SimulatorConstantsOK
<1>2. FreeJob = [NewJob(c, FALSE) EXCEPT !.st = "free"]
  BY DEF FreeJob
<1> HIDE DEF c
<1>3. FreeJob = [op |-> c, st |-> "free", retry |-> FALSE, attempts |-> 0, stalls |-> 0,
                 pc |-> "check", asked |-> {}, sim |-> "unknown"]
  BY <1>2 DEF NewJob
<1>4. 0 \in 0..(MaxAttempts - 1) /\ 0 \in 0..MaxStalled
  BY SimulatorConstantsOK
<1> QED BY <1>1, <1>3, <1>4 DEF Job

LEMMA SpendFacts ==
  ASSUME SimTypes, NEW kind \in {"rpc", "disruption", "change"}, Spend(kind)
  PROVE  /\ budget' \in Faults /\ budget'.disruption <= budget.disruption
         /\ kind = "disruption" => budget'.disruption = budget.disruption - 1
         /\ kind # "disruption" => budget'.disruption = budget.disruption
<1>1. budget \in Faults /\ budget[kind] > 0 /\ budget' = [budget EXCEPT ![kind] = @ - 1]
  BY DEF SimTypes, Spend
<1>2. CASE kind = "disruption"
  BY <1>1, <1>2 DEF Faults
<1>3. CASE kind = "rpc"
  BY <1>1, <1>3 DEF Faults
<1>4. CASE kind = "change"
  BY <1>1, <1>4 DEF Faults
<1> QED BY <1>2, <1>3, <1>4

\* A step that changes one job, which is not completed.
LEMMA OneJob ==
  ASSUME SimOK, NEW j \in Slots, NEW job \in Job,
         Set1(j, job), UNCHANGED <<world, intake>>,
         failed \subseteq failed', failed' \subseteq quote.ops,
         strays' \in [quote.ops -> {"none", "valid", "defer"}],
         budget' \in Faults, budget'.disruption <= budget.disruption,
         Okay(job)', sims[j].st # "done",
         job.st = "done" => InWindow(sims[j].op),
         FewDisruptions /\ Live(sims[j]) =>
           sims[j].op \in failed' \/ (job.op = sims[j].op /\ Live(job))
  PROVE  SimOK' /\ Moves
<1>1. sims \in [Slots -> Job] /\ sims' = [sims EXCEPT ![j] = job]
  BY DEF SimOK, SimTypes, Set1
<1>2. sims' \in [Slots -> Job] /\ sims'[j] = job /\ \A i \in Slots : i # j => sims'[i] = sims[i]
  BY <1>1
<1>3. quote' = quote /\ phase' = phase /\ deployed' = deployed /\ ready' = ready
      /\ req' = req /\ stored' = stored /\ scheduled' = scheduled
  BY DEF world, intake
<1>4. SimTypes'
  <2>1. budget'.disruption <= quote.faults.disruption
    <3>1. /\ budget.disruption \in Nat /\ budget'.disruption \in Nat
          /\ quote.faults.disruption \in Nat /\ budget.disruption <= quote.faults.disruption
      BY QuoteFacts DEF SimOK, SimTypes, Faults
    <3> QED BY <3>1
  <2>2. /\ quote \in Quotes /\ phase \in [quote.ops -> Phases] /\ deployed \in BOOLEAN
        /\ ready \subseteq quote.ops /\ stored \in BOOLEAN /\ scheduled \subseteq Requests
        /\ req \in [Requests -> {"idle", "checked", "stored", "done", "refused", "dead"}]
    BY DEF SimOK, SimTypes
  <2> SUFFICES
        /\ quote' \in Quotes /\ phase' \in [quote'.ops -> Phases] /\ deployed' \in BOOLEAN
        /\ ready' \subseteq quote'.ops
        /\ req' \in [Requests -> {"idle", "checked", "stored", "done", "refused", "dead"}]
        /\ stored' \in BOOLEAN /\ scheduled' \subseteq Requests
        /\ failed' \subseteq quote'.ops
        /\ sims' \in [Slots -> Job]
        /\ strays' \in [quote'.ops -> {"none", "valid", "defer"}]
        /\ budget' \in Faults /\ budget'.disruption <= quote'.faults.disruption
    BY DEF SimTypes, Slots, Job, Calls, Phases, Faults
  <2> QED BY <1>2, <1>3, <2>1, <2>2
<1>5. ASSUME NEW i \in Slots, i # j PROVE Okay(sims[i])'
  <2>1. Okay(sims[i]) /\ sims'[i] = sims[i] /\ sims[i] \in Job
    BY <1>1, <1>2, <1>5 DEF SimOK
  <2>2. /\ sims[i].attempts \in Nat /\ sims[i].stalls \in Nat /\ budget.disruption \in Nat
        /\ budget'.disruption \in Nat /\ quote.faults.disruption \in Nat
    BY <2>1, QuoteFacts, SimulatorConstantsOK DEF SimOK, SimTypes, Faults, Job
  <2> QED BY <1>3, <2>1, <2>2 DEF Okay
<1>6. SimOK'
  <2>1. Okay(sims[j])'
    BY <1>2 DEF Okay
  <2> QED BY <1>2, <1>4, <1>5, <2>1 DEF SimOK, Slots
<1>7. ASSUME FewDisruptions, NEW o \in quote.ops, Carried(o) PROVE Carried(o)' \/ o \in failed'
  <2>1. PICK i \in Slots : sims[i].op = o /\ Live(sims[i])
    BY <1>7 DEF Carried
  <2>2. CASE i = j
    BY <1>2, <1>7, <2>1, <2>2 DEF Carried, Live
  <2>3. CASE i # j
    BY <1>2, <2>1, <2>3 DEF Carried, Live
  <2> QED BY <2>2, <2>3
<1>8. \A i \in Slots : sims[i].st = "active" /\ sims'[i].st = "done" => InWindow(sims[i].op)
  BY <1>2
<1>9. \A i \in Slots : sims[i].st = "done" => sims'[i] = sims[i]
  BY <1>2
<1> QED BY <1>3, <1>6, <1>7, <1>8, <1>9 DEF Moves

\* After an error the attempt is repeated, but for the last one.
LEMMA FailedJob ==
  ASSUME SimOK, NEW j \in Slots, Okay(sims[j]), sims[j].st # "free"
  PROVE  \E job \in Job :
           /\ FailAttempt(j) <=> Set1(j, job)
           /\ job.asked = {} /\ job.sim = "unknown" /\ job.pc = "check" /\ job.st \in {"free", "ready"}
           /\ job.st = "ready" => job.op = sims[j].op
           /\ job.attempts + job.stalls <= sims[j].attempts + sims[j].stalls + 1
           /\ sims[j].attempts + 1 < MaxAttempts => job.st = "ready"
<1> DEFINE o == sims[j].op
           retry == sims[j].retry
           attempts == sims[j].attempts
           stalls == sims[j].stalls
           again == [op |-> o, st |-> "ready", retry |-> retry, attempts |-> attempts + 1,
                     stalls |-> stalls, pc |-> "check", asked |-> {}, sim |-> "unknown"]
<1>1. sims[j] \in Job
  BY DEF SimOK, SimTypes
<1>2. /\ o \in Ops /\ retry \in BOOLEAN /\ attempts \in Nat /\ stalls \in 0..MaxStalled
      /\ MaxAttempts \in Nat \ {0} /\ MaxStalled \in Nat /\ stalls \in Nat
  BY <1>1, SimulatorConstantsOK DEF Job
<1>3. [NewJob(o, retry) EXCEPT !.attempts = attempts + 1, !.stalls = stalls] = again
  <2> DEFINE a == attempts + 1
  <2> HIDE DEF o, retry, stalls, a
  <2>1. [NewJob(o, retry) EXCEPT !.attempts = a]
          = [op |-> o, st |-> "ready", retry |-> retry, attempts |-> a,
             stalls |-> 0, pc |-> "check", asked |-> {}, sim |-> "unknown"]
    BY DEF NewJob
  <2>2. [NewJob(o, retry) EXCEPT !.attempts = a, !.stalls = stalls]
          = [[NewJob(o, retry) EXCEPT !.attempts = a] EXCEPT !.stalls = stalls]
    OBVIOUS
  <2>3. [[op |-> o, st |-> "ready", retry |-> retry, attempts |-> a,
          stalls |-> 0, pc |-> "check", asked |-> {}, sim |-> "unknown"] EXCEPT !.stalls = stalls]
          = [op |-> o, st |-> "ready", retry |-> retry, attempts |-> a,
             stalls |-> stalls, pc |-> "check", asked |-> {}, sim |-> "unknown"]
    OBVIOUS
  <2>4. [NewJob(o, retry) EXCEPT !.attempts = a, !.stalls = stalls]
          = [op |-> o, st |-> "ready", retry |-> retry, attempts |-> a,
             stalls |-> stalls, pc |-> "check", asked |-> {}, sim |-> "unknown"]
    BY <2>1, <2>2, <2>3, Zenon
  <2> QED BY <2>4 DEF a
<1>4. FailAttempt(j) <=> Set1(j, IF attempts + 1 < MaxAttempts THEN again ELSE FreeJob)
  BY <1>3 DEF FailAttempt
<1> HIDE DEF o, retry, attempts, stalls
<1>5. CASE attempts + 1 < MaxAttempts
  <2>1. again \in Job
    BY <1>2, <1>5 DEF Job
  <2> QED BY <1>2, <1>4, <1>5, <2>1 DEF o, attempts, stalls
<1>6. CASE ~(attempts + 1 < MaxAttempts)
  <2>1. 0 + 0 <= attempts + stalls + 1
    BY <1>2
  <2>2. FailAttempt(j) <=> Set1(j, FreeJob)
    BY <1>4, <1>6
  <2>3. FreeJob.attempts + FreeJob.stalls <= attempts + stalls + 1
    BY <2>1, FreeJobFacts
  <2>4. /\ FreeJob \in Job /\ FreeJob.asked = {} /\ FreeJob.sim = "unknown" /\ FreeJob.st = "free"
        /\ FreeJob.pc = "check"
    BY FreeJobFacts
  <2>5. /\ FreeJob.attempts + FreeJob.stalls <= sims[j].attempts + sims[j].stalls + 1
        /\ ~(sims[j].attempts + 1 < MaxAttempts)
    BY <1>6, <2>3 DEF attempts, stalls
  <2> HIDE DEF again
  <2> QED BY <2>2, <2>4, <2>5
<1> QED BY <1>5, <1>6

LEMMA JobFields ==
  ASSUME SimOK, NEW j \in Slots
  PROVE  /\ sims[j] \in Job /\ Okay(sims[j]) /\ sims[j].op \in Ops
         /\ sims[j].attempts \in Nat /\ sims[j].stalls \in Nat
         /\ budget \in Faults /\ budget.disruption \in Nat /\ quote.faults.disruption \in Nat
         /\ failed \subseteq quote.ops /\ strays \in [quote.ops -> {"none", "valid", "defer"}]
<1>1. sims[j] \in Job /\ Okay(sims[j])
  BY DEF SimOK, SimTypes
<1>2. sims[j].attempts \in 0..(MaxAttempts - 1) /\ sims[j].stalls \in 0..MaxStalled /\ sims[j].op \in Ops
  BY <1>1 DEF Job
<1>3. sims[j].attempts \in Nat /\ sims[j].stalls \in Nat
  BY <1>2
<1>4. /\ budget \in Faults /\ quote \in Quotes /\ failed \subseteq quote.ops
      /\ strays \in [quote.ops -> {"none", "valid", "defer"}]
  BY DEF SimOK, SimTypes
<1>5. budget.disruption \in Nat /\ quote.faults.disruption \in Nat
  BY <1>4, QuoteFacts DEF Faults
<1> QED BY <1>1, <1>2, <1>3, <1>4, <1>5

\* The same, for a step of a job that stays in the queue and meets no failure of Redis.
LEMMA OneJobOn ==
  ASSUME SimOK, NEW j \in Slots, NEW job \in Job,
         Set1(j, job), UNCHANGED <<world, intake, strays>>,
         failed \subseteq failed', failed' \subseteq quote.ops,
         NoFault \/ Spend("rpc"),
         sims[j].st \in {"ready", "active"}, job.st \in {"ready", "active", "done"},
         job.op = sims[j].op,
         job.asked # {} => job.st = "active" /\ job.pc = "check",
         job.st = "ready" => job.pc = "check",
         job.sim = "ok" => sims[j].sim = "ok" \/ Executable(sims[j].op),
         job.attempts = sims[j].attempts,
         job.stalls + (IF job.st = "active" /\ job.pc = "lost" THEN 1 ELSE 0)
           = sims[j].stalls + (IF sims[j].st = "active" /\ sims[j].pc = "lost" THEN 1 ELSE 0),
         job.st = "done" => InWindow(sims[j].op),
         Live(sims[j]) => sims[j].op \in failed' \/ Live(job)
  PROVE  SimOK' /\ Moves
<1>1. /\ sims[j] \in Job /\ Okay(sims[j]) /\ budget.disruption \in Nat
      /\ sims[j].attempts \in Nat /\ sims[j].stalls \in Nat /\ quote.faults.disruption \in Nat
      /\ strays \in [quote.ops -> {"none", "valid", "defer"}] /\ budget \in Faults
  BY JobFields
<1>2. budget' \in Faults /\ budget'.disruption <= budget.disruption /\ budget'.disruption \in Nat
  <2>1. CASE NoFault
    BY <1>1, <2>1 DEF NoFault
  <2>2. CASE Spend("rpc")
    BY <2>2, SpendFacts DEF SimOK, Faults
  <2> QED BY <2>1, <2>2
<1>3. quote' = quote /\ phase' = phase /\ deployed' = deployed /\ strays' = strays
  BY DEF world
<1>4. job.stalls \in Nat
  <2>1. job.stalls \in 0..MaxStalled
    BY DEF Job
  <2> QED BY <2>1
<1>5. /\ job.sim = "ok" => /\ job.op \in quote.ops /\ phase[job.op] # "early"
                           /\ deployed /\ job.op \notin quote.badSig
      /\ job.op \in quote.ops
  BY <1>1 DEF Okay, Executable
<1>6. job.attempts + job.stalls + (IF job.st = "active" /\ job.pc = "lost" THEN 1 ELSE 0)
        <= quote.faults.disruption - budget'.disruption
  BY <1>1, <1>2, <1>4 DEF Okay
<1>7. Okay(job)'
  BY <1>3, <1>5, <1>6 DEF Okay
<1> QED BY <1>1, <1>2, <1>3, <1>7, OneJob

LEMMA TakeMoves == ASSUME SimOK, NEW j \in Slots, Take(j) PROVE SimOK' /\ Moves
<1> DEFINE asked == IF sims[j].attempts = 0 /\ ~sims[j].retry THEN {"quote", "valid", "sim"} ELSE {}
           job == [sims[j] EXCEPT !.st = "active", !.asked = asked]
<1>1. /\ Set1(j, job) /\ sims[j].st = "ready" /\ NoFault
      /\ UNCHANGED <<world, intake, failed, strays>>
  BY DEF Take, NoFault
<1>2. sims[j] \in Job /\ Okay(sims[j]) /\ failed \subseteq quote.ops
  BY JobFields
<1>3. asked \in SUBSET Calls
  BY DEF Calls
<1> HIDE DEF asked
<1>4. /\ job \in Job /\ job.op = sims[j].op /\ job.st = "active" /\ job.pc = sims[j].pc
      /\ job.sim = sims[j].sim /\ job.attempts = sims[j].attempts /\ job.stalls = sims[j].stalls
  BY <1>2, <1>3 DEF Job
<1>5. sims[j].pc = "check"
  BY <1>1, <1>2 DEF Okay
<1> HIDE DEF job
<1>6. Live(job)
  BY <1>4, <1>5 DEF Live
<1> QED BY <1>1, <1>2, <1>4, <1>5, <1>6, OneJobOn

\* A failing call of Redis ends the attempt.
LEMMA FailMoves ==
  ASSUME SimOK, NEW j \in Slots, sims[j].st = "active", sims[j].pc # "lost",
         Spend("disruption"), FailAttempt(j), UNCHANGED <<world, intake, failed>>,
         strays' \in [quote.ops -> {"none", "valid", "defer"}]
  PROVE  SimOK' /\ Moves
<1>1. /\ Okay(sims[j]) /\ sims[j].attempts \in Nat /\ sims[j].stalls \in Nat
      /\ budget.disruption \in Nat /\ quote.faults.disruption \in Nat /\ failed \subseteq quote.ops
  BY JobFields
<1>2. PICK job \in Job :
           /\ FailAttempt(j) <=> Set1(j, job)
           /\ job.asked = {} /\ job.sim = "unknown" /\ job.pc = "check" /\ job.st \in {"free", "ready"}
           /\ job.st = "ready" => job.op = sims[j].op
           /\ job.attempts + job.stalls <= sims[j].attempts + sims[j].stalls + 1
           /\ sims[j].attempts + 1 < MaxAttempts => job.st = "ready"
  BY <1>1, FailedJob
<1>3. /\ budget' \in Faults /\ budget'.disruption <= budget.disruption /\ budget'.disruption \in Nat
      /\ budget'.disruption = budget.disruption - 1
  BY SpendFacts DEF SimOK, Faults
<1>4. quote' = quote /\ phase' = phase /\ deployed' = deployed
  BY DEF world
<1>5. sims[j].attempts + sims[j].stalls <= quote.faults.disruption - budget.disruption
  BY <1>1 DEF Okay
<1>6. job.attempts \in Nat /\ job.stalls \in Nat
  BY SimulatorConstantsOK DEF Job
<1>7. job.attempts + job.stalls + 0 <= quote.faults.disruption - budget'.disruption
  BY <1>1, <1>2, <1>3, <1>5, <1>6
<1>8. Okay(job)'
  BY <1>1, <1>2, <1>4, <1>7 DEF Okay
<1>9. FewDisruptions => sims[j].attempts + 1 < MaxAttempts
  <2>1. FewDisruptions => quote.faults.disruption < MaxAttempts
    BY DEF FewDisruptions, SimOK, SimTypes
  <2> QED BY <1>1, <1>3, <1>5, <2>1, SimulatorConstantsOK
<1>10. FewDisruptions => job.op = sims[j].op /\ Live(job)
  BY <1>2, <1>9 DEF Live
<1> QED BY <1>1, <1>2, <1>3, <1>8, <1>10, OneJob

LEMMA AnswerQuoteMoves == ASSUME SimOK, NEW j \in Slots, AnswerQuote(j) PROVE SimOK' /\ Moves
<1>1. sims[j] \in Job /\ Okay(sims[j]) /\ failed \subseteq quote.ops
      /\ strays \in [quote.ops -> {"none", "valid", "defer"}]
  BY JobFields
<1>2. At(j, "check") /\ UNCHANGED <<world, intake, failed>>
  BY DEF AnswerQuote
<1>3. CASE Set1(j, [sims[j] EXCEPT !.asked = @ \ {"quote"}]) /\ UNCHANGED <<strays, budget>>
  <2> DEFINE job == [sims[j] EXCEPT !.asked = @ \ {"quote"}]
  <2>1. /\ job \in Job /\ job.op = sims[j].op /\ job.st = sims[j].st /\ job.pc = sims[j].pc
        /\ job.sim = sims[j].sim /\ job.attempts = sims[j].attempts /\ job.stalls = sims[j].stalls
    BY <1>1 DEF Job
  <2>2. Set1(j, job)
    BY <1>3
  <2> HIDE DEF job
  <2>3. Live(job)
    BY <1>2, <2>1 DEF Live, At
  <2> QED BY <1>1, <1>2, <1>3, <2>1, <2>2, <2>3, OneJobOn DEF At, NoFault
<1>4. CASE /\ Spend("disruption") /\ FailAttempt(j)
           /\ strays' = IF {"valid", "defer"} \cap sims[j].asked = {} THEN strays
                        ELSE [strays EXCEPT ![sims[j].op] =
                                IF "valid" \in sims[j].asked THEN "valid" ELSE "defer"]
  <2>1. strays' \in [quote.ops -> {"none", "valid", "defer"}]
    BY <1>1, <1>4
  <2> QED BY <1>2, <1>4, <2>1, FailMoves DEF At
<1> QED BY <1>3, <1>4 DEF AnswerQuote

LEMMA AnswerValidationMoves ==
  ASSUME SimOK, NEW j \in Slots, AnswerValidation(j) PROVE SimOK' /\ Moves
<1> DEFINE o == sims[j].op
<1>1. sims[j] \in Job /\ Okay(sims[j]) /\ failed \subseteq quote.ops /\ o \in quote.ops
  BY JobFields DEF Okay, AnswerValidation, At
<1>2. At(j, "check") /\ UNCHANGED <<world, intake, strays>>
  BY DEF AnswerValidation
<1>3. PICK v \in {Verdict(o), "error"} :
       /\ IF v = Verdict(o) THEN NoFault ELSE Spend("rpc")
       /\ failed' = IF v = "error" THEN failed \cup {o} ELSE failed
       /\ CASE v = "error" -> Goto(j, "drop")
            [] v = "defer" -> Set1(j, [sims[j] EXCEPT !.asked = (@ \ {"valid"}) \cup {"defer"}])
            [] v = "pass"  -> Set1(j, [sims[j] EXCEPT !.asked = @ \ {"valid"}])
  BY DEF AnswerValidation
<1>4. v \in {"error", "defer", "pass"} /\ (NoFault \/ Spend("rpc"))
  BY <1>3 DEF Verdict
<1> HIDE DEF o
<1>5. failed \subseteq failed' /\ failed' \subseteq quote.ops
  BY <1>1, <1>3
<1>6. CASE v = "error"
  <2> DEFINE job == [sims[j] EXCEPT !.pc = "drop", !.asked = {}]
  <2>1. /\ job \in Job /\ job.op = sims[j].op /\ job.st = sims[j].st /\ job.pc = "drop" /\ job.asked = {}
        /\ job.sim = sims[j].sim /\ job.attempts = sims[j].attempts /\ job.stalls = sims[j].stalls
    BY <1>1 DEF Job
  <2>2. Set1(j, job) /\ sims[j].op \in failed'
    BY <1>3, <1>6 DEF Goto, o
  <2> HIDE DEF job
  <2> QED BY <1>2, <1>4, <1>5, <2>1, <2>2, OneJobOn DEF At
<1>7. CASE v \in {"defer", "pass"}
  <2> DEFINE asked == IF v = "defer" THEN (sims[j].asked \ {"valid"}) \cup {"defer"}
                                     ELSE sims[j].asked \ {"valid"}
             job == [sims[j] EXCEPT !.asked = asked]
  <2>1. asked \in SUBSET Calls
    BY <1>1 DEF Job, Calls
  <2>2. Set1(j, job)
    BY <1>3, <1>7
  <2> HIDE DEF asked
  <2>3. /\ job \in Job /\ job.op = sims[j].op /\ job.st = sims[j].st /\ job.pc = sims[j].pc
        /\ job.sim = sims[j].sim /\ job.attempts = sims[j].attempts /\ job.stalls = sims[j].stalls
    BY <1>1, <2>1 DEF Job
  <2> HIDE DEF job
  <2>4. Live(job)
    BY <1>2, <2>3 DEF Live, At
  <2> QED BY <1>2, <1>4, <1>5, <2>2, <2>3, <2>4, OneJobOn DEF At
<1> QED BY <1>4, <1>6, <1>7

LEMMA AnswerSimulationMoves ==
  ASSUME SimOK, NEW j \in Slots, AnswerSimulation(j) PROVE SimOK' /\ Moves
<1>1. sims[j] \in Job /\ failed \subseteq quote.ops
  BY JobFields
<1>2. At(j, "check") /\ UNCHANGED <<world, intake, failed, strays>>
  BY DEF AnswerSimulation
<1>3. PICK ok \in BOOLEAN :
       /\ TraceResult(sims[j].op, ok)
       /\ Set1(j, [sims[j] EXCEPT !.asked = @ \ {"sim"}, !.sim = IF ok THEN "ok" ELSE "bad"])
  BY DEF AnswerSimulation
<1> DEFINE job == [sims[j] EXCEPT !.asked = @ \ {"sim"}, !.sim = IF ok THEN "ok" ELSE "bad"]
<1>4. /\ job \in Job /\ job.op = sims[j].op /\ job.st = sims[j].st /\ job.pc = sims[j].pc
      /\ job.sim = (IF ok THEN "ok" ELSE "bad")
      /\ job.attempts = sims[j].attempts /\ job.stalls = sims[j].stalls
  BY <1>1 DEF Job
<1>5. Set1(j, job)
  BY <1>3
<1> HIDE DEF job
<1>6. Live(job)
  BY <1>2, <1>4 DEF Live, At
<1>7. job.sim = "ok" => Executable(sims[j].op)
  BY <1>3, <1>4 DEF TraceResult
<1>8. NoFault \/ Spend("rpc")
  BY <1>3 DEF TraceResult
<1> QED BY <1>1, <1>2, <1>4, <1>5, <1>6, <1>7, <1>8, OneJobOn DEF At

LEMMA DecideMoves == ASSUME SimOK, NEW j \in Slots, Decide(j) PROVE SimOK' /\ Moves
<1> DEFINE o == sims[j].op
<1>1. sims[j] \in Job /\ Okay(sims[j]) /\ failed \subseteq quote.ops /\ o \in quote.ops
  BY JobFields DEF Okay, Decide, At
<1>2. At(j, "check") /\ UNCHANGED <<world, intake, strays, budget>>
  BY DEF Decide
<1>3. failed' = IF o \notin Forced /\ phase[o] = "over" THEN failed \cup {o} ELSE failed
  BY DEF Decide
<1>4. phase[o] \in Phases
  BY <1>1 DEF SimOK, SimTypes
<1>5. failed \subseteq failed' /\ failed' \subseteq quote.ops
  <2> HIDE DEF o
  <2> QED BY <1>1, <1>3
<1>6. CASE /\ Set1(j, [sims[j] EXCEPT !.st = "done"])
           /\ \/ o \in Forced /\ phase[o] \in {"closing", "over"}
              \/ phase[o] # "over" /\ sims[j].sim = "ok"
  <2> DEFINE job == [sims[j] EXCEPT !.st = "done"]
  <2>1. /\ job \in Job /\ job.op = sims[j].op /\ job.st = "done" /\ job.asked = sims[j].asked
        /\ job.sim = sims[j].sim /\ job.attempts = sims[j].attempts /\ job.stalls = sims[j].stalls
    BY <1>1 DEF Job
  <2>2. Set1(j, job) /\ sims[j].asked = {}
    BY <1>6 DEF Decide
  <2> HIDE DEF job
  <2>3. Live(job)
    BY <2>1 DEF Live
  <2>4. InWindow(o)
    BY <1>1, <1>4, <1>6 DEF InWindow, Okay, Phases
  <2> QED BY <1>1, <1>2, <1>5, <2>1, <2>2, <2>3, <2>4, OneJobOn DEF At, NoFault
<1>7. ASSUME NEW p \in {"trace", "requeue", "drop"}, Goto(j, p),
             p = "drop" => o \notin Forced /\ phase[o] = "over"
      PROVE  SimOK' /\ Moves
  <2> DEFINE job == [sims[j] EXCEPT !.pc = p, !.asked = {}]
  <2>1. /\ job \in Job /\ job.op = sims[j].op /\ job.st = sims[j].st /\ job.asked = {} /\ job.pc = p
        /\ job.sim = sims[j].sim /\ job.attempts = sims[j].attempts /\ job.stalls = sims[j].stalls
    BY <1>1 DEF Job
  <2>2. Set1(j, job)
    BY <1>7 DEF Goto
  <2> HIDE DEF job
  <2>3. sims[j].op \in failed' \/ Live(job)
    BY <1>2, <1>3, <1>7, <2>1 DEF Live, At
  <2>4. job.st = "active" /\ job.pc # "lost" /\ sims[j].st = "active" /\ sims[j].pc # "lost"
    BY <1>2, <2>1 DEF At
  <2> HIDE DEF o
  <2> QED BY <1>1, <1>2, <1>5, <2>1, <2>2, <2>3, <2>4, OneJobOn DEF NoFault
<1>8. \/ /\ Set1(j, [sims[j] EXCEPT !.st = "done"])
         /\ \/ o \in Forced /\ phase[o] \in {"closing", "over"}
            \/ phase[o] # "over" /\ sims[j].sim = "ok"
      \/ Goto(j, "trace") \/ Goto(j, "requeue")
      \/ Goto(j, "drop") /\ o \notin Forced /\ phase[o] = "over"
  BY DEF Decide
<1> QED BY <1>6, <1>7, <1>8

LEMMA TraceMoves == ASSUME SimOK, NEW j \in Slots, Trace(j) PROVE SimOK' /\ Moves
<1>1. sims[j] \in Job /\ Okay(sims[j]) /\ failed \subseteq quote.ops
  BY JobFields
<1>2. At(j, "trace") /\ UNCHANGED <<world, intake, failed, strays>>
  BY DEF Trace
<1>3. sims[j].asked = {}
  BY <1>1, <1>2 DEF Okay, At
<1>4. PICK ok \in BOOLEAN :
       /\ TraceResult(sims[j].op, ok)
       /\ IF ok THEN Set1(j, [sims[j] EXCEPT !.st = "done"]) ELSE Goto(j, "requeue")
  BY DEF Trace
<1>5. NoFault \/ Spend("rpc")
  BY <1>4 DEF TraceResult
<1>6. CASE ok = TRUE
  <2> DEFINE job == [sims[j] EXCEPT !.st = "done"]
  <2>1. /\ job \in Job /\ job.op = sims[j].op /\ job.st = "done" /\ job.asked = {}
        /\ job.sim = sims[j].sim /\ job.attempts = sims[j].attempts /\ job.stalls = sims[j].stalls
    BY <1>1, <1>3 DEF Job
  <2>2. Set1(j, job)
    BY <1>4, <1>6
  <2> HIDE DEF job
  <2>3. Live(job)
    BY <2>1 DEF Live
  <2>4. InWindow(sims[j].op)
    BY <1>4, <1>6 DEF InWindow, TraceResult, Executable
  <2> QED BY <1>1, <1>2, <1>5, <2>1, <2>2, <2>3, <2>4, OneJobOn DEF At
<1>7. CASE ok = FALSE
  <2> DEFINE job == [sims[j] EXCEPT !.pc = "requeue", !.asked = {}]
  <2>1. /\ job \in Job /\ job.op = sims[j].op /\ job.st = sims[j].st /\ job.asked = {} /\ job.pc = "requeue"
        /\ job.sim = sims[j].sim /\ job.attempts = sims[j].attempts /\ job.stalls = sims[j].stalls
    BY <1>1 DEF Job
  <2>2. Set1(j, job)
    BY <1>4, <1>7 DEF Goto
  <2> HIDE DEF job
  <2>3. Live(job) /\ job.st = "active"
    BY <1>2, <2>1 DEF Live, At
  <2> QED BY <1>1, <1>2, <1>5, <2>1, <2>2, <2>3, OneJobOn DEF At
<1> QED BY <1>4, <1>6, <1>7

LEMMA FreeOkay ==
  ASSUME quote' \in Quotes, budget' \in Faults, budget'.disruption <= quote'.faults.disruption
  PROVE  Okay(FreeJob)'
<1> DEFINE job == FreeJob
<1>1. job.st = "free" /\ job.asked = {} /\ job.sim = "unknown" /\ job.attempts = 0 /\ job.stalls = 0
  BY FreeJobFacts
<1>2. quote'.faults.disruption \in Nat /\ budget'.disruption \in Nat
  BY QuoteFacts DEF Faults
<1>3. 0 + 0 + 0 <= quote'.faults.disruption - budget'.disruption
  BY <1>2
<1>4. FreeJob' = FreeJob
  BY DEF FreeJob, NewJob
<1> HIDE DEF job
<1> SUFFICES Okay(job)' BY <1>4 DEF job
<1> QED BY <1>1, <1>3, <1>4 DEF Okay, job

LEMMA DropMoves == ASSUME SimOK, NEW j \in Slots, Drop(j) PROVE SimOK' /\ Moves
<1>1. /\ budget \in Faults /\ budget.disruption \in Nat /\ quote \in Quotes
      /\ failed \subseteq quote.ops /\ strays \in [quote.ops -> {"none", "valid", "defer"}]
      /\ budget.disruption <= quote.faults.disruption
  BY JobFields DEF SimOK, SimTypes
<1>2. Set1(j, FreeJob) /\ At(j, "drop") /\ UNCHANGED <<world, intake, failed, strays, budget>>
  BY DEF Drop
<1>3. ~Live(sims[j])
  BY <1>2 DEF Live, At
<1>4. Okay(FreeJob)'
  BY <1>1, <1>2, FreeOkay DEF world
<1> QED BY <1>1, <1>2, <1>3, <1>4, FreeJobFacts, OneJob DEF At

LEMMA StalledMoves == ASSUME SimOK, NEW j \in Slots, SimStalled(j) PROVE SimOK' /\ Moves
<1>1. /\ sims[j] \in Job /\ Okay(sims[j]) /\ sims[j].attempts \in Nat /\ sims[j].stalls \in Nat
      /\ budget \in Faults /\ budget.disruption \in Nat /\ quote.faults.disruption \in Nat
      /\ failed \subseteq quote.ops /\ strays \in [quote.ops -> {"none", "valid", "defer"}]
  BY JobFields
<1>2. At(j, "lost") /\ UNCHANGED <<world, intake, failed, strays, budget>>
  BY DEF SimStalled
<1>3. sims[j].asked = {}
  BY <1>1, <1>2 DEF Okay, At
<1>4. CASE sims[j].stalls < MaxStalled
  <2> DEFINE job == [sims[j] EXCEPT !.st = "ready", !.pc = "check", !.stalls = @ + 1]
  <2>1. sims[j].stalls + 1 \in 0..MaxStalled
    BY <1>1, <1>4, SimulatorConstantsOK
  <2>2. /\ job \in Job /\ job.op = sims[j].op /\ job.st = "ready" /\ job.pc = "check" /\ job.asked = {}
        /\ job.sim = sims[j].sim /\ job.attempts = sims[j].attempts
        /\ job.stalls = sims[j].stalls + 1
    BY <1>1, <1>3, <2>1 DEF Job
  <2>3. Set1(j, job)
    BY <1>4 DEF SimStalled
  <2> HIDE DEF job
  <2>4. Live(job)
    BY <2>2 DEF Live
  <2> QED BY <1>1, <1>2, <2>2, <2>3, <2>4, OneJobOn DEF At, NoFault
<1>5. CASE ~(sims[j].stalls < MaxStalled)
  <2>1. Set1(j, FreeJob)
    BY <1>5 DEF SimStalled
  <2>2. sims[j].attempts + sims[j].stalls + 1 <= quote.faults.disruption - budget.disruption
    BY <1>1, <1>2 DEF Okay, At
  <2>3. ~FewDisruptions
    <3>1. FewDisruptions => quote.faults.disruption <= MaxStalled
      BY DEF FewDisruptions, SimOK, SimTypes
    <3> QED BY <1>1, <1>5, <2>2, <3>1, SimulatorConstantsOK
  <2>4. Okay(FreeJob)'
    BY <1>1, <1>2, FreeOkay DEF world, SimOK, SimTypes
  <2> QED BY <1>1, <1>2, <2>1, <2>3, <2>4, FreeJobFacts, OneJob DEF At
<1> QED BY <1>4, <1>5

-----------------------------------------------------------------------------
(* Steps that add jobs, change the world or lose jobs *)

\* A step that leaves the jobs to other facts.
LEMMA TypesStay ==
  ASSUME SimTypes, quote' = quote, phase' \in [quote.ops -> Phases], deployed' \in BOOLEAN,
         ready' \subseteq quote.ops,
         req' \in [Requests -> {"idle", "checked", "stored", "done", "refused", "dead"}],
         stored' \in BOOLEAN, scheduled' \subseteq Requests, failed' \subseteq quote.ops,
         sims' \in [Slots -> Job], strays' \in [quote.ops -> {"none", "valid", "defer"}],
         budget' \in Faults, budget'.disruption <= budget.disruption
  PROVE  SimTypes'
<1>1. quote \in Quotes /\ budget \in Faults /\ budget.disruption <= quote.faults.disruption
  BY DEF SimTypes
<1>2. /\ budget.disruption \in Nat /\ budget'.disruption \in Nat /\ quote.faults.disruption \in Nat
  BY <1>1, QuoteFacts DEF Faults
<1>3. budget'.disruption <= quote'.faults.disruption
  BY <1>1, <1>2
<1> SUFFICES
      /\ quote' \in Quotes /\ phase' \in [quote'.ops -> Phases] /\ deployed' \in BOOLEAN
      /\ ready' \subseteq quote'.ops
      /\ req' \in [Requests -> {"idle", "checked", "stored", "done", "refused", "dead"}]
      /\ stored' \in BOOLEAN /\ scheduled' \subseteq Requests
      /\ failed' \subseteq quote'.ops
      /\ sims' \in [Slots -> Job]
      /\ strays' \in [quote'.ops -> {"none", "valid", "defer"}]
      /\ budget' \in Faults /\ budget'.disruption <= quote'.faults.disruption
  BY DEF SimTypes, Slots, Job, Calls, Phases, Faults
<1> QED BY <1>1, <1>3

\* What is known of a job stays true while the world moves on.
LEMMA OkayStays ==
  ASSUME SimTypes, NEW job \in Job, Okay(job), quote' = quote,
         deployed => deployed', \A o \in quote.ops : phase[o] # "early" => phase'[o] # "early",
         budget' \in Faults, budget'.disruption <= budget.disruption
  PROVE  Okay(job)'
<1>1. /\ budget.disruption \in Nat /\ budget'.disruption \in Nat /\ quote.faults.disruption \in Nat
  BY QuoteFacts DEF SimTypes, Faults
<1>2. job.attempts \in 0..(MaxAttempts - 1) /\ job.stalls \in 0..MaxStalled
  BY DEF Job
<1>3. job.attempts \in Nat /\ job.stalls \in Nat
  BY <1>2
<1>4. job.attempts + job.stalls + (IF job.st = "active" /\ job.pc = "lost" THEN 1 ELSE 0)
        <= quote.faults.disruption - budget'.disruption
  BY <1>1, <1>3 DEF Okay
<1> QED BY <1>4 DEF Okay

LEMMA OkayNew ==
  ASSUME quote' \in Quotes, budget' \in Faults, budget'.disruption <= quote'.faults.disruption,
         NEW o \in quote'.ops, NEW retry \in BOOLEAN, NEW job, job = NewJob(o, retry)
  PROVE  Okay(job)'
<1>1. /\ job.st = "ready" /\ job.op = o /\ job.asked = {} /\ job.sim = "unknown" /\ job.attempts = 0
      /\ job.stalls = 0 /\ job.pc = "check"
  BY DEF NewJob
<1>2. quote'.faults.disruption \in Nat /\ budget'.disruption \in Nat
  BY QuoteFacts DEF Faults
<1>3. 0 + 0 + 0 <= quote'.faults.disruption - budget'.disruption
  BY <1>2
<1> QED BY <1>1, <1>3 DEF Okay

\* Jobs are added beside those there are.
LEMMA AddedQueue ==
  ASSUME SimTypes, NEW B \in SUBSET quote.ops, Room(B), NEW retry \in BOOLEAN,
         NEW queue, queue = Changed(Added(B, retry))
  PROVE  /\ queue \in [Slots -> Job]
         /\ \A i \in Slots : sims[i].st # "free" => queue[i] = sims[i]
         /\ \A i \in Slots : queue[i] = sims[i] \/ \E o \in B : queue[i] = NewJob(o, retry)
         /\ \A o \in B : \E i \in Slots : sims[i].st = "free" /\ queue[i] = NewJob(o, retry)
         /\ \A i, k \in Slots :
              (sims[i].st = "free" /\ sims[k].st = "free" /\ queue[i].st # "free"
                 /\ queue[k].st # "free" /\ queue[i].op = queue[k].op) => i = k
<1>1. B \subseteq Ops /\ sims \in [Slots -> Job]
  BY QuoteFacts DEF SimTypes
<1>10. B \in SUBSET Ops
  BY <1>1
<1>11. PICK S \in SUBSET Free : \E f \in [S -> B] :
        /\ Added(B, retry) = [j \in S |-> NewJob(f[j], retry)]
        /\ \A o \in B : \E j \in S : f[j] = o
        /\ \A i, j \in S : f[i] = f[j] => i = j
  <2>1. LaidOut(B, retry)
    BY <1>10, AddedFacts
  <2> QED BY <2>1 DEF LaidOut
<1>2. PICK f \in [S -> B] :
        /\ Added(B, retry) = [j \in S |-> NewJob(f[j], retry)]
        /\ \A o \in B : \E j \in S : f[j] = o
        /\ \A i, j \in S : f[i] = f[j] => i = j
  BY <1>11
<1>3. queue = [i \in Slots |-> IF i \in S THEN NewJob(f[i], retry) ELSE sims[i]]
  <2>1. \A i \in S : Added(B, retry)[i] = NewJob(f[i], retry)
    BY <1>2
  <2>2. DOMAIN Added(B, retry) = S
    BY <1>2
  <2> QED BY <2>1, <2>2 DEF Changed
<1>4. \A i \in S : i \in Slots /\ sims[i].st = "free" /\ f[i] \in B
  BY DEF Free
<1>5. \A o \in B : NewJob(o, retry) \in Job
  BY <1>1, NewJobFacts
<1>6. \A i \in Slots : queue[i] = IF i \in S THEN NewJob(f[i], retry) ELSE sims[i]
  BY <1>3
<1>7. queue \in [Slots -> Job]
  <2>1. \A i \in Slots : (IF i \in S THEN NewJob(f[i], retry) ELSE sims[i]) \in Job
    BY <1>1, <1>4, <1>5
  <2> QED BY <1>3, <2>1
<1>8. \A i \in Slots : sims[i].st # "free" => queue[i] = sims[i]
  BY <1>4, <1>6
<1>9. \A i \in Slots : queue[i] = sims[i] \/ \E o \in B : queue[i] = NewJob(o, retry)
  BY <1>4, <1>6
<1>12. \A o \in B : \E i \in Slots : sims[i].st = "free" /\ queue[i] = NewJob(o, retry)
  BY <1>2, <1>4, <1>6
<1>13. ASSUME NEW i \in Slots, NEW k \in Slots, sims[i].st = "free", sims[k].st = "free",
              queue[i].st # "free", queue[k].st # "free", queue[i].op = queue[k].op
       PROVE  i = k
  <2>1. i \in S /\ k \in S
    BY <1>6, <1>13
  <2>2. \A o : NewJob(o, retry).op = o
    BY DEF NewJob
  <2>3. queue[i] = NewJob(f[i], retry) /\ queue[k] = NewJob(f[k], retry)
    BY <1>6, <2>1
  <2>4. f[i] = f[k]
    BY <1>13, <2>2, <2>3
  <2> QED BY <1>2, <2>1, <2>4
<1> QED BY <1>7, <1>8, <1>9, <1>12, <1>13

LEMMA NewJobLives == ASSUME NEW o, NEW retry PROVE NewJob(o, retry).op = o /\ NewJob(o, retry).st = "ready" /\ Live(NewJob(o, retry))
BY DEF NewJob, Live

LEMMA RequeueMoves == ASSUME SimOK, NEW j \in Slots, Requeue(j) PROVE SimOK' /\ Moves
<1> DEFINE o == sims[j].op
<1>1. /\ sims[j] \in Job /\ Okay(sims[j]) /\ failed \subseteq quote.ops
      /\ strays \in [quote.ops -> {"none", "valid", "defer"}]
  BY JobFields
<1>2. /\ sims[j].st = "active" /\ sims[j].pc # "lost" /\ UNCHANGED <<world, intake, failed, strays>>
      /\ sims \in [Slots -> Job] /\ SimTypes
  BY DEF Requeue, At, SimOK, SimTypes
<1>3. CASE /\ Room({o})
           /\ sims' = [Changed(Added({o}, TRUE)) EXCEPT ![j].pc = "drop", ![j].asked = {}]
           /\ NoFault
  <2> DEFINE queue == Changed(Added({o}, TRUE))
  <2>15. PICK job : job = [sims[j] EXCEPT !.pc = "drop", !.asked = {}]
    OBVIOUS
  <2>1. {o} \in SUBSET quote.ops /\ Room({o})
    BY <1>1, <1>2, <1>3 DEF Okay
  <2> HIDE DEF o
  <2>2. /\ queue \in [Slots -> Job]
        /\ \A i \in Slots : sims[i].st # "free" => queue[i] = sims[i]
        /\ \A i \in Slots : queue[i] = sims[i] \/ \E x \in {o} : queue[i] = NewJob(x, TRUE)
        /\ \A x \in {o} : \E i \in Slots : sims[i].st = "free" /\ queue[i] = NewJob(x, TRUE)
    <3>1. PICK B \in SUBSET quote.ops : B = {o}
      BY <2>1
    <3>2. PICK retry \in BOOLEAN : retry = TRUE
      OBVIOUS
    <3>3. Room(B) /\ queue = Changed(Added(B, retry))
      BY <2>1, <3>1, <3>2
    <3> HIDE DEF queue
    <3>4. /\ queue \in [Slots -> Job]
          /\ \A i \in Slots : sims[i].st # "free" => queue[i] = sims[i]
          /\ \A i \in Slots : queue[i] = sims[i] \/ \E x \in B : queue[i] = NewJob(x, retry)
          /\ \A x \in B : \E i \in Slots : sims[i].st = "free" /\ queue[i] = NewJob(x, retry)
      BY <1>2, <3>3, AddedQueue
    <3> QED BY <3>1, <3>2, <3>4
  <2>3. sims' = [[queue EXCEPT ![j].pc = "drop"] EXCEPT ![j].asked = {}]
    BY <1>3
  <2> HIDE DEF queue
  <2>4. /\ job \in Job /\ job.op = sims[j].op /\ job.st = "active" /\ job.pc = "drop" /\ job.asked = {}
        /\ job.sim = sims[j].sim /\ job.attempts = sims[j].attempts /\ job.stalls = sims[j].stalls
    BY <1>1, <1>2, <2>15 DEF Job
  <2>5. queue[j] = sims[j]
    BY <1>2, <2>2
  <2>6. sims'[j] = job /\ \A i \in Slots : i # j => sims'[i] = queue[i]
    <3>1. DOMAIN queue = Slots
      BY <2>2
    <3> QED BY <2>3, <2>5, <2>15, <3>1
  <2>7. sims' \in [Slots -> Job]
    <3> DEFINE q1 == [queue EXCEPT ![j].pc = "drop"]
               q2 == [q1 EXCEPT ![j].asked = {}]
    <3>1. q1 = [i \in Slots |-> q1[i]]
      BY <2>2
    <3> HIDE DEF q1
    <3>2. q2 = [i \in Slots |-> q2[i]]
      BY <3>1
    <3>3. sims' = q2
      BY <2>3 DEF q1
    <3> HIDE DEF q2
    <3>4. \A i \in Slots : q2[i] \in Job
      BY <2>2, <2>4, <2>6, <3>3
    <3> QED BY <3>2, <3>3, <3>4
  <2>8. /\ budget' = budget /\ quote' = quote /\ phase' = phase /\ deployed' = deployed
        /\ quote \in Quotes /\ budget \in Faults /\ budget.disruption <= quote.faults.disruption
        /\ budget.disruption <= budget.disruption /\ scheduled' = scheduled
    BY <1>2, <1>3, QuoteFacts DEF world, intake, NoFault, SimTypes, Faults
  <2>9. SimTypes'
    BY <1>1, <1>2, <2>7, <2>8, TypesStay DEF world, intake, SimTypes
  <2>10. ASSUME NEW i \in Slots PROVE Okay(sims[i])'
    <3>1. CASE i = j
      <4>1. Okay(job)
        BY <1>1, <1>2, <2>4 DEF Okay
      <4>2. Okay(job)'
        BY <1>2, <2>4, <2>8, <4>1, OkayStays
      <4> QED BY <2>6, <3>1, <4>2 DEF Okay
    <3>2. CASE i # j /\ queue[i] = sims[i]
      <4>1. sims[i] \in Job /\ Okay(sims[i])
        BY <1>2 DEF SimOK
      <4>2. sims'[i] = sims[i]
        BY <2>6, <3>2
      <4> DEFINE old == sims[i]
      <4>3. Okay(old) /\ old \in Job /\ sims'[i] = old
        BY <4>1, <4>2
      <4> HIDE DEF old
      <4>4. (quote'.faults = quote.faults) /\ Okay(sims[i])' <=> Okay(sims[i])
        BY <2>8, <4>2 DEF Okay
      <4> QED BY <4>1, <4>4
    <3>3. CASE i # j /\ queue[i] = NewJob(o, TRUE)
      <4>1. /\ o \in quote'.ops /\ sims'[i] = NewJob(o, TRUE) /\ quote' \in Quotes
            /\ budget' \in Faults /\ budget'.disruption <= quote'.faults.disruption /\ TRUE \in BOOLEAN
        BY <2>1, <2>6, <2>8, <3>3
      <4>2. PICK new : new = NewJob(o, TRUE)
        OBVIOUS
      <4>3. Okay(new)'
        BY <4>1, <4>2, OkayNew
      <4> QED BY <4>1, <4>2, <4>3 DEF Okay
    <3> QED BY <2>2, <3>1, <3>2, <3>3
  <2>11. SimOK'
    BY <2>9, <2>10 DEF SimOK, Slots
  <2>12. ASSUME NEW x \in quote.ops, Carried(x) PROVE Carried(x)'
    <3>1. PICK i \in Slots : sims[i].op = x /\ Live(sims[i])
      BY <2>12 DEF Carried
    <3>2. CASE i = j
      <4>1. x = o
        BY <3>1, <3>2 DEF o
      <4>2. PICK k \in Slots : sims[k].st = "free" /\ queue[k] = NewJob(o, TRUE)
        BY <2>2
      <4>3. sims'[k] = NewJob(o, TRUE)
        BY <1>2, <2>6, <4>2
      <4>4. sims'[k].op = o /\ sims'[k].st = "ready"
        BY <4>3 DEF NewJob
      <4> QED BY <4>1, <4>4 DEF Carried, Live, Slots
    <3>3. CASE i # j
      <4>1. sims'[i] = sims[i]
        BY <2>2, <2>6, <3>1, <3>3 DEF Live
      <4> QED BY <3>1, <4>1 DEF Carried, Live, Slots
    <3> QED BY <3>2, <3>3
  <2>13. \A i \in Slots : sims[i].st = "done" => sims'[i] = sims[i]
    BY <1>2, <2>2, <2>6
  <2>14. \A i \in Slots : sims[i].st = "active" /\ sims'[i].st = "done" => InWindow(sims[i].op)
    BY <2>2, <2>4, <2>6
  <2> QED BY <1>2, <2>8, <2>11, <2>12, <2>13, <2>14 DEF Moves
<1>4. CASE Spend("disruption") /\ FailAttempt(j)
  BY <1>1, <1>2, <1>4, FailMoves
<1> QED BY <1>3, <1>4 DEF Requeue

LEMMA AddMoves ==
  ASSUME SimOK, NEW B \in SUBSET quote.ops, Room(B), NEW retry \in BOOLEAN,
         sims' = Changed(Added(B, retry)), UNCHANGED <<world, stored, failed, budget>>,
         req' \in [Requests -> {"idle", "checked", "stored", "done", "refused", "dead"}],
         strays' \in [quote.ops -> {"none", "valid", "defer"}], scheduled' \subseteq Requests,
         scheduled' = scheduled \/ B = quote.ops
  PROVE  SimOK' /\ Moves
<1> PICK queue : queue = Changed(Added(B, retry))
  OBVIOUS
<1>1. SimTypes /\ sims' = queue
  BY DEF SimOK
<1>2. /\ queue \in [Slots -> Job]
      /\ \A i \in Slots : sims[i].st # "free" => queue[i] = sims[i]
      /\ \A i \in Slots : queue[i] = sims[i] \/ \E x \in B : queue[i] = NewJob(x, retry)
      /\ \A x \in B : \E i \in Slots : sims[i].st = "free" /\ queue[i] = NewJob(x, retry)
  BY <1>1, AddedQueue
<1>3. /\ budget' = budget /\ quote' = quote /\ phase' = phase /\ deployed' = deployed
      /\ ready' = ready /\ failed' = failed /\ stored' = stored
      /\ quote \in Quotes /\ budget \in Faults /\ budget.disruption <= quote.faults.disruption
      /\ budget.disruption <= budget.disruption
  BY <1>1, QuoteFacts DEF world, SimTypes, Faults
<1>4. SimTypes'
  BY <1>1, <1>2, <1>3, TypesStay DEF SimTypes
<1>5. ASSUME NEW i \in Slots PROVE Okay(sims[i])'
  <2>1. CASE queue[i] = sims[i]
    <3>1. Okay(sims[i])' <=> Okay(sims[i])
      BY <1>1, <1>3, <2>1 DEF Okay
    <3> QED BY <3>1 DEF SimOK
  <2>2. ASSUME NEW x \in B, queue[i] = NewJob(x, retry) PROVE Okay(sims[i])'
    <3>1. PICK new : new = NewJob(x, retry)
      OBVIOUS
    <3>2. Okay(new)'
      BY <1>3, <3>1, OkayNew
    <3> QED BY <1>1, <2>2, <3>1, <3>2 DEF Okay
  <2> QED BY <1>2, <2>1, <2>2
<1>6. SimOK'
  BY <1>4, <1>5 DEF SimOK, Slots
<1>7. ASSUME NEW x \in quote.ops, Carried(x) PROVE Carried(x)'
  <2>1. PICK i \in Slots : sims[i].op = x /\ Live(sims[i])
    BY <1>7 DEF Carried
  <2>2. sims'[i] = sims[i]
    BY <1>1, <1>2, <2>1 DEF Live
  <2> QED BY <2>1, <2>2 DEF Carried, Live, Slots
<1>8. ASSUME NEW x \in B PROVE Carried(x)'
  <2>1. PICK i \in Slots : queue[i] = NewJob(x, retry)
    BY <1>2
  <2>2. sims'[i].op = x /\ sims'[i].st = "ready"
    BY <1>1, <2>1 DEF NewJob
  <2> QED BY <2>2 DEF Carried, Live, Slots
<1>9. \A i \in Slots : sims[i].st = "done" => sims'[i] = sims[i]
  BY <1>1, <1>2
<1>10. \A i \in Slots : sims[i].st = "active" /\ sims'[i].st = "done" => InWindow(sims[i].op)
  BY <1>1, <1>2
<1> QED BY <1>3, <1>6, <1>7, <1>8, <1>9, <1>10 DEF Moves

\* A step that leaves the queue alone.
LEMMA StillMoves ==
  ASSUME SimOK, SimTypes', sims' = sims, quote' = quote, failed \subseteq failed',
         deployed => deployed', \A o \in quote.ops : phase[o] # "early" => phase'[o] # "early",
         budget'.disruption <= budget.disruption, scheduled' = scheduled
  PROVE  SimOK' /\ Moves
<1>1. SimTypes /\ budget' \in Faults /\ sims \in [Slots -> Job]
  BY DEF SimOK, SimTypes, Faults, Slots, Job, Calls
<1>2. ASSUME NEW i \in Slots PROVE Okay(sims[i])'
  <2>1. PICK job \in Job : job = sims[i]
    BY <1>1
  <2>2. Okay(job)
    BY <2>1 DEF SimOK
  <2>3. Okay(job)'
    BY <1>1, <2>2, OkayStays
  <2> QED BY <2>1, <2>3 DEF Okay
<1>3. SimOK'
  BY <1>2 DEF SimOK, Slots
<1>4. \A o \in quote.ops : Carried(o) => Carried(o)'
  BY DEF Carried, Live
<1> QED BY <1>3, <1>4 DEF Moves

\* The jobs worked on are lost with the thread.
LEMMA LostMoves ==
  ASSUME SimOK, Spend("disruption"), sims' = Changed(LostJobs),
         UNCHANGED <<world, stored, scheduled, failed>>,
         req' \in [Requests -> {"idle", "checked", "stored", "done", "refused", "dead"}],
         strays' = [o \in quote.ops |-> "none"]
  PROVE  SimOK' /\ Moves
<1>1. /\ SimTypes /\ sims \in [Slots -> Job]
      /\ quote' = quote /\ phase' = phase /\ deployed' = deployed /\ ready' = ready
      /\ failed' = failed /\ stored' = stored /\ scheduled' = scheduled
  BY DEF SimOK, SimTypes, world
<1>2. /\ budget' \in Faults /\ budget'.disruption <= budget.disruption
      /\ budget'.disruption = budget.disruption - 1
      /\ budget.disruption \in Nat /\ budget'.disruption \in Nat /\ quote.faults.disruption \in Nat
  <2>1. budget' \in Faults /\ budget \in Faults /\ budget'.disruption <= budget.disruption
        /\ budget'.disruption = budget.disruption - 1
    BY <1>1, SpendFacts DEF SimTypes
  <2> QED BY <1>1, <2>1, QuoteFacts DEF SimTypes, Faults
<1>3. \A i \in Slots : sims'[i] =
        IF sims[i].st = "active" THEN [sims[i] EXCEPT !.pc = "lost", !.asked = {}, !.sim = "unknown"]
        ELSE sims[i]
  BY DEF Changed, LostJobs
<1>4. ASSUME NEW i \in Slots
      PROVE  /\ sims'[i] \in Job /\ sims'[i].op = sims[i].op /\ sims'[i].st = sims[i].st
             /\ sims[i].st # "active" => sims'[i] = sims[i]
             /\ sims[i].st = "active" =>
                  /\ sims'[i].pc = "lost" /\ sims'[i].asked = {} /\ sims'[i].sim = "unknown"
                  /\ sims'[i].attempts = sims[i].attempts /\ sims'[i].stalls = sims[i].stalls
  <2>1. sims[i] \in Job
    BY <1>1
  <2>2. CASE sims[i].st = "active"
    BY <1>3, <2>1, <2>2 DEF Job
  <2>3. CASE sims[i].st # "active"
    BY <1>3, <2>1, <2>3
  <2> QED BY <2>2, <2>3
<1>5. sims' \in [Slots -> Job]
  <2>1. DOMAIN sims' = Slots /\ sims' = [i \in Slots |-> sims'[i]]
    BY DEF Changed
  <2> QED BY <1>4, <2>1
<1>6. SimTypes'
  BY <1>1, <1>2, <1>5, TypesStay DEF SimTypes
<1>7. ASSUME NEW i \in Slots PROVE Okay(sims[i])'
  <2>1. PICK old \in Job : old = sims[i]
    BY <1>1
  <2>2. Okay(old) /\ old.attempts \in Nat /\ old.stalls \in Nat
    BY <2>1, JobFields
  <2>3. CASE old.st = "active"
    <3>1. old.attempts + old.stalls <= quote.faults.disruption - budget.disruption
      BY <1>2, <2>2 DEF Okay
    <3>2. old.attempts + old.stalls + 1 <= quote.faults.disruption - budget'.disruption
      BY <1>2, <2>2, <3>1
    <3>3. PICK new \in Job : new = sims'[i]
      BY <1>5
    <3>4. /\ new.st = "active" /\ new.op = old.op /\ new.pc = "lost" /\ new.asked = {}
          /\ new.sim = "unknown" /\ new.attempts = old.attempts /\ new.stalls = old.stalls
      BY <1>4, <2>1, <2>3, <3>3
    <3>5. Okay(new)'
      BY <1>1, <2>2, <2>3, <3>2, <3>4 DEF Okay
    <3> QED BY <3>3, <3>5 DEF Okay
  <2>4. CASE old.st # "active"
    <3>1. Okay(old)'
      BY <1>1, <1>2, <2>2, OkayStays
    <3> QED BY <1>4, <2>1, <2>4, <3>1 DEF Okay
  <2> QED BY <2>3, <2>4
<1>8. SimOK'
  BY <1>6, <1>7 DEF SimOK, Slots
<1>9. ASSUME NEW o \in quote.ops, Carried(o) PROVE Carried(o)'
  <2>1. PICK i \in Slots : sims[i].op = o /\ Live(sims[i])
    BY <1>9 DEF Carried
  <2>2. sims'[i].op = o /\ Live(sims'[i])
    BY <1>4, <2>1 DEF Live
  <2> QED BY <2>2 DEF Carried, Live, Slots
<1>10. \A i \in Slots : sims[i].st = "done" => sims'[i] = sims[i]
  BY <1>4
<1>11. \A i \in Slots : ~(sims[i].st = "active" /\ sims'[i].st = "done")
  BY <1>4
<1> QED BY <1>1, <1>8, <1>9, <1>10, <1>11 DEF Moves

\* Every step of the requests, the simulator and the world around it.
LEMMA SimStepMoves == ASSUME SimOK, SimStep PROVE SimOK' /\ Moves
<1>1. /\ SimTypes /\ budget \in Faults /\ budget.disruption \in Nat /\ quote \in Quotes
      /\ req \in [Requests -> {"idle", "checked", "stored", "done", "refused", "dead"}]
      /\ phase \in [quote.ops -> Phases] /\ deployed \in BOOLEAN /\ ready \subseteq quote.ops
      /\ stored \in BOOLEAN /\ scheduled \subseteq Requests /\ failed \subseteq quote.ops
      /\ sims \in [Slots -> Job] /\ strays \in [quote.ops -> {"none", "valid", "defer"}]
  BY DEF SimOK, SimTypes, Faults
<1>2. budget.disruption <= budget.disruption
  BY <1>1
<1>3. ASSUME NEW r \in Requests, Check(r) \/ Store(r) PROVE SimOK' /\ Moves
  <2>1. /\ UNCHANGED <<world, scheduled, failed, sims, strays, budget>>
        /\ stored' \in BOOLEAN
        /\ req' \in [Requests -> {"idle", "checked", "stored", "done", "refused", "dead"}]
    BY <1>1, <1>3 DEF Check, Store
  <2>2. SimTypes'
    BY <1>1, <1>2, <2>1, TypesStay DEF world
  <2> QED BY <1>2, <2>1, <2>2, StillMoves DEF world
<1>4. ASSUME NEW r \in Requests, Schedule(r) PROVE SimOK' /\ Moves
  <2>1. /\ UNCHANGED <<world, stored, failed, strays>>
        /\ req' \in [Requests -> {"idle", "checked", "stored", "done", "refused", "dead"}]
    BY <1>1, <1>4 DEF Schedule
  <2>2. CASE /\ Room(quote.ops) /\ sims' = Changed(Added(quote.ops, FALSE))
             /\ scheduled' = scheduled \cup {r} /\ NoFault
    <3>1. /\ scheduled' \subseteq Requests /\ budget' = budget
          /\ strays' \in [quote.ops -> {"none", "valid", "defer"}]
      BY <1>1, <2>1, <2>2 DEF NoFault
    <3> QED BY <2>1, <2>2, <3>1, AddMoves
  <2>3. CASE Spend("disruption") /\ UNCHANGED <<sims, scheduled>>
    <3>1. budget' \in Faults /\ budget'.disruption <= budget.disruption
      BY <1>1, <2>3, SpendFacts
    <3>2. SimTypes'
      BY <1>1, <2>1, <2>3, <3>1, TypesStay DEF world
    <3> QED BY <2>1, <2>3, <3>1, <3>2, StillMoves DEF world
  <2> QED BY <1>4, <2>2, <2>3 DEF Schedule
<1>5. ASSUME NEW o \in quote.ops, Stray(o) PROVE SimOK' /\ Moves
  <2>1. UNCHANGED <<world, intake, budget>>
    BY <1>5 DEF Stray
  <2>2. CASE /\ failed' = IF Verdict(o) = "error" THEN failed \cup {o} ELSE failed
             /\ strays' = [strays EXCEPT ![o] = IF Verdict(o) = "defer" THEN "defer" ELSE "none"]
             /\ UNCHANGED sims
    <3>1. /\ strays' \in [quote.ops -> {"none", "valid", "defer"}]
          /\ failed \subseteq failed' /\ failed' \subseteq quote.ops
      BY <1>1, <2>2
    <3>2. SimTypes'
      BY <1>1, <1>2, <2>1, <2>2, <3>1, TypesStay DEF world, intake
    <3> QED BY <1>2, <2>1, <2>2, <3>1, <3>2, StillMoves DEF world, intake
  <2>3. CASE /\ Room({o}) /\ sims' = Changed(Added({o}, TRUE))
             /\ strays' = [strays EXCEPT ![o] = "none"] /\ UNCHANGED failed
    <3>1. strays' \in [quote.ops -> {"none", "valid", "defer"}] /\ {o} \in SUBSET quote.ops
      BY <1>1, <2>3
    <3>2. UNCHANGED <<world, stored, failed, budget>> /\ req' = req /\ scheduled' = scheduled
      BY <2>1, <2>3 DEF intake
    <3> QED BY <1>1, <2>3, <3>1, <3>2, AddMoves
  <2> QED BY <1>5, <2>2, <2>3 DEF Stray
<1>6. ASSUME NEW o \in quote.ops, Advance(o) PROVE SimOK' /\ Moves
  <2>1. /\ UNCHANGED <<quote, deployed, ready, intake, failed, sims, strays, budget>>
        /\ phase' = [phase EXCEPT ![o] = Later(o)]
    BY <1>6 DEF Advance
  <2>2. Later(o) \in Phases \ {"early"}
    BY DEF Later, Phases
  <2>3. /\ phase' \in [quote.ops -> Phases]
        /\ \A x \in quote.ops : phase[x] # "early" => phase'[x] # "early"
    BY <1>1, <2>1, <2>2
  <2>4. SimTypes'
    BY <1>1, <1>2, <2>1, <2>3, TypesStay DEF intake
  <2> QED BY <1>2, <2>1, <2>3, <2>4, StillMoves DEF intake
<1>7. CASE ChainChange
  <2>4. UNCHANGED <<quote, phase, intake, failed, sims, strays>> /\ Spend("change")
    BY <1>7 DEF ChainChange
  <2>6. ASSUME NEW o \in quote.ops, ready' = (ready \ {o}) \cup ({o} \ ready), UNCHANGED deployed
        PROVE  ready' \subseteq quote.ops
    BY <1>1, <2>6
  <2>7. deployed' \in BOOLEAN /\ (deployed => deployed') /\ ready' \subseteq quote.ops
    <3>1. CASE ~deployed /\ deployed' = TRUE /\ UNCHANGED ready
      BY <1>1, <3>1
    <3>2. CASE \E o \in quote.ops : ready' = (ready \ {o}) \cup ({o} \ ready) /\ UNCHANGED deployed
      <4>1. deployed' = deployed
        BY <3>2
      <4>2. ready' \subseteq quote.ops
        BY <2>6, <3>2
      <4> QED BY <1>1, <4>1, <4>2
    <3> QED BY <1>7, <3>1, <3>2 DEF ChainChange
  <2>1. /\ UNCHANGED <<quote, phase, intake, failed, sims, strays>> /\ Spend("change")
        /\ deployed' \in BOOLEAN /\ (deployed => deployed') /\ ready' \subseteq quote.ops
    BY <2>4, <2>7
  <2>2. budget' \in Faults /\ budget'.disruption <= budget.disruption
    BY <1>1, <2>1, SpendFacts
  <2>3. SimTypes'
    BY <1>1, <2>1, <2>2, TypesStay DEF intake
  <2> QED BY <2>1, <2>2, <2>3, StillMoves DEF intake
<1>8. CASE SimCrash
  BY <1>1, <1>8, LostMoves DEF SimCrash, intake
<1>9. ASSUME NEW j \in Slots, JobStep(j) PROVE SimOK' /\ Moves
  BY <1>9, TakeMoves, AnswerQuoteMoves, AnswerValidationMoves, AnswerSimulationMoves,
     DecideMoves, TraceMoves, RequeueMoves, DropMoves, StalledMoves DEF JobStep
<1> QED BY <1>3, <1>4, <1>5, <1>6, <1>7, <1>8, <1>9 DEF SimStep, RequestStep

-----------------------------------------------------------------------------
(* The batcher *)

\* What the round under way knows of the jobs it took, and the gas of its blocks.
RoundOK ==
  /\ bat \in [pc: {"idle", "fetch", "hand", "remove"}, jobs: SUBSET Slots, batches: Seq(Batch)]
  /\ bat.pc \in {"hand", "remove"} => \A j \in bat.jobs : sims[j].st = "done"
  /\ bat.pc = "hand" => \A j \in bat.jobs :
       \/ sims[j].op \in failed
       \/ \E k \in 1..Len(bat.batches) : InBlock(sims[j].op, bat.batches[k])
  /\ bat.pc = "remove" => \A j \in bat.jobs : HandedOver(sims[j].op) \/ sims[j].op \in failed
  /\ \A k \in 1..Len(bat.batches) : Fits(bat.batches[k])

BlocksOK == blocks \in Seq(Block) /\ \A i \in 1..Len(blocks) : Fits(blocks[i])

\* Nothing is lost: a live job, a block or an error for each userOp taken on.
Kept == \A o \in Accepted : Carried(o) \/ HandedOver(o) \/ o \in failed

IInv == SimOK /\ RoundOK /\ BlocksOK /\ (FewDisruptions => Kept)

LEMMA IInvImplies == ASSUME IInv PROVE TypeOK /\ BlocksFit /\ (FewDisruptions => NothingLost)
<1>1. TypeOK
  BY DEF IInv, SimOK, SimTypes, RoundOK, BlocksOK, Okay, TypeOK
<1>2. BlocksFit
  <2>1. ASSUME NEW i \in 1..Len(blocks)
        PROVE  blocks[i].ops # <<>> /\ GasFor(blocks[i].ops) <= GasCap
    <3>1. Fits(blocks[i])
      BY DEF IInv, BlocksOK
    <3> QED BY <3>1 DEF Fits
  <2> QED BY <2>1 DEF BlocksFit
<1>3. FewDisruptions => NothingLost
  BY DEF IInv, Kept, NothingLost, InSimulator, Carried, Live
<1> QED BY <1>1, <1>2, <1>3

LEMMA InitIInv == ASSUME Init PROVE IInv
<1>1. /\ quote \in Quotes /\ quote.faults \in Faults /\ quote.faults.disruption \in Nat
      /\ quote.undeployed \in BOOLEAN /\ budget = quote.faults
      /\ sims = [i \in Slots |-> FreeJob] /\ scheduled = {} /\ failed = {}
      /\ deployed = ~quote.undeployed
  BY QuoteFacts DEF Init, SimInit
<1>2. SimTypes
  <2>1. budget.disruption <= quote.faults.disruption
    BY <1>1
  <2>2. sims \in [Slots -> Job]
    BY <1>1, FreeJobFacts
  <2> QED BY <1>1, <2>1, <2>2 DEF Init, SimInit, SimTypes, Phases
<1>3. ASSUME NEW i \in Slots PROVE Okay(sims[i])
  <2>1. sims[i] = FreeJob
    BY <1>1
  <2>2. 0 + 0 + 0 <= quote.faults.disruption - budget.disruption
    BY <1>1
  <2> QED BY <2>1, <2>2, FreeJobFacts DEF Okay
<1>4. RoundOK /\ BlocksOK
  <2>1. Len(<<>>) = 0 /\ <<>> \in Seq(Batch) /\ <<>> \in Seq(Block) /\ \A k \in 1..0 : FALSE
    OBVIOUS
  <2>2. bat = [pc |-> "idle", jobs |-> {}, batches |-> <<>>] /\ blocks = <<>>
    BY DEF Init, IdleBatcher
  <2> QED BY <2>1, <2>2 DEF RoundOK, BlocksOK
<1>5. Kept
  BY <1>1 DEF Kept, Accepted
<1> QED BY <1>2, <1>3, <1>4, <1>5 DEF IInv, SimOK

\* An order of the completed jobs lists each of them.
LEMMA OrderFacts ==
  ASSUME NEW S, IsFiniteSet(S), NEW order \in SetToSeqs(S)
  PROVE  /\ order \in Seq(S) /\ Len(order) \in Nat
         /\ \A x \in S : \E i \in 1..Len(order) : order[i] = x
         /\ \A i, k \in 1..Len(order) : order[i] = order[k] => i = k
<1> DEFINE n == Cardinality(S)
<1>1. n \in Nat
  BY FS_CardinalityType
<1>2. order \in [1..n -> S] /\ \A i, k \in 1..n : i # k => order[i] # order[k]
  BY DEF SetToSeqs
<1> HIDE DEF n
<1>3. order \in Seq(S) /\ Len(order) = n
  BY <1>1, <1>2
<1>4. order \in Surjection(1..n, S)
  <2>1. order \in Injection(1..n, S)
    BY <1>2 DEF Injection, IsInjective
  <2>2. IsFiniteSet(1..n) /\ Cardinality(1..n) = n
    BY <1>1, FS_Interval
  <2> QED BY <2>1, <2>2, FS_Injection DEF n
<1> QED BY <1>1, <1>2, <1>3, <1>4 DEF Surjection

\* Blocks are queued behind those there are.
LEMMA Queued ==
  ASSUME NEW bs \in Seq(Batch), BlocksOK, blocks' = blocks \o AsBlocks(bs)
  PROVE  /\ blocks \in Seq(Block) /\ blocks' \in Seq(Block)
         /\ Len(blocks) \in Nat /\ Len(blocks') = Len(blocks) + Len(bs)
         /\ \A i \in 1..Len(blocks) : i \in 1..Len(blocks') /\ blocks'[i] = blocks[i]
         /\ \A k \in 1..Len(bs) : /\ Len(blocks) + k \in 1..Len(blocks')
                                  /\ blocks'[Len(blocks) + k].ops = bs[k].ops
                                  /\ blocks'[Len(blocks) + k].gas = bs[k].gas
         /\ \A i \in 1..Len(blocks') :
              i \in 1..Len(blocks) \/ \E k \in 1..Len(bs) : i = Len(blocks) + k
<1> DEFINE new == AsBlocks(bs)
           m   == Len(blocks)
           n   == Len(bs)
<1>1. m \in Nat /\ n \in Nat /\ blocks \in Seq(Block)
  BY DEF BlocksOK
<1>2. \A k \in 1..n : bs[k] \in Batch
  OBVIOUS
<1>3. /\ new \in Seq(Block) /\ Len(new) = n
      /\ \A k \in 1..n : new[k].ops = bs[k].ops /\ new[k].gas = bs[k].gas
  <2>1. new = [k \in 1..n |-> [ops |-> bs[k].ops, gas |-> bs[k].gas, waiting |-> TRUE]]
    BY DEF AsBlocks
  <2>2. \A k \in 1..n : [ops |-> bs[k].ops, gas |-> bs[k].gas, waiting |-> TRUE] \in Block
    BY <1>2 DEF Batch, Block
  <2> HIDE DEF new, n
  <2> QED BY <1>1, <2>1, <2>2
<1>4. blocks' = blocks \o new
  OBVIOUS
<1> HIDE DEF new
<1>5. /\ blocks' \in Seq(Block) /\ Len(blocks') = m + n
      /\ \A i \in 1..m : blocks'[i] = blocks[i]
      /\ \A k \in 1..n : m + k \in 1..(m + n) /\ blocks'[m + k] = new[k]
  <2>5. PICK s \in Seq(Block) : s = blocks
    BY <1>1
  <2>6. /\ s \o new \in Seq(Block) /\ Len(s \o new) = Len(s) + Len(new)
        /\ \A i \in 1..(Len(s) + Len(new)) :
             (s \o new)[i] = IF i <= Len(s) THEN s[i] ELSE new[i - Len(s)]
    BY <1>3, ConcatProperties, Zenon
  <2>1. /\ blocks' \in Seq(Block) /\ Len(blocks') = Len(blocks) + Len(new)
        /\ \A i \in 1..(Len(blocks) + Len(new)) :
             blocks'[i] = IF i <= Len(blocks) THEN blocks[i] ELSE new[i - Len(blocks)]
    BY <1>4, <2>5, <2>6, Zenon
  <2> HIDE DEF n
  <2>2. /\ Len(blocks') = m + n
        /\ \A i \in 1..(m + n) : blocks'[i] = IF i <= m THEN blocks[i] ELSE new[i - m]
    BY <1>3, <2>1
  <2> HIDE DEF m
  <2>3. ASSUME NEW k \in 1..n PROVE m + k \in 1..(m + n) /\ ~(m + k <= m) /\ (m + k) - m = k
    BY <1>1
  <2>4. \A i \in 1..m : i \in 1..(m + n) /\ i <= m
    BY <1>1
  <2> QED BY <2>1, <2>2, <2>3, <2>4
<1> HIDE DEF m, n
<1>6. \A i \in 1..(m + n) : i \in 1..m \/ \E k \in 1..n : i = m + k
  <2> SUFFICES ASSUME NEW i \in 1..(m + n), i \notin 1..m PROVE i - m \in 1..n /\ i = m + (i - m)
    OBVIOUS
  <2> QED BY <1>1
<1>7. \A i \in 1..m : i \in 1..Len(blocks')
  BY <1>1, <1>5
<1>8. \A k \in 1..n : blocks'[m + k].ops = bs[k].ops /\ blocks'[m + k].gas = bs[k].gas
  BY <1>3, <1>5
<1> QED BY <1>1, <1>5, <1>6, <1>7, <1>8 DEF m, n

LEMMA QueueFacts ==
  ASSUME NEW bs \in Seq(Batch), \A k \in 1..Len(bs) : Fits(bs[k]), BlocksOK,
         blocks' = blocks \o AsBlocks(bs)
  PROVE  /\ BlocksOK'
         /\ \A o : HandedOver(o)'
                    <=> HandedOver(o) \/ \E k \in 1..Len(bs) : InBlock(o, bs[k])
<1> DEFINE m == Len(blocks)
           n == Len(bs)
<1>1. /\ blocks' \in Seq(Block)
      /\ \A i \in 1..m : i \in 1..Len(blocks') /\ blocks'[i] = blocks[i]
      /\ \A k \in 1..n : /\ m + k \in 1..Len(blocks')
                         /\ blocks'[m + k].ops = bs[k].ops /\ blocks'[m + k].gas = bs[k].gas
      /\ \A i \in 1..Len(blocks') : i \in 1..m \/ \E k \in 1..n : i = m + k
  BY Queued
<1>2. ASSUME NEW i \in 1..Len(blocks') PROVE Fits(blocks[i])'
  <2> SUFFICES blocks'[i].ops # <<>> /\ GasFor(blocks'[i].ops) = blocks'[i].gas /\ blocks'[i].gas <= GasCap
    BY DEF Fits, GasFor
  <2>1. CASE i \in 1..m
    BY <1>1, <2>1 DEF BlocksOK, Fits
  <2>2. ASSUME NEW k \in 1..n, i = m + k
        PROVE  blocks'[i].ops # <<>> /\ GasFor(blocks'[i].ops) = blocks'[i].gas /\ blocks'[i].gas <= GasCap
    <3>1. Fits(bs[k])
      OBVIOUS
    <3>2. blocks'[i].ops = bs[k].ops /\ blocks'[i].gas = bs[k].gas
      BY <1>1, <2>2
    <3> QED BY <3>1, <3>2 DEF Fits
  <2> QED BY <1>1, <2>1, <2>2
<1>3. BlocksOK'
  BY <1>1, <1>2 DEF BlocksOK, Block, Fits, GasFor
<1> HIDE DEF m, n
<1>4. ASSUME NEW o PROVE HandedOver(o)' <=> HandedOver(o) \/ \E k \in 1..n : InBlock(o, bs[k])
  <2>1. HandedOver(o)' <=> \E i \in 1..Len(blocks') : InBlock(o, blocks'[i])
    BY DEF HandedOver, InBlock
  <2>2. \A i \in 1..m : InBlock(o, blocks'[i]) <=> InBlock(o, blocks[i])
    BY <1>1
  <2>3. \A k \in 1..n : InBlock(o, blocks'[m + k]) <=> InBlock(o, bs[k])
    BY <1>1 DEF InBlock
  <2>4. HandedOver(o) <=> \E i \in 1..m : InBlock(o, blocks[i])
    BY DEF HandedOver, m
  <2> QED BY <1>1, <2>1, <2>2, <2>3, <2>4
<1> QED BY <1>3, <1>4 DEF n

LEMMA HandedStays == ASSUME blocks' = blocks, NEW o, HandedOver(o) PROVE HandedOver(o)'
BY DEF HandedOver, InBlock

LEMMA KeptStays ==
  ASSUME IInv, Moves, \A o : HandedOver(o) => HandedOver(o)'
  PROVE  FewDisruptions => Kept'
<1> SUFFICES ASSUME FewDisruptions, NEW o \in quote.ops, scheduled' # {}
             PROVE  Carried(o)' \/ HandedOver(o)' \/ o \in failed'
  BY DEF Kept, Accepted, Moves
<1>1. CASE scheduled = {}
  BY <1>1 DEF Moves
<1>2. CASE scheduled # {}
  BY <1>2 DEF IInv, Kept, Accepted, Moves
<1> QED BY <1>1, <1>2

LEMMA SameBlocks == ASSUME IInv, blocks' = blocks PROVE BlocksOK' /\ \A o : HandedOver(o) => HandedOver(o)'
<1>1. BlocksOK'
  <2> SUFFICES blocks' \in Seq(Block) /\ \A i \in 1..Len(blocks') : Fits(blocks'[i])
    BY DEF BlocksOK, Block, Fits, GasFor
  <2> QED BY DEF IInv, BlocksOK
<1> QED BY <1>1, HandedStays

\* Steps beside the round.
LEMMA BesideRound ==
  ASSUME IInv, SimOK', Moves, UNCHANGED <<bat, blocks>> PROVE IInv'
<1>1. RoundOK'
  <2>1. \A j \in bat.jobs : j \in Slots
    BY DEF IInv, RoundOK
  <2>2. ASSUME bat.pc = "hand", NEW j \in bat.jobs
        PROVE  sims'[j].op \in failed' \/ \E k \in 1..Len(bat.batches) : InBlock(sims'[j].op, bat.batches[k])
    BY <2>1, <2>2 DEF IInv, RoundOK, Moves
  <2>3. ASSUME bat.pc = "remove", NEW j \in bat.jobs
        PROVE  (HandedOver(sims[j].op) \/ sims[j].op \in failed)'
    <3>1. PICK o : o = sims[j].op
      OBVIOUS
    <3>2. sims'[j] = sims[j] /\ (HandedOver(o) \/ o \in failed)
      BY <2>1, <2>3, <3>1 DEF IInv, RoundOK, Moves
    <3>3. HandedOver(o)' \/ o \in failed'
      BY <3>2, HandedStays DEF Moves
    <3> QED BY <3>1, <3>2, <3>3 DEF HandedOver, InBlock
  <2>4. bat.pc \in {"hand", "remove"} => \A j \in bat.jobs : sims'[j].st = "done"
    BY <2>1 DEF IInv, RoundOK, Moves
  <2> SUFFICES
        /\ bat' \in [pc: {"idle", "fetch", "hand", "remove"}, jobs: SUBSET Slots, batches: Seq(Batch)]
        /\ bat'.pc \in {"hand", "remove"} => \A j \in bat'.jobs : sims'[j].st = "done"
        /\ bat'.pc = "hand" => \A j \in bat'.jobs :
             \/ sims'[j].op \in failed'
             \/ \E k \in 1..Len(bat'.batches) : InBlock(sims'[j].op, bat'.batches[k])
        /\ bat'.pc = "remove" => \A j \in bat'.jobs : (HandedOver(sims[j].op) \/ sims[j].op \in failed)'
        /\ \A k \in 1..Len(bat'.batches) : Fits(bat'.batches[k])
    BY DEF RoundOK, Slots, Batch, InBlock, Fits, GasFor
  <2>5. bat' = bat
    OBVIOUS
  <2> QED BY <2>2, <2>3, <2>4, <2>5 DEF IInv, RoundOK
<1> QED BY <1>1, KeptStays, SameBlocks DEF IInv, FewDisruptions

LEMMA NoRound ==
  ASSUME bat' = IdleBatcher PROVE RoundOK'
<1>1. Len(<<>>) = 0 /\ <<>> \in Seq(Batch) /\ \A k \in 1..0 : FALSE
  OBVIOUS
<1>2. bat' = [pc |-> "idle", jobs |-> {}, batches |-> <<>>]
  BY DEF IdleBatcher
<1>3. /\ bat' \in [pc: {"idle", "fetch", "hand", "remove"}, jobs: SUBSET Slots, batches: Seq(Batch)]
      /\ bat'.pc = "idle" /\ bat'.batches = <<>>
  BY <1>1, <1>2
<1> SUFFICES
      /\ bat' \in [pc: {"idle", "fetch", "hand", "remove"}, jobs: SUBSET Slots, batches: Seq(Batch)]
      /\ bat'.pc = "idle" /\ bat'.batches = <<>>
  BY <1>1 DEF RoundOK, Slots, Batch
<1> QED BY <1>3

\* A step of the batcher alone, perhaps with errors for some userOps.
LEMMA SimulatorRests ==
  ASSUME IInv, UNCHANGED <<world, intake, sims, strays>>, NoFault \/ Spend("disruption"),
         failed \subseteq failed', failed' \subseteq quote.ops
  PROVE  SimOK' /\ Moves
<1>1. SimOK /\ SimTypes /\ budget \in Faults /\ budget.disruption \in Nat
  BY DEF IInv, SimOK, SimTypes, Faults
<1>2. budget' \in Faults /\ budget'.disruption <= budget.disruption
  <2>1. CASE NoFault
    BY <1>1, <2>1 DEF NoFault
  <2>2. CASE Spend("disruption")
    BY <1>1, <2>2, SpendFacts
  <2> QED BY <2>1, <2>2
<1>3. SimTypes'
  BY <1>1, <1>2, TypesStay DEF SimTypes, world, intake
<1> QED BY <1>1, <1>2, <1>3, StillMoves DEF world, intake

LEMMA CountStep == ASSUME IInv, Count PROVE IInv' /\ Moves
<1>1. /\ bat' = [bat EXCEPT !.pc = "fetch"] /\ blocks' = blocks /\ failed' = failed
      /\ UNCHANGED <<world, intake, sims, strays>> /\ NoFault
  BY DEF Count, simVars, NoFault
<1>2. /\ bat' \in [pc: {"idle", "fetch", "hand", "remove"}, jobs: SUBSET Slots, batches: Seq(Batch)]
      /\ bat'.pc = "fetch" /\ bat'.jobs = bat.jobs /\ bat'.batches = bat.batches
      /\ \A k \in 1..Len(bat.batches) : Fits(bat.batches[k])
  BY <1>1 DEF IInv, RoundOK
<1>3. SimOK' /\ Moves
  BY <1>1, SimulatorRests DEF IInv, SimOK, SimTypes
<1>4. RoundOK'
  <2> SUFFICES
        /\ bat' \in [pc: {"idle", "fetch", "hand", "remove"}, jobs: SUBSET Slots, batches: Seq(Batch)]
        /\ bat'.pc = "fetch" /\ \A k \in 1..Len(bat'.batches) : Fits(bat'.batches[k])
    BY DEF RoundOK, Slots, Batch, Fits, GasFor
  <2> QED BY <1>2
<1> QED BY <1>1, <1>3, <1>4, KeptStays, SameBlocks DEF IInv, FewDisruptions

LEMMA FetchStep == ASSUME IInv, Fetch PROVE IInv' /\ Moves
<1>1. /\ blocks' = blocks /\ UNCHANGED <<world, intake, sims, strays>> /\ NoFault
      /\ failed' = failed \cup {o \in {sims[j].op : j \in DoneJobs} : TooBig(o)}
  BY DEF Fetch, NoFault
<1>2. PICK order \in SetToSeqs(DoneJobs) :
        bat' = [pc |-> "hand", jobs |-> DoneJobs,
                batches |-> Pack([i \in 1..Len(order) |-> sims[order[i]].op])]
  BY DEF Fetch
<1> DEFINE ops == [i \in 1..Len(order) |-> sims[order[i]].op]
           batches == Pack(ops)
<1>3. DoneJobs \subseteq Slots /\ \A j \in DoneJobs : sims[j].st = "done"
  BY DEF DoneJobs
<1>4. \A j \in DoneJobs : sims[j].op \in Ops /\ sims[j].op \in quote.ops
  BY <1>3, JobFields DEF IInv, Okay
<1>5. IsFiniteSet(DoneJobs)
  <2>1. IsFiniteSet(Slots)
    BY SimulatorConstantsOK, FS_Interval DEF Slots
  <2> QED BY <1>3, <2>1, FS_Subset
<1>6. /\ order \in Seq(DoneJobs) /\ Len(order) \in Nat
      /\ \A x \in DoneJobs : \E i \in 1..Len(order) : order[i] = x
  BY <1>5, OrderFacts
<1>7. \A i \in 1..Len(order) : order[i] \in DoneJobs
  BY <1>6
<1>8. /\ ops \in Seq(Ops) /\ Len(ops) = Len(order)
      /\ \A i \in 1..Len(order) : ops[i] = sims[order[i]].op
  <2> DEFINE n == Len(order)
  <2>1. n \in Nat /\ \A i \in 1..n : sims[order[i]].op \in Ops
    BY <1>4, <1>6, <1>7
  <2>2. ops = [i \in 1..n |-> sims[order[i]].op]
    OBVIOUS
  <2> HIDE DEF n, ops
  <2>3. ops \in [1..n -> Ops]
    BY <2>1, <2>2
  <2>4. ops \in Seq(Ops) /\ Len(ops) = n
    BY <2>1, <2>3
  <2> QED BY <2>2, <2>4 DEF n
<1> HIDE DEF ops
<1>9. /\ batches \in Seq(Batch) /\ \A k \in 1..Len(batches) : Fits(batches[k])
      /\ \A x : (\E k \in 1..Len(batches) : InBlock(x, batches[k]))
                  <=> \E i \in 1..Len(ops) : x = ops[i] /\ ~TooBig(x)
  BY <1>8, PackFacts
<1>10. bat' = [pc |-> "hand", jobs |-> DoneJobs, batches |-> batches]
  BY <1>2 DEF ops
<1> HIDE DEF batches
<1>11. ASSUME NEW j \in DoneJobs
       PROVE  sims[j].op \in failed' \/ \E k \in 1..Len(batches) : InBlock(sims[j].op, batches[k])
  <2>1. CASE TooBig(sims[j].op)
    BY <1>1, <2>1
  <2>2. CASE ~TooBig(sims[j].op)
    <3>1. PICK i \in 1..Len(order) : order[i] = j
      BY <1>6
    <3>2. i \in 1..Len(ops) /\ sims[j].op = ops[i]
      BY <1>8, <3>1
    <3> QED BY <1>9, <2>2, <3>2
  <2> QED BY <2>1, <2>2
<1>12. failed \subseteq failed' /\ failed' \subseteq quote.ops
  BY <1>1, <1>4 DEF IInv, SimOK, SimTypes
<1>13. SimOK' /\ Moves
  BY <1>1, <1>12, SimulatorRests
<1>14. RoundOK'
  <2> SUFFICES
        /\ bat' \in [pc: {"idle", "fetch", "hand", "remove"}, jobs: SUBSET Slots, batches: Seq(Batch)]
        /\ bat'.pc = "hand" /\ \A j \in bat'.jobs : sims'[j].st = "done"
        /\ \A j \in bat'.jobs :
             \/ sims'[j].op \in failed'
             \/ \E k \in 1..Len(bat'.batches) : InBlock(sims'[j].op, bat'.batches[k])
        /\ \A k \in 1..Len(bat'.batches) : Fits(bat'.batches[k])
    BY DEF RoundOK, Slots, Batch, InBlock, Fits, GasFor
  <2>1. sims' = sims
    BY <1>1
  <2> QED BY <1>3, <1>9, <1>10, <1>11, <2>1
<1> QED BY <1>1, <1>13, <1>14, KeptStays, SameBlocks DEF IInv, FewDisruptions

LEMMA HandStep == ASSUME IInv, Hand PROVE IInv' /\ Moves
<1>1. /\ bat.pc = "hand" /\ UNCHANGED <<world, intake, failed, sims, strays>>
      /\ failed \subseteq quote.ops /\ failed \subseteq failed' /\ failed' \subseteq quote.ops
  BY DEF Hand, IInv, SimOK, SimTypes
<1>2. CASE blocks' = blocks \o AsBlocks(bat.batches) /\ bat' = [bat EXCEPT !.pc = "remove"] /\ NoFault
  <2>1. SimOK' /\ Moves
    BY <1>1, <1>2, SimulatorRests
  <2>2. /\ bat.batches \in Seq(Batch) /\ \A k \in 1..Len(bat.batches) : Fits(bat.batches[k])
        /\ BlocksOK
    BY DEF IInv, RoundOK
  <2>3. /\ BlocksOK'
        /\ \A o : HandedOver(o) => HandedOver(o)'
        /\ \A o : (\E k \in 1..Len(bat.batches) : InBlock(o, bat.batches[k])) => HandedOver(o)'
    <3>1. PICK bs \in Seq(Batch) : bs = bat.batches
      BY <2>2
    <3>2. (\A k \in 1..Len(bs) : Fits(bs[k])) /\ blocks' = blocks \o AsBlocks(bs)
      BY <1>2, <2>2, <3>1
    <3> QED BY <2>2, <3>1, <3>2, QueueFacts
  <2>4. /\ bat' \in [pc: {"idle", "fetch", "hand", "remove"}, jobs: SUBSET Slots, batches: Seq(Batch)]
        /\ bat'.pc = "remove" /\ bat'.jobs = bat.jobs /\ bat'.batches = bat.batches
        /\ \A j \in bat.jobs : sims[j].st = "done"
    BY <1>1, <1>2 DEF IInv, RoundOK
  <2>5. ASSUME NEW j \in bat.jobs PROVE (HandedOver(sims[j].op) \/ sims[j].op \in failed)'
    <3>1. PICK o : o = sims[j].op
      OBVIOUS
    <3>2. o \in failed \/ \E k \in 1..Len(bat.batches) : InBlock(o, bat.batches[k])
      BY <1>1, <3>1 DEF IInv, RoundOK
    <3>3. HandedOver(o)' \/ o \in failed'
      BY <1>1, <2>3, <3>2
    <3>4. sims'[j].op = o
      BY <1>1, <3>1
    <3> QED BY <3>3, <3>4 DEF HandedOver, InBlock
  <2>6. RoundOK'
    <3> SUFFICES
          /\ bat' \in [pc: {"idle", "fetch", "hand", "remove"}, jobs: SUBSET Slots, batches: Seq(Batch)]
          /\ bat'.pc = "remove" /\ \A j \in bat'.jobs : sims'[j].st = "done"
          /\ \A j \in bat'.jobs : (HandedOver(sims[j].op) \/ sims[j].op \in failed)'
          /\ \A k \in 1..Len(bat'.batches) : Fits(bat'.batches[k])
      BY DEF RoundOK, Slots, Batch, Fits, GasFor
    <3> QED BY <1>1, <2>2, <2>4, <2>5
  <2> QED BY <2>1, <2>3, <2>6, KeptStays DEF IInv, FewDisruptions
<1>3. CASE Spend("disruption") /\ bat' = IdleBatcher /\ UNCHANGED blocks
  BY <1>1, <1>3, SimulatorRests, NoRound, KeptStays, SameBlocks DEF IInv, FewDisruptions
<1> QED BY <1>2, <1>3 DEF Hand

\* The window part of Moves, for steps that empty slots as well.
OnTime == \A i \in Slots : sims[i].st = "active" /\ sims'[i].st = "done" => InWindow(sims[i].op)

LEMMA RemoveStep == ASSUME IInv, RemoveJobs PROVE IInv' /\ OnTime
<1>1. /\ bat.pc = "remove" /\ bat' = IdleBatcher
      /\ UNCHANGED <<world, intake, failed, strays, blocks>>
  BY DEF RemoveJobs
<1>2. PICK R \in SUBSET bat.jobs :
       /\ IF R = bat.jobs THEN NoFault ELSE Spend("disruption")
       /\ sims' = [j \in Slots |-> IF j \in R THEN FreeJob ELSE sims[j]]
  BY DEF RemoveJobs
<1>3. /\ SimOK /\ SimTypes /\ budget \in Faults /\ budget.disruption \in Nat /\ R \subseteq Slots
      /\ sims \in [Slots -> Job]
  BY <1>2 DEF IInv, SimOK, SimTypes, RoundOK, Faults
<1>4. budget' \in Faults /\ budget'.disruption <= budget.disruption
  <2>1. CASE NoFault
    BY <1>3, <2>1 DEF NoFault
  <2>2. CASE Spend("disruption")
    BY <1>3, <2>2, SpendFacts
  <2> QED BY <1>2, <2>1, <2>2
<1>5. \A i \in Slots : sims'[i] = IF i \in R THEN FreeJob ELSE sims[i]
  BY <1>2
<1>6. sims' \in [Slots -> Job]
  BY <1>2, <1>3, FreeJobFacts
<1>7. SimTypes'
  BY <1>1, <1>3, <1>4, <1>6, TypesStay DEF SimTypes, world, intake
<1>8. ASSUME NEW i \in Slots PROVE Okay(sims[i])'
  <2>1. CASE i \in R
    <3>1. Okay(FreeJob)'
      BY <1>7, FreeOkay DEF SimTypes, Faults
    <3>2. FreeJob' = FreeJob
      BY DEF FreeJob, NewJob
    <3>3. PICK job : job = FreeJob
      OBVIOUS
    <3>4. Okay(job)'
      BY <3>1, <3>2, <3>3 DEF Okay
    <3> QED BY <1>5, <2>1, <3>3, <3>4 DEF Okay
  <2>2. CASE i \notin R
    <3>1. PICK job \in Job : job = sims[i]
      BY <1>3
    <3>2. Okay(job)
      BY <1>3, <3>1 DEF SimOK
    <3>3. Okay(job)'
      BY <1>1, <1>3, <1>4, <3>2, OkayStays DEF world
    <3> QED BY <1>5, <2>2, <3>1, <3>3 DEF Okay
  <2> QED BY <2>1, <2>2
<1>9. SimOK'
  BY <1>7, <1>8 DEF SimOK, Slots
<1>10. FewDisruptions => Kept'
  <2> SUFFICES ASSUME FewDisruptions, NEW o \in quote.ops, scheduled # {}
               PROVE  Carried(o)' \/ HandedOver(o)' \/ o \in failed'
    BY <1>1 DEF Kept, Accepted, world, intake
  <2>1. Carried(o) \/ HandedOver(o) \/ o \in failed
    BY DEF IInv, Kept, Accepted
  <2>2. CASE HandedOver(o) \/ o \in failed
    BY <1>1, <2>2, HandedStays
  <2>3. CASE Carried(o)
    <3>1. PICK i \in Slots : sims[i].op = o /\ Live(sims[i])
      BY <2>3 DEF Carried
    <3>2. CASE i \in R
      <4>1. HandedOver(o) \/ o \in failed
        BY <1>1, <1>2, <3>1, <3>2 DEF IInv, RoundOK
      <4> QED BY <1>1, <4>1, HandedStays
    <3>3. CASE i \notin R
      <4>1. sims'[i] = sims[i]
        BY <1>5, <3>3
      <4> QED BY <3>1, <4>1 DEF Carried, Live, Slots
    <3> QED BY <3>2, <3>3
  <2> QED BY <2>1, <2>2, <2>3
<1>11. OnTime
  BY <1>5, FreeJobFacts DEF OnTime
<1> QED BY <1>1, <1>9, <1>10, <1>11, NoRound, SameBlocks DEF IInv, FewDisruptions

\* A block that is taken keeps its userOps.
LEMMA TakenBlock ==
  ASSUME BlocksOK, TakeBlock
  PROVE  /\ blocks \in Seq(Block) /\ blocks' \in Seq(Block) /\ Len(blocks') = Len(blocks)
         /\ Len(blocks) \in Nat /\ blocks # <<>>
         /\ \A k \in 1..Len(blocks) : blocks'[k].ops = blocks[k].ops /\ blocks'[k].gas = blocks[k].gas
<1>1. PICK i \in 1..Len(blocks) : blocks' = [blocks EXCEPT ![i].waiting = FALSE]
  BY DEF TakeBlock
<1>3. blocks \in Seq(Block) /\ \A k \in 1..Len(blocks) : blocks[k] \in Block /\ Fits(blocks[k])
  BY DEF BlocksOK
<1>4. [blocks[i] EXCEPT !.waiting = FALSE] \in Block
  BY <1>3 DEF Block
<1>5. /\ blocks' \in Seq(Block) /\ Len(blocks') = Len(blocks)
      /\ \A k \in 1..Len(blocks) : blocks'[k].ops = blocks[k].ops /\ blocks'[k].gas = blocks[k].gas
  <2> DEFINE taken == [blocks[i] EXCEPT !.waiting = FALSE]
             n == Len(blocks)
  <2>1. blocks' = [blocks EXCEPT ![i] = taken] /\ n \in Nat
    BY <1>1, <1>3
  <2>2. taken.ops = blocks[i].ops /\ taken.gas = blocks[i].gas /\ taken \in Block
    BY <1>3, <1>4 DEF Block
  <2> HIDE DEF taken
  <2>3. blocks' \in Seq(Block) /\ Len(blocks') = Len(blocks)
    BY <1>3, <2>1, <2>2, ExceptSeq
  <2>4. \A k \in 1..Len(blocks) : blocks'[k] = IF k = i THEN taken ELSE blocks[k]
    BY <1>3, <2>1
  <2> QED BY <2>2, <2>3, <2>4
<1>6. blocks # <<>>
  BY <1>1, <1>3
<1> QED BY <1>3, <1>5, <1>6

LEMMA TakeBlockStep == ASSUME IInv, TakeBlock PROVE IInv' /\ Moves
<1>1. /\ bat' = bat /\ NoFault /\ failed' = failed
      /\ UNCHANGED <<world, intake, sims, strays>> /\ failed \subseteq quote.ops
  BY DEF TakeBlock, simVars, NoFault, IInv, SimOK, SimTypes
<1>3. blocks \in Seq(Block) /\ \A k \in 1..Len(blocks) : blocks[k] \in Block /\ Fits(blocks[k])
  BY DEF IInv, BlocksOK
<1>5. /\ blocks' \in Seq(Block) /\ Len(blocks') = Len(blocks)
      /\ \A k \in 1..Len(blocks) : blocks'[k].ops = blocks[k].ops /\ blocks'[k].gas = blocks[k].gas
  BY TakenBlock DEF IInv
<1>6. SimOK' /\ Moves
  BY <1>1, SimulatorRests
<1>7. BlocksOK'
  <2> SUFFICES blocks' \in Seq(Block) /\ \A k \in 1..Len(blocks') : Fits(blocks'[k])
    BY DEF BlocksOK, Block, Fits, GasFor
  <2> QED BY <1>3, <1>5 DEF Fits
<1>8. \A o : HandedOver(o) => HandedOver(o)'
  BY <1>5 DEF HandedOver, InBlock
<1>9. RoundOK'
  <2>1. ASSUME bat.pc = "remove", NEW j \in bat.jobs
        PROVE  (HandedOver(sims[j].op) \/ sims[j].op \in failed)'
    <3>1. PICK o : o = sims[j].op
      OBVIOUS
    <3>2. HandedOver(o) \/ o \in failed
      BY <2>1, <3>1 DEF IInv, RoundOK
    <3>3. HandedOver(o)' \/ o \in failed'
      BY <1>1, <1>8, <3>2
    <3> QED BY <1>1, <3>1, <3>3 DEF HandedOver, InBlock
  <2> SUFFICES
        /\ bat' \in [pc: {"idle", "fetch", "hand", "remove"}, jobs: SUBSET Slots, batches: Seq(Batch)]
        /\ bat'.pc \in {"hand", "remove"} => \A j \in bat'.jobs : sims'[j].st = "done"
        /\ bat'.pc = "hand" => \A j \in bat'.jobs :
             \/ sims'[j].op \in failed'
             \/ \E k \in 1..Len(bat'.batches) : InBlock(sims'[j].op, bat'.batches[k])
        /\ bat'.pc = "remove" => \A j \in bat'.jobs : (HandedOver(sims[j].op) \/ sims[j].op \in failed)'
        /\ \A k \in 1..Len(bat'.batches) : Fits(bat'.batches[k])
    BY DEF RoundOK, Slots, Batch, InBlock, Fits, GasFor
  <2>2. sims' = sims
    BY <1>1
  <2> QED BY <1>1, <2>1, <2>2 DEF IInv, RoundOK
<1> QED BY <1>6, <1>7, <1>8, <1>9, KeptStays DEF IInv, FewDisruptions

LEMMA CrashStep == ASSUME IInv, NodeCrash PROVE IInv' /\ Moves
<1>1. /\ Spend("disruption") /\ sims' = Changed(LostJobs) /\ strays' = [o \in quote.ops |-> "none"]
      /\ bat' = IdleBatcher /\ UNCHANGED <<world, stored, scheduled, failed, blocks>>
      /\ req' = [r \in Requests |-> IF req[r] \in {"checked", "stored"} THEN "dead" ELSE req[r]]
  BY DEF NodeCrash
<1>2. req' \in [Requests -> {"idle", "checked", "stored", "done", "refused", "dead"}]
  BY <1>1 DEF IInv, SimOK, SimTypes
<1>3. SimOK' /\ Moves
  BY <1>1, <1>2, LostMoves DEF IInv
<1> QED BY <1>1, <1>3, KeptStays, SameBlocks, NoRound DEF IInv, FewDisruptions

LEMMA StepIInv == ASSUME IInv, [Next]_vars PROVE IInv' /\ OnTime
<1>1. CASE UNCHANGED vars
  <2>1. NoFault /\ failed' = failed /\ UNCHANGED <<world, intake, sims, strays, bat, blocks>>
    BY <1>1 DEF vars, simVars, NoFault
  <2>2. SimOK' /\ Moves
    BY <2>1, SimulatorRests DEF IInv, SimOK, SimTypes
  <2> QED BY <2>1, <2>2, BesideRound DEF Moves, OnTime
<1>2. CASE SimStep /\ UNCHANGED <<bat, blocks>>
  BY <1>2, SimStepMoves, BesideRound DEF IInv, Moves, OnTime
<1>3. CASE BatcherStep
  BY <1>3, CountStep, FetchStep, HandStep, RemoveStep DEF BatcherStep, Moves, OnTime
<1>4. CASE TakeBlock \/ NodeCrash
  BY <1>4, TakeBlockStep, CrashStep DEF Moves, OnTime
<1> QED BY <1>1, <1>2, <1>3, <1>4 DEF Next

LEMMA Inductive == Spec => []IInv
<1>1. IInv /\ [Next]_vars => IInv'
  BY StepIInv
<1> QED BY InitIInv, <1>1, PTL DEF Spec

\* Every variable keeps its type: userOps that fail belong to the quote, a job waits for
\* answers only while it is checked, attempts and stalls stay within BullMQ's limits.
THEOREM TypeCorrect == Spec => []TypeOK
BY Inductive, IInvImplies, PTL

\* No block exceeds the chain's batch gas limit and none is empty, whatever the order in
\* which the batcher finds the completed simulator jobs.
THEOREM BlocksWithinLimit == Spec => []BlocksFit
BY Inductive, IInvImplies, PTL

\* A userOp that was taken on is in the simulator queue, in a block or marked failed, through
\* re-queueing, batching, retries and deaths, as long as these are fewer than BullMQ's limits.
THEOREM NoneLost == ASSUME FewDisruptions PROVE Spec => []NothingLost
BY Inductive, IInvImplies, PTL

\* The simulator completes a job only for a userOp that could be executed when it was traced
\* and is still in its window, or that is forced near the end of it.
THEOREM CompletedInTime == Spec => CompletesInWindow
<1>1. IInv /\ [Next]_vars =>
        [\A j \in Slots : Completes(j) =>
           LET o == sims[j].op IN
           \/ phase[o] \in {"open", "closing"} /\ deployed /\ o \notin quote.badSig
           \/ o \in Forced /\ phase[o] \in {"closing", "over"}]_vars
  BY StepIInv DEF OnTime, Completes, InWindow
<1> QED BY Inductive, <1>1, PTL DEF Spec, CompletesInWindow

-----------------------------------------------------------------------------
(* The promise of Handover *)

\* No userOp is at two places of the batches.
AtOnePlace(bs) ==
  \A k, l \in 1..Len(bs) : \A m \in 1..Len(bs[k].ops), n \in 1..Len(bs[l].ops) :
     bs[k].ops[m] = bs[l].ops[n] => k = l /\ m = n

LEMMA AppendedOnce ==
  ASSUME NEW bs \in Seq(Batch), AtOnePlace(bs), NEW b, NEW o, b.ops = <<o>>,
         \A k \in 1..Len(bs) : ~InBlock(o, bs[k])
  PROVE  AtOnePlace(Append(bs, b))
<1> DEFINE t == Append(bs, b)
           n == Len(bs)
<1>1. /\ n \in Nat /\ Len(t) = n + 1 /\ t[n + 1] = b /\ \A k \in 1..n : t[k] = bs[k]
  OBVIOUS
<1>2. \A k \in 1..Len(t) : k \in 1..n \/ k = n + 1
  <2> HIDE DEF t, n
  <2> QED BY <1>1
<1>3. Len(b.ops) = 1 /\ b.ops[1] = o
  OBVIOUS
<1> HIDE DEF t
<1> SUFFICES ASSUME NEW k \in 1..Len(t), NEW l \in 1..Len(t), NEW i \in 1..Len(t[k].ops),
                    NEW j \in 1..Len(t[l].ops), t[k].ops[i] = t[l].ops[j]
             PROVE  k = l /\ i = j
  BY DEF AtOnePlace, t
<1>4. CASE k \in 1..n /\ l \in 1..n
  BY <1>1, <1>4 DEF AtOnePlace
<1>5. CASE k \in 1..n /\ l = n + 1
  <2>1. j = 1 /\ bs[k].ops[i] = o /\ i \in 1..Len(bs[k].ops)
    BY <1>1, <1>3, <1>5
  <2> QED BY <1>5, <2>1 DEF InBlock
<1>6. CASE k = n + 1 /\ l \in 1..n
  <2>1. i = 1 /\ bs[l].ops[j] = o /\ j \in 1..Len(bs[l].ops)
    BY <1>1, <1>3, <1>6
  <2> QED BY <1>6, <2>1 DEF InBlock
<1>7. CASE k = n + 1 /\ l = n + 1
  BY <1>1, <1>3, <1>7
<1> QED BY <1>2, <1>4, <1>5, <1>6, <1>7

\* The batches of a packing, the open one last.
Batches(p) == Append(p.full, p.open)

LEMMA PlacedOnce ==
  ASSUME NEW p, Sound(p), NEW o \in Ops, ~Holds(p, o), AtOnePlace(Batches(p))
  PROVE  AtOnePlace(Batches(Place(p, o)))
<1>1. /\ p \in Placement /\ p.full \in Seq(Batch) /\ p.open \in Batch /\ p.open.ops \in Seq(Ops)
  BY DEF Sound, Placement, Batch
<1> DEFINE n == Len(p.full)
<1>2. /\ Batches(p) \in Seq(Batch) /\ n \in Nat /\ Len(Batches(p)) = n + 1
      /\ Batches(p)[n + 1] = p.open /\ \A k \in 1..n : Batches(p)[k] = p.full[k]
  BY <1>1, AppendProperties DEF Batches
<1>3. \A k \in 1..(n + 1) : ~InBlock(o, Batches(p)[k])
  <2>1. 1..(n + 1) = 1..n \cup {n + 1}
    BY <1>2
  <2> QED BY <1>2, <2>1 DEF Holds
<1>4. CASE TooBig(o)
  BY <1>4 DEF Place
<1>5. CASE ~TooBig(o) /\ p.open.gas + Gas[o] > GasCap
  <2> DEFINE b == [ops |-> <<o>>, gas |-> Gas[o]]
  <2>1. Batches(Place(p, o)) = Append(Batches(p), b) /\ b.ops = <<o>>
    BY <1>5 DEF Place, Batches
  <2> HIDE DEF b
  <2> QED BY <1>2, <1>3, <2>1, AppendedOnce
<1>6. CASE ~TooBig(o) /\ ~(p.open.gas + Gas[o] > GasCap)
  <2> DEFINE ops == Append(p.open.ops, o)
             b   == [ops |-> ops, gas |-> p.open.gas + Gas[o]]
             t   == Append(p.full, b)
             u   == Batches(p)
             M   == Len(p.open.ops)
  <2>1. Place(p, o) = [p EXCEPT !.open = [ops |-> Append(@.ops, o), gas |-> @.gas + Gas[o]]]
    BY <1>6 DEF Place
  <2>2. Batches(Place(p, o)) = t
    BY <1>1, <2>1 DEF Placement, Batches
  <2>3. /\ M \in Nat /\ Len(ops) = M + 1 /\ ops[M + 1] = o /\ \A i \in 1..M : ops[i] = p.open.ops[i]
    BY <1>1, AppendProperties
  <2>4. /\ Len(t) = n + 1 /\ t[n + 1].ops = ops /\ \A k \in 1..n : t[k] = p.full[k]
    <3> HIDE DEF ops
    <3> QED BY <1>1, AppendProperties
  <2> HIDE DEF t, ops, b, u, M, n
  \* Each place but the last is one of before.
  <2>5. ASSUME NEW k \in 1..Len(t), NEW i \in 1..Len(t[k].ops)
        PROVE  \/ k \in 1..Len(u) /\ i \in 1..Len(u[k].ops) /\ t[k].ops[i] = u[k].ops[i]
               \/ k = n + 1 /\ i = M + 1 /\ t[k].ops[i] = o
    <3>1. CASE k \in 1..n
      BY <1>2, <2>4, <3>1 DEF u
    <3>2. CASE k \notin 1..n
      <4>1. k = n + 1
        BY <1>2, <2>4, <3>2
      <4>2. t[k].ops = ops /\ u[k].ops = p.open.ops /\ k \in 1..Len(u)
        BY <1>2, <2>4, <4>1 DEF u
      <4>3. i \in 1..M \/ i = M + 1
        BY <2>3, <4>2
      <4> QED BY <2>3, <4>1, <4>2, <4>3 DEF M
    <3> QED BY <3>1, <3>2
  <2>6. \A k \in 1..Len(u) : \A i \in 1..Len(u[k].ops) : u[k].ops[i] # o
    BY <1>2, <1>3 DEF InBlock, u
  <2> SUFFICES ASSUME NEW k \in 1..Len(t), NEW l \in 1..Len(t), NEW i \in 1..Len(t[k].ops),
                      NEW j \in 1..Len(t[l].ops), t[k].ops[i] = t[l].ops[j]
               PROVE  k = l /\ i = j
    BY <2>2 DEF AtOnePlace
  <2>7. AtOnePlace(u)
    BY DEF u
  <2> PICK a : a = t[k].ops[i]
    OBVIOUS
  <2>8. CASE a = o
    <3>1. k = n + 1 /\ i = M + 1
      BY <2>5, <2>6, <2>8
    <3>2. l = n + 1 /\ j = M + 1
      BY <2>5, <2>6, <2>8
    <3> QED BY <3>1, <3>2
  <2>9. CASE a # o
    <3>1. k \in 1..Len(u) /\ i \in 1..Len(u[k].ops) /\ a = u[k].ops[i]
      BY <2>5, <2>9
    <3>2. l \in 1..Len(u) /\ j \in 1..Len(u[l].ops) /\ a = u[l].ops[j]
      BY <2>5, <2>9
    <3>3. \A m \in 1..Len(u[k].ops), q \in 1..Len(u[l].ops) :
            u[k].ops[m] = u[l].ops[q] => k = l /\ m = q
      BY <2>7, <3>1, <3>2 DEF AtOnePlace
    <3> QED BY <3>1, <3>2, <3>3
  <2> QED BY <2>8, <2>9
<1> QED BY <1>4, <1>5, <1>6

\* Packed in an order that names each userOp once, none is at two places.
LEMMA PackedOnce ==
  ASSUME NEW order \in Seq(Ops), \A i, j \in 1..Len(order) : order[i] = order[j] => i = j
  PROVE  AtOnePlace(Pack(order))
<1> DEFINE N == Len(order)
<1>1. PICK placed : Packing(order, placed)
  BY PackSteps
<1>2. N \in Nat /\ \A i \in 1..N : order[i] \in Ops
  OBVIOUS
<1>3. /\ placed[0] = [full |-> <<>>, open |-> Empty]
      /\ \A n \in 1..N : placed[n] = Place(placed[n - 1], order[n])
      /\ \A n \in 0..N : /\ Sound(placed[n])
                         /\ \A x : Holds(placed[n], x)
                                     <=> \E i \in 1..n : x = order[i] /\ ~TooBig(x)
      /\ Pack(order) = IF placed[N].open = Empty THEN placed[N].full
                       ELSE Append(placed[N].full, placed[N].open)
  BY <1>1 DEF Packing
<1> DEFINE Bad == {n \in 0..N : ~AtOnePlace(Batches(placed[n]))}
<1>4. Bad = {}
  <2> SUFFICES ASSUME Bad # {} PROVE FALSE
    OBVIOUS
  <2>1. PICK n \in Bad : \A l \in Bad : n <= l
    <3> HIDE DEF Bad
    <3>1. Bad \in SUBSET Nat
      BY DEF Bad
    <3> QED BY <3>1, LeastExists
  <2>2. n # 0
    <3>1. Batches(placed[0]) = <<Empty>>
      BY <1>3 DEF Batches
    <3>2. Len(<<Empty>>) = 1 /\ Len(<<Empty>>[1].ops) = 0
      BY DEF Empty
    <3>3. AtOnePlace(<<Empty>>)
      BY <3>2 DEF AtOnePlace
    <3> QED BY <3>1, <3>3
  <2>3. n \in 1..N /\ n - 1 \in 0..N /\ n - 1 \notin Bad
    <3>1. n \in 0..N
      OBVIOUS
    <3> HIDE DEF Bad, N
    <3> QED BY <1>2, <2>1, <2>2, <3>1
  <2>4. AtOnePlace(Batches(placed[n - 1])) /\ Sound(placed[n - 1]) /\ order[n] \in Ops
    BY <1>2, <1>3, <2>3
  <2>5. placed[n] = Place(placed[n - 1], order[n])
    BY <1>3, <2>3
  <2>6. ~Holds(placed[n - 1], order[n])
    <3>1. \A i \in 1..(n - 1) : i \in 1..N /\ i # n
      BY <2>3
    <3>2. Holds(placed[n - 1], order[n]) <=> \E i \in 1..(n - 1) : order[n] = order[i] /\ ~TooBig(order[n])
      BY <1>3, <2>3
    <3>3. \A i \in 1..(n - 1) : order[n] # order[i]
      BY <2>3, <3>1
    <3> QED BY <3>2, <3>3
  <2> QED BY <2>4, <2>5, <2>6, PlacedOnce
<1> DEFINE last == placed[N]
<1>5. AtOnePlace(Batches(last)) /\ Sound(last)
  <2>1. N \in 0..N
    BY <1>2
  <2> QED BY <1>3, <1>4, <2>1
<1> HIDE DEF last
<1>6. CASE last.open # Empty
  BY <1>3, <1>5, <1>6 DEF Batches, last
<1>7. CASE last.open = Empty
  <2>1. last.full \in Seq(Batch) /\ Pack(order) = last.full
    BY <1>3, <1>5, <1>7 DEF Sound, Placement, last
  <2> DEFINE m == Len(last.full)
  <2>2. m \in Nat /\ Len(Batches(last)) = m + 1 /\ \A k \in 1..m : Batches(last)[k] = last.full[k]
    BY <2>1 DEF Batches
  <2> HIDE DEF m
  <2>3. \A k \in 1..m : k \in 1..Len(Batches(last))
    BY <2>2
  <2>4. PICK full, all : full = last.full /\ all = Batches(last)
    OBVIOUS
  <2>5. AtOnePlace(full)
    <3>1. AtOnePlace(all) /\ Len(full) = m /\ \A k \in 1..m : all[k] = full[k] /\ k \in 1..Len(all)
      BY <1>5, <2>2, <2>3, <2>4 DEF m
    <3> QED BY <3>1 DEF AtOnePlace
  <2> QED BY <2>1, <2>4, <2>5
<1> QED BY <1>6, <1>7

LEMMA PlacesFinite == ASSUME NEW bs \in Seq(Block), NEW o PROVE IsFiniteSet(Places(bs, o))
<1>1. IsFiniteSet(1..Len(bs)) /\ IsFiniteSet(Slots)
  BY SimulatorConstantsOK, FS_Interval DEF Slots
<1>2. IsFiniteSet((1..Len(bs)) \X Slots)
  BY <1>1, FS_Product
<1>3. Places(bs, o) \in SUBSET ((1..Len(bs)) \X Slots)
  BY DEF Places
<1> QED BY <1>2, <1>3, FS_Subset

\* What was never handed over is nowhere, what is at one place is counted once.
LEMMA PlacesCount ==
  ASSUME NEW bs \in Seq(Block), NEW o
  PROVE  /\ Cardinality(Places(bs, o)) \in Nat
         /\ (\A k \in 1..Len(bs) : ~InBlock(o, bs[k])) => Cardinality(Places(bs, o)) = 0
         /\ (\A x, y \in Places(bs, o) : x = y) => Cardinality(Places(bs, o)) \in {0, 1}
<1>1. IsFiniteSet(Places(bs, o))
  BY PlacesFinite
<1>2. ASSUME \A k \in 1..Len(bs) : ~InBlock(o, bs[k]) PROVE Cardinality(Places(bs, o)) = 0
  <2>1. \A x \in (1..Len(bs)) \X Slots :
          ~(x[2] <= Len(bs[x[1]].ops) /\ bs[x[1]].ops[x[2]] = o)
    <3> SUFFICES ASSUME NEW k \in 1..Len(bs), NEW m \in Slots, m <= Len(bs[k].ops), bs[k].ops[m] = o
                 PROVE  FALSE
      OBVIOUS
    <3>1. Len(bs[k].ops) \in Nat
      BY DEF Block
    <3>2. m \in 1..Len(bs[k].ops)
      BY <3>1 DEF Slots
    <3> QED BY <1>2, <3>2 DEF InBlock
  <2>2. Places(bs, o) = {}
    BY <2>1 DEF Places
  <2> QED BY <2>2, FS_EmptySet
<1>3. ASSUME \A x, y \in Places(bs, o) : x = y PROVE Cardinality(Places(bs, o)) \in {0, 1}
  <2>1. CASE Places(bs, o) = {}
    BY <2>1, FS_EmptySet
  <2>2. ASSUME NEW x \in Places(bs, o) PROVE Cardinality(Places(bs, o)) = 1
    <3>1. Places(bs, o) = {x}
      BY <1>3
    <3> QED BY <3>1, FS_Singleton
  <2> QED BY <2>1, <2>2
<1> QED BY <1>1, <1>2, <1>3, FS_CardinalityType

\* Blocks behind those there are take no place away.
LEMMA PlacesGrow ==
  ASSUME NEW bs \in Seq(Block), NEW cs \in Seq(Block), NEW o, Len(bs) <= Len(cs),
         \A k \in 1..Len(bs) : cs[k].ops = bs[k].ops
  PROVE  /\ Cardinality(Places(bs, o)) <= Cardinality(Places(cs, o))
         /\ Len(bs) = Len(cs) => Places(cs, o) = Places(bs, o)
<1>1. IsFiniteSet(Places(cs, o))
  BY PlacesFinite
<1>2. Places(bs, o) \in SUBSET Places(cs, o)
  <2>1. \A k \in 1..Len(bs) : k \in 1..Len(cs)
    OBVIOUS
  <2> QED BY <2>1 DEF Places
<1>3. Len(bs) = Len(cs) => Places(cs, o) = Places(bs, o)
  BY DEF Places
<1> QED BY <1>1, <1>2, <1>3, FS_Subset

\* No process died and no call of Redis failed so far.
Calm == budget.disruption = quote.faults.disruption

\* The block of a job is in, the job is about to be removed.
InRound(j) == bat.pc = "remove" /\ j \in bat.jobs

\* A userOp has one job, and no error and no block yet.
Sole ==
  /\ \A o \in quote.ops : strays[o] = "none"
  /\ \A i, j \in Slots : Live(sims[i]) /\ Live(sims[j]) /\ sims[i].op = sims[j].op => i = j
  /\ \A j \in Slots : Live(sims[j]) => sims[j].op \notin failed \/ TooBig(sims[j].op)
  /\ \A j \in Slots : Live(sims[j]) /\ ~InRound(j) => ~HandedOver(sims[j].op)

\* What the round is about to hand over comes from the jobs it took.
FromJobs ==
  bat.pc = "hand" =>
    \A k \in 1..Len(bat.batches) : \A m \in 1..Len(bat.batches[k].ops) :
      /\ ~TooBig(bat.batches[k].ops[m])
      /\ \E j \in bat.jobs : sims[j].op = bat.batches[k].ops[m]

Quiet ==
  /\ \A j \in Slots : sims[j].st = "free"
  /\ \A o \in quote.ops : strays[o] = "none"
  /\ failed = {} /\ blocks = <<>>

\* Nothing happens to a userOp before it is taken on; as long as all is calm it has one job
\* and goes into one block or gets an error.
Accounted ==
  /\ scheduled = {} => Quiet
  /\ \A r \in scheduled : req[r] = "done"
  /\ FromJobs
  /\ Calm => Sole /\ (bat.pc = "hand" => AtOnePlace(bat.batches))

\* One request executes the quote: two at once may both get past hasQuote.
OneRequest == \A r, s \in Requests : r = s

-----------------------------------------------------------------------------
(* Steps of Handover *)

LEMMA SameTimes == ASSUME blocks' = blocks, NEW o PROVE Times(o)' = Times(o)
BY DEF Times, Places, Slots

LEMMA NothingSeen ==
  ASSUME \A o \in Ops : Times(o)' = Times(o), quote' = quote, scheduled' = scheduled,
         failed' = failed, budget'.disruption = budget.disruption
  PROVE  UNCHANGED Promise!vars
BY DEF Promise!vars, Accepted

LEMMA TroubleSeen ==
  ASSUME \A o \in Ops : Times(o)' = Times(o), quote' = quote, scheduled' = scheduled,
         failed' = failed, SimTypes, budget' \in Faults, budget'.disruption < budget.disruption
  PROVE  Promise!Trouble
<1>1. /\ budget.disruption \in Nat /\ budget'.disruption \in Nat /\ quote.faults.disruption \in Nat
      /\ budget.disruption <= quote.faults.disruption
  BY QuoteFacts DEF SimTypes, Faults
<1>2. budget'.disruption < quote'.faults.disruption
  BY <1>1
<1> QED BY <1>2 DEF Promise!Trouble, Accepted

LEMMA AcceptSeen ==
  ASSUME \A o \in Ops : Times(o)' = Times(o), quote' = quote, quote \in Quotes,
         scheduled = {}, scheduled' # {}, failed' = failed, budget'.disruption = budget.disruption
  PROVE  Promise!Accept
<1>1. quote.ops \subseteq Ops
  BY QuoteFacts
<1> QED BY <1>1 DEF Promise!Accept, Accepted

\* Errors are given to userOps that were never handed over, or after trouble.
LEMMA RejectSeen ==
  ASSUME \A o \in Ops : Times(o)' = Times(o), quote' = quote, scheduled' = scheduled,
         scheduled # {}, budget'.disruption = budget.disruption, SimTypes, blocks \in Seq(Block),
         NEW B \in SUBSET quote.ops, failed' = failed \cup B,
         Calm => \A o \in B : ~HandedOver(o)
  PROVE  Promise!Reject
<1>1. /\ budget.disruption \in Nat /\ quote.faults.disruption \in Nat
      /\ budget.disruption <= quote.faults.disruption /\ B \subseteq Ops
  BY QuoteFacts DEF SimTypes, Faults
<1>2. (budget.disruption < quote.faults.disruption) \/ Calm
  BY <1>1 DEF Calm
<1>3. Calm => \A o \in B : Times(o) = 0
  <2>1. \A o : ~HandedOver(o) => \A k \in 1..Len(blocks) : ~InBlock(o, blocks[k])
    BY DEF HandedOver
  <2> QED BY <2>1, PlacesCount DEF Times
<1>4. \/ budget.disruption < quote.faults.disruption
      \/ \A o \in B : [x \in Ops |-> Times(x)][o] = 0
  BY <1>1, <1>2, <1>3
<1>5. B \in SUBSET Accepted
  BY DEF Accepted
<1> QED BY <1>4, <1>5 DEF Promise!Reject, Accepted

-----------------------------------------------------------------------------
(* What a step of a job does to the promise *)

\* The job goes on, perhaps to an error, a block or an end.
JobGoes(j) ==
  /\ sims[j].st \in {"ready", "active"}
  /\ \A i \in Slots : i # j => sims'[i] = sims[i]
  /\ Live(sims'[j]) => Live(sims[j]) /\ sims'[j].op = sims[j].op
  /\ \/ failed' = failed
     \/ failed' = failed \cup {sims[j].op} /\ Live(sims[j]) /\ ~Live(sims'[j])
  /\ strays' = strays /\ budget'.disruption = budget.disruption

\* A later job takes its place.
JobReplaced(j) ==
  /\ sims[j].st = "active" /\ Live(sims[j]) /\ ~Live(sims'[j])
  /\ \A i \in Slots : i # j /\ sims[i].st # "free" => sims'[i] = sims[i]
  /\ \A i \in Slots : sims[i].st = "free" /\ Live(sims'[i]) => sims'[i].op = sims[j].op
  /\ \A i, k \in Slots :
       (sims[i].st = "free" /\ sims[k].st = "free" /\ Live(sims'[i]) /\ Live(sims'[k])) => i = k
  /\ failed' = failed /\ strays' = strays /\ budget'.disruption = budget.disruption

Disrupted == failed' = failed /\ budget'.disruption < budget.disruption

JobEffect(j) ==
  /\ sims[j].st # "free" /\ UNCHANGED <<world, intake>>
  /\ JobGoes(j) \/ JobReplaced(j) \/ Disrupted

LEMMA Set1Facts ==
  ASSUME SimOK, NEW j \in Slots, NEW job, Set1(j, job)
  PROVE  sims'[j] = job /\ \A i \in Slots : i # j => sims'[i] = sims[i]
BY DEF SimOK, SimTypes, Set1

LEMMA SpendSeen ==
  ASSUME SimOK
  PROVE  /\ Spend("disruption") => budget'.disruption < budget.disruption
         /\ NoFault \/ Spend("rpc") \/ Spend("change") => budget'.disruption = budget.disruption
<1>1. SimTypes /\ budget.disruption \in Nat
  BY DEF SimOK, SimTypes, Faults
<1>2. ASSUME Spend("disruption") PROVE budget'.disruption < budget.disruption
  <2>1. budget'.disruption = budget.disruption - 1
    BY <1>1, <1>2, SpendFacts
  <2> QED BY <1>1, <2>1
<1>3. Spend("rpc") \/ Spend("change") => budget'.disruption = budget.disruption
  BY <1>1, SpendFacts
<1> QED BY <1>2, <1>3 DEF NoFault

\* The common case: the same userOp, and no error.
LEMMA GoesOn ==
  ASSUME SimOK, NEW j \in Slots, NEW job, Set1(j, job), job.op = sims[j].op, Live(sims[j]),
         sims[j].st \in {"ready", "active"}, UNCHANGED <<world, intake, failed, strays>>,
         NoFault \/ Spend("rpc")
  PROVE  JobEffect(j)
<1>1. sims'[j] = job /\ \A i \in Slots : i # j => sims'[i] = sims[i]
  BY Set1Facts
<1>2. budget'.disruption = budget.disruption
  BY SpendSeen
<1> QED BY <1>1, <1>2 DEF JobEffect, JobGoes

LEMMA TakeEffect == ASSUME SimOK, NEW j \in Slots, Take(j) PROVE JobEffect(j)
<1> DEFINE asked == IF sims[j].attempts = 0 /\ ~sims[j].retry THEN {"quote", "valid", "sim"} ELSE {}
           job == [sims[j] EXCEPT !.st = "active", !.asked = asked]
<1>1. /\ Set1(j, job) /\ sims[j].st = "ready" /\ NoFault
      /\ UNCHANGED <<world, intake, failed, strays>>
  BY DEF Take, NoFault
<1>2. sims[j] \in Job
  BY JobFields
<1>3. job.op = sims[j].op
  BY <1>2 DEF Job
<1> HIDE DEF job
<1> QED BY <1>1, <1>3, GoesOn DEF Live

LEMMA AnswerQuoteEffect == ASSUME SimOK, NEW j \in Slots, AnswerQuote(j) PROVE JobEffect(j)
<1>1. sims[j] \in Job
  BY JobFields
<1>2. At(j, "check") /\ UNCHANGED <<world, intake, failed>>
  BY DEF AnswerQuote
<1>3. CASE Set1(j, [sims[j] EXCEPT !.asked = @ \ {"quote"}]) /\ UNCHANGED <<strays, budget>>
  <2> DEFINE job == [sims[j] EXCEPT !.asked = @ \ {"quote"}]
  <2>1. job.op = sims[j].op
    BY <1>1 DEF Job
  <2>2. Set1(j, job)
    BY <1>3
  <2> HIDE DEF job
  <2> QED BY <1>2, <1>3, <2>1, <2>2, GoesOn DEF At, Live, NoFault
<1>4. CASE Spend("disruption")
  BY <1>2, <1>4, SpendSeen DEF JobEffect, Disrupted, At
<1> QED BY <1>3, <1>4 DEF AnswerQuote

\* The job ends with an error for its userOp.
LEMMA EndsFailed ==
  ASSUME SimOK, NEW j \in Slots, At(j, "check"), Goto(j, "drop"), UNCHANGED <<world, intake, strays>>,
         failed' = failed \cup {sims[j].op}, NoFault \/ Spend("rpc")
  PROVE  JobEffect(j)
<1> DEFINE job == [sims[j] EXCEPT !.pc = "drop", !.asked = {}]
<1>1. sims[j] \in Job /\ Set1(j, job)
  BY JobFields DEF Goto
<1>2. job.st = "active" /\ job.pc = "drop"
  BY <1>1 DEF Job, At
<1> HIDE DEF job
<1>3. sims'[j] = job /\ \A i \in Slots : i # j => sims'[i] = sims[i]
  BY <1>1, Set1Facts
<1>4. budget'.disruption = budget.disruption
  BY SpendSeen
<1>5. Live(sims[j]) /\ ~Live(sims'[j])
  BY <1>2, <1>3 DEF Live, At
<1> QED BY <1>3, <1>4, <1>5 DEF JobEffect, JobGoes, At

LEMMA AnswerValidationEffect == ASSUME SimOK, NEW j \in Slots, AnswerValidation(j) PROVE JobEffect(j)
<1> DEFINE o == sims[j].op
<1>1. sims[j] \in Job
  BY JobFields
<1>2. At(j, "check") /\ UNCHANGED <<world, intake, strays>>
  BY DEF AnswerValidation
<1>3. PICK v \in {Verdict(o), "error"} :
       /\ IF v = Verdict(o) THEN NoFault ELSE Spend("rpc")
       /\ failed' = IF v = "error" THEN failed \cup {o} ELSE failed
       /\ CASE v = "error" -> Goto(j, "drop")
            [] v = "defer" -> Set1(j, [sims[j] EXCEPT !.asked = (@ \ {"valid"}) \cup {"defer"}])
            [] v = "pass"  -> Set1(j, [sims[j] EXCEPT !.asked = @ \ {"valid"}])
  BY DEF AnswerValidation
<1>4. v \in {"error", "defer", "pass"} /\ (NoFault \/ Spend("rpc"))
  BY <1>3 DEF Verdict
<1> HIDE DEF o
<1>6. CASE v = "error"
  BY <1>2, <1>3, <1>4, <1>6, EndsFailed DEF o
<1>7. CASE v \in {"defer", "pass"}
  <2> DEFINE asked == IF v = "defer" THEN (sims[j].asked \ {"valid"}) \cup {"defer"}
                                     ELSE sims[j].asked \ {"valid"}
             job == [sims[j] EXCEPT !.asked = asked]
  <2>2. Set1(j, job) /\ failed' = failed
    BY <1>3, <1>7
  <2> HIDE DEF asked
  <2>3. job.op = sims[j].op
    BY <1>1 DEF Job
  <2> HIDE DEF job
  <2> QED BY <1>2, <1>4, <2>2, <2>3, GoesOn DEF At, Live
<1> QED BY <1>4, <1>6, <1>7

LEMMA AnswerSimulationEffect == ASSUME SimOK, NEW j \in Slots, AnswerSimulation(j) PROVE JobEffect(j)
<1>1. sims[j] \in Job
  BY JobFields
<1>2. At(j, "check") /\ UNCHANGED <<world, intake, failed, strays>>
  BY DEF AnswerSimulation
<1>3. PICK ok \in BOOLEAN :
       /\ TraceResult(sims[j].op, ok)
       /\ Set1(j, [sims[j] EXCEPT !.asked = @ \ {"sim"}, !.sim = IF ok THEN "ok" ELSE "bad"])
  BY DEF AnswerSimulation
<1> DEFINE job == [sims[j] EXCEPT !.asked = @ \ {"sim"}, !.sim = IF ok THEN "ok" ELSE "bad"]
<1>4. job.op = sims[j].op
  BY <1>1 DEF Job
<1>5. Set1(j, job)
  BY <1>3
<1> HIDE DEF job
<1>6. NoFault \/ Spend("rpc")
  BY <1>3 DEF TraceResult
<1> QED BY <1>2, <1>4, <1>5, <1>6, GoesOn DEF At, Live

LEMMA DecideEffect == ASSUME SimOK, NEW j \in Slots, Decide(j) PROVE JobEffect(j)
<1> DEFINE o == sims[j].op
<1>1. sims[j] \in Job
  BY JobFields
<1>2. At(j, "check") /\ UNCHANGED <<world, intake, strays>> /\ NoFault
  BY DEF Decide, NoFault
<1>3. CASE o \notin Forced /\ phase[o] = "over"
  <2>1. Goto(j, "drop") /\ failed' = failed \cup {o}
    BY <1>3 DEF Decide
  <2> QED BY <1>2, <2>1, EndsFailed
<1>4. CASE ~(o \notin Forced /\ phase[o] = "over")
  <2>1. failed' = failed /\ \/ Set1(j, [sims[j] EXCEPT !.st = "done"])
                            \/ \E p \in {"trace", "requeue", "drop"} : Goto(j, p)
    BY <1>4 DEF Decide
  <2>2. CASE Set1(j, [sims[j] EXCEPT !.st = "done"])
    <3> DEFINE job == [sims[j] EXCEPT !.st = "done"]
    <3>1. job.op = sims[j].op
      BY <1>1 DEF Job
    <3>2. Set1(j, job)
      BY <2>2
    <3> HIDE DEF job
    <3> QED BY <1>2, <2>1, <3>1, <3>2, GoesOn DEF At, Live
  <2>3. ASSUME NEW p \in {"trace", "requeue", "drop"}, Goto(j, p) PROVE JobEffect(j)
    <3> DEFINE job == [sims[j] EXCEPT !.pc = p, !.asked = {}]
    <3>1. job.op = sims[j].op
      BY <1>1 DEF Job
    <3>2. Set1(j, job)
      BY <2>3 DEF Goto
    <3> HIDE DEF job
    <3> QED BY <1>2, <2>1, <3>1, <3>2, GoesOn DEF At, Live
  <2> QED BY <2>1, <2>2, <2>3
<1> QED BY <1>3, <1>4

LEMMA TraceEffect == ASSUME SimOK, NEW j \in Slots, Trace(j) PROVE JobEffect(j)
<1>1. sims[j] \in Job
  BY JobFields
<1>2. At(j, "trace") /\ UNCHANGED <<world, intake, failed, strays>>
  BY DEF Trace
<1>3. PICK ok \in BOOLEAN :
       /\ TraceResult(sims[j].op, ok)
       /\ IF ok THEN Set1(j, [sims[j] EXCEPT !.st = "done"]) ELSE Goto(j, "requeue")
  BY DEF Trace
<1>4. NoFault \/ Spend("rpc")
  BY <1>3 DEF TraceResult
<1>5. PICK job : job.op = sims[j].op /\ Set1(j, job)
  <2>1. [sims[j] EXCEPT !.st = "done"].op = sims[j].op
    BY <1>1 DEF Job
  <2>2. [sims[j] EXCEPT !.pc = "requeue", !.asked = {}].op = sims[j].op
    BY <1>1 DEF Job
  <2>3. CASE ok = TRUE
    BY <1>3, <2>1, <2>3
  <2>4. CASE ok = FALSE
    BY <1>3, <2>2, <2>4 DEF Goto
  <2> QED BY <2>3, <2>4
<1> QED BY <1>2, <1>4, <1>5, GoesOn DEF At, Live

LEMMA RequeueEffect == ASSUME SimOK, NEW j \in Slots, Requeue(j) PROVE JobEffect(j)
<1> DEFINE o == sims[j].op
<1>1. sims[j] \in Job /\ Okay(sims[j]) /\ SimTypes
  BY JobFields DEF SimOK
<1>2. /\ sims[j].st = "active" /\ Live(sims[j]) /\ UNCHANGED <<world, intake, failed, strays>>
  BY DEF Requeue, At, Live
<1>3. CASE /\ Room({o})
           /\ sims' = [Changed(Added({o}, TRUE)) EXCEPT ![j].pc = "drop", ![j].asked = {}]
           /\ NoFault
  <2> DEFINE queue == Changed(Added({o}, TRUE))
  <2>1. {o} \in SUBSET quote.ops /\ Room({o})
    BY <1>1, <1>2, <1>3 DEF Okay
  <2> HIDE DEF o
  <2>2. /\ queue \in [Slots -> Job]
        /\ \A i \in Slots : sims[i].st # "free" => queue[i] = sims[i]
        /\ \A i \in Slots : queue[i] = sims[i] \/ \E x \in {o} : queue[i] = NewJob(x, TRUE)
        /\ \A i, k \in Slots :
             (sims[i].st = "free" /\ sims[k].st = "free"
                /\ queue[i].st # "free" /\ queue[k].st # "free" /\ queue[i].op = queue[k].op) => i = k
    <3>1. PICK B \in SUBSET quote.ops : B = {o}
      BY <2>1
    <3>2. PICK retry \in BOOLEAN : retry = TRUE
      OBVIOUS
    <3>3. Room(B) /\ queue = Changed(Added(B, retry))
      BY <2>1, <3>1, <3>2
    <3> HIDE DEF queue
    <3>4. /\ queue \in [Slots -> Job]
          /\ \A i \in Slots : sims[i].st # "free" => queue[i] = sims[i]
          /\ \A i \in Slots : queue[i] = sims[i] \/ \E x \in B : queue[i] = NewJob(x, retry)
          /\ \A i, k \in Slots :
               (sims[i].st = "free" /\ sims[k].st = "free"
                  /\ queue[i].st # "free" /\ queue[k].st # "free" /\ queue[i].op = queue[k].op) => i = k
      BY <1>1, <3>3, AddedQueue
    <3> QED BY <3>1, <3>2, <3>4
  <2>3. sims' = [[queue EXCEPT ![j].pc = "drop"] EXCEPT ![j].asked = {}]
    BY <1>3
  <2> HIDE DEF queue
  <2>4. queue[j] = sims[j] /\ DOMAIN queue = Slots
    BY <1>2, <2>2
  <2>5. PICK job : job = [sims[j] EXCEPT !.pc = "drop", !.asked = {}]
    OBVIOUS
  <2>6. sims'[j] = job /\ \A i \in Slots : i # j => sims'[i] = queue[i]
    BY <2>3, <2>4, <2>5
  <2>7. ~Live(sims'[j])
    <3>1. job.st = "active" /\ job.pc = "drop"
      BY <1>1, <1>2, <2>5 DEF Job
    <3> QED BY <2>6, <3>1 DEF Live
  <2>8. \A i \in Slots : sims[i].st = "free" /\ Live(sims'[i]) =>
          /\ i # j /\ sims'[i] = queue[i] /\ queue[i].st # "free" /\ queue[i].op = o
    <3> SUFFICES ASSUME NEW i \in Slots, sims[i].st = "free", Live(sims'[i])
                 PROVE  i # j /\ sims'[i] = queue[i] /\ queue[i].st # "free" /\ queue[i].op = o
      OBVIOUS
    <3>1. i # j /\ sims'[i] = queue[i] /\ queue[i].st # "free"
      BY <1>2, <2>6 DEF Live
    <3>2. NewJob(o, TRUE).op = o
      BY DEF NewJob
    <3> QED BY <2>2, <3>1, <3>2
  <2>9. \A i, k \in Slots :
       (sims[i].st = "free" /\ sims[k].st = "free" /\ Live(sims'[i]) /\ Live(sims'[k])) => i = k
    BY <2>2, <2>8
  <2>10. \A i \in Slots : i # j /\ sims[i].st # "free" => sims'[i] = sims[i]
    BY <2>2, <2>6
  <2>11. budget'.disruption = budget.disruption
    BY <1>3, SpendSeen
  <2> QED BY <1>2, <2>7, <2>8, <2>9, <2>10, <2>11 DEF JobEffect, JobReplaced, o
<1>4. CASE Spend("disruption")
  BY <1>2, <1>4, SpendSeen DEF JobEffect, Disrupted
<1> QED BY <1>3, <1>4 DEF Requeue

\* A job that leads nowhere may be removed.
LEMMA DropEffect == ASSUME SimOK, NEW j \in Slots, Drop(j) PROVE JobEffect(j)
<1>1. /\ Set1(j, FreeJob) /\ At(j, "drop") /\ UNCHANGED <<world, intake, failed, strays, budget>>
  BY DEF Drop
<1>2. sims'[j] = FreeJob /\ \A i \in Slots : i # j => sims'[i] = sims[i]
  BY <1>1, Set1Facts
<1> QED BY <1>1, <1>2, FreeJobFacts DEF JobEffect, JobGoes, At, Live

LEMMA StalledEffect == ASSUME SimOK, NEW j \in Slots, SimStalled(j) PROVE JobEffect(j)
<1>1. /\ sims[j] \in Job /\ At(j, "lost") /\ UNCHANGED <<world, intake, failed, strays>> /\ NoFault
  BY JobFields DEF SimStalled, NoFault
<1>2. CASE sims[j].stalls < MaxStalled
  <2> DEFINE job == [sims[j] EXCEPT !.st = "ready", !.pc = "check", !.stalls = @ + 1]
  <2>1. job.op = sims[j].op
    BY <1>1 DEF Job
  <2>2. Set1(j, job)
    BY <1>2 DEF SimStalled
  <2> HIDE DEF job
  <2> QED BY <1>1, <2>1, <2>2, GoesOn DEF At, Live
<1>3. CASE ~(sims[j].stalls < MaxStalled)
  <2>1. Set1(j, FreeJob)
    BY <1>3 DEF SimStalled
  <2>2. sims'[j] = FreeJob /\ \A i \in Slots : i # j => sims'[i] = sims[i]
    BY <2>1, Set1Facts
  <2> QED BY <1>1, <2>2, FreeJobFacts DEF JobEffect, JobGoes, At, Live, NoFault
<1> QED BY <1>2, <1>3

LEMMA JobStepEffect == ASSUME SimOK, NEW j \in Slots, JobStep(j) PROVE JobEffect(j)
BY TakeEffect, AnswerQuoteEffect, AnswerValidationEffect, AnswerSimulationEffect, DecideEffect,
   TraceEffect, RequeueEffect, DropEffect, StalledEffect DEF JobStep

-----------------------------------------------------------------------------
(* Steps beside the round *)

LEMMA FromJobsStay == ASSUME IInv, FromJobs, Moves, bat' = bat PROVE FromJobs'
<1> SUFFICES ASSUME bat.pc = "hand", NEW k \in 1..Len(bat.batches), NEW m \in 1..Len(bat.batches[k].ops)
             PROVE  /\ ~TooBig(bat.batches[k].ops[m])
                    /\ \E j \in bat.jobs : sims'[j].op = bat.batches[k].ops[m]
  BY DEF FromJobs, TooBig
<1>1. ~TooBig(bat.batches[k].ops[m]) /\ \E j \in bat.jobs : sims[j].op = bat.batches[k].ops[m]
  BY DEF FromJobs
<1>2. \A j \in bat.jobs : sims'[j] = sims[j]
  BY DEF IInv, RoundOK, Moves
<1> QED BY <1>1, <1>2

LEMMA SoleStays ==
  ASSUME Sole, UNCHANGED <<bat, blocks>>, quote' = quote, strays' = strays,
         \A i, k \in Slots : Live(sims'[i]) /\ Live(sims'[k]) /\ sims'[i].op = sims'[k].op => i = k,
         \A i \in Slots : Live(sims'[i]) =>
           \/ sims'[i] = sims[i]
           \/ \E k \in Slots : Live(sims[k]) /\ ~InRound(k) /\ sims[k].op = sims'[i].op,
         \A i \in Slots : Live(sims'[i]) /\ sims'[i].op \in failed' => sims'[i].op \in failed
  PROVE  Sole'
<1>1. \A o : HandedOver(o)' <=> HandedOver(o)
  BY DEF HandedOver, InBlock
<1>2. ASSUME NEW i \in Slots, Live(sims'[i])
      PROVE  /\ sims'[i].op \notin failed' \/ TooBig(sims'[i].op)
             /\ ~InRound(i) => ~HandedOver(sims'[i].op)
  BY <1>2 DEF Sole
<1>3. ASSUME NEW i \in Slots, Live(sims'[i]), ~InRound(i) PROVE ~HandedOver(sims[i].op)'
  <2>1. PICK o : o = sims'[i].op
    OBVIOUS
  <2>2. ~HandedOver(o)'
    BY <1>1, <1>2, <1>3, <2>1
  <2> QED BY <2>1, <2>2 DEF HandedOver, InBlock
<1> SUFFICES
      /\ \A o \in quote'.ops : strays'[o] = "none"
      /\ \A i, k \in Slots : Live(sims'[i]) /\ Live(sims'[k]) /\ sims'[i].op = sims'[k].op => i = k
      /\ \A i \in Slots : Live(sims'[i]) => sims'[i].op \notin failed' \/ TooBig(sims'[i].op)
      /\ \A i \in Slots : Live(sims'[i]) /\ ~InRound(i) => ~HandedOver(sims[i].op)'
  BY DEF Sole, Slots, Live, TooBig, InRound
<1>4. \A o \in quote'.ops : strays'[o] = "none"
  BY DEF Sole
<1> QED BY <1>2, <1>3, <1>4

\* A job at work is not in the round.
LEMMA NotInRound == ASSUME IInv, NEW j \in Slots, sims[j].st # "done" PROVE ~InRound(j)
BY DEF IInv, RoundOK, InRound

LEMMA JobKeepsSole ==
  ASSUME IInv, Sole, NEW j \in Slots, JobGoes(j) \/ JobReplaced(j), quote' = quote,
         UNCHANGED <<bat, blocks>>
  PROVE  Sole'
<1>1. ~InRound(j) /\ strays' = strays
  BY NotInRound DEF JobGoes, JobReplaced
<1>2. CASE JobGoes(j)
  <2>1. \A i \in Slots : Live(sims'[i]) => Live(sims[i]) /\ sims'[i].op = sims[i].op
    BY <1>2 DEF JobGoes
  <2>2. \A i, k \in Slots : Live(sims'[i]) /\ Live(sims'[k]) /\ sims'[i].op = sims'[k].op => i = k
    BY <2>1 DEF Sole
  <2>3. \A i \in Slots : Live(sims'[i]) =>
           \/ sims'[i] = sims[i]
           \/ \E k \in Slots : Live(sims[k]) /\ ~InRound(k) /\ sims[k].op = sims'[i].op
    BY <1>1, <1>2 DEF JobGoes
  <2>4. ASSUME NEW i \in Slots, Live(sims'[i]), sims'[i].op \in failed' PROVE sims'[i].op \in failed
    <3>1. CASE failed' = failed
      BY <2>4, <3>1
    <3>2. CASE failed' = failed \cup {sims[j].op} /\ Live(sims[j]) /\ ~Live(sims'[j])
      <4>1. i # j
        BY <2>4, <3>2
      <4>2. sims[i].op # sims[j].op
        BY <2>1, <2>4, <3>2, <4>1 DEF Sole
      <4> QED BY <2>1, <2>4, <3>2, <4>2
    <3> QED BY <1>2, <3>1, <3>2 DEF JobGoes
  <2> QED BY <1>1, <2>2, <2>3, <2>4, SoleStays
<1>3. CASE JobReplaced(j)
  <2>1. ASSUME NEW i \in Slots, Live(sims'[i])
        PROVE  \/ sims[i].st # "free" /\ sims'[i] = sims[i] /\ i # j /\ sims[i].op # sims[j].op
               \/ sims[i].st = "free" /\ sims'[i].op = sims[j].op
    <3>1. i # j
      BY <1>3, <2>1 DEF JobReplaced
    <3>2. CASE sims[i].st = "free"
      BY <1>3, <2>1, <3>2 DEF JobReplaced
    <3>3. CASE sims[i].st # "free"
      <4>1. sims'[i] = sims[i]
        BY <1>3, <3>1, <3>3 DEF JobReplaced
      <4>2. Live(sims[i]) /\ Live(sims[j])
        BY <1>3, <2>1, <4>1 DEF JobReplaced
      <4>3. sims[i].op # sims[j].op
        BY <3>1, <4>2 DEF Sole
      <4> QED BY <3>1, <3>3, <4>1, <4>3
    <3> QED BY <3>2, <3>3
  <2>2. ASSUME NEW i \in Slots, NEW k \in Slots, Live(sims'[i]), Live(sims'[k]), sims'[i].op = sims'[k].op
        PROVE  i = k
    <3>1. CASE sims[i].st = "free" /\ sims[k].st = "free"
      BY <1>3, <2>2, <3>1 DEF JobReplaced
    <3>2. CASE sims[i].st # "free" /\ sims[k].st # "free"
      <4>1. sims'[i] = sims[i] /\ sims'[k] = sims[k]
        BY <2>1, <2>2, <3>2
      <4> QED BY <2>2, <4>1 DEF Sole
    <3>3. CASE sims[i].st = "free" /\ sims[k].st # "free"
      BY <2>1, <2>2, <3>3
    <3>4. CASE sims[i].st # "free" /\ sims[k].st = "free"
      BY <2>1, <2>2, <3>4
    <3> QED BY <3>1, <3>2, <3>3, <3>4
  <2>3. \A i \in Slots : Live(sims'[i]) =>
           \/ sims'[i] = sims[i]
           \/ \E k \in Slots : Live(sims[k]) /\ ~InRound(k) /\ sims[k].op = sims'[i].op
    <3>1. Live(sims[j])
      BY <1>3 DEF JobReplaced
    <3> QED BY <1>1, <2>1, <3>1
  <2>4. failed' = failed
    BY <1>3 DEF JobReplaced
  <2> QED BY <1>1, <2>2, <2>3, <2>4, SoleStays
<1> QED BY <1>2, <1>3

LEMMA CalmStays ==
  ASSUME SimTypes, SimTypes', quote' = quote, budget'.disruption <= budget.disruption
  PROVE  /\ Calm' => Calm /\ budget'.disruption = budget.disruption
         /\ budget'.disruption < budget.disruption => ~Calm'
<1>1. /\ budget.disruption \in Nat /\ budget'.disruption \in Nat /\ quote.faults.disruption \in Nat
      /\ budget.disruption <= quote.faults.disruption
  BY QuoteFacts DEF SimTypes, Faults
<1> QED BY <1>1 DEF Calm

\* A step of a job leaves the accounts in order, and is a step of Handover: an error for a
\* userOp that was never handed over, trouble, or nothing to see.
LEMMA JobKeeps ==
  ASSUME IInv, Accounted, NEW j \in Slots, JobEffect(j), SimOK', Moves, UNCHANGED <<bat, blocks>>
  PROVE  Accounted' /\ [Promise!Next]_(Promise!vars)
<1>1. /\ quote' = quote /\ scheduled' = scheduled /\ req' = req /\ sims[j].st # "free"
      /\ \A o \in Ops : Times(o)' = Times(o)
  BY SameTimes DEF JobEffect, world, intake
<1>2. scheduled # {}
  BY <1>1 DEF Accounted, Quiet
<1>3. FromJobs' /\ SimTypes /\ SimTypes' /\ SimOK /\ blocks \in Seq(Block)
  BY FromJobsStay DEF Accounted, IInv, SimOK, BlocksOK
<1>4. /\ \A r \in scheduled' : req'[r] = "done"
      /\ scheduled' # {}
  BY <1>1, <1>2 DEF Accounted
<1>5. CASE JobGoes(j) \/ JobReplaced(j)
  <2>1. budget'.disruption = budget.disruption /\ (Calm' => Calm)
    BY <1>1, <1>5 DEF JobGoes, JobReplaced, Calm
  <2>2. Calm => Sole' /\ (bat'.pc = "hand" => AtOnePlace(bat'.batches))
    BY <1>1, <1>5, JobKeepsSole DEF Accounted
  <2>3. Accounted'
    BY <1>3, <1>4, <2>1, <2>2 DEF Accounted
  <2>4. CASE failed' = failed
    BY <1>1, <2>1, <2>3, <2>4, NothingSeen
  <2>5. CASE failed' = failed \cup {sims[j].op} /\ Live(sims[j]) /\ sims[j].st # "done"
    <3>1. PICK B : B = {sims[j].op}
      OBVIOUS
    <3>2. B \in SUBSET quote.ops
      <4>1. sims[j].op \in quote.ops
        BY <1>1, <1>3, JobFields DEF Okay
      <4> QED BY <3>1, <4>1
    <3>3. Calm => \A o \in B : ~HandedOver(o)
      BY <2>5, <3>1, NotInRound DEF Accounted, Sole
    <3>4. Promise!Reject
      BY <1>1, <1>2, <1>3, <2>1, <2>5, <3>1, <3>2, <3>3, RejectSeen
    <3> QED BY <2>3, <3>4 DEF Promise!Next
  <2>6. (failed' = failed) \/ (failed' = failed \cup {sims[j].op} /\ Live(sims[j]) /\ sims[j].st # "done")
    BY <1>5 DEF JobGoes, JobReplaced
  <2> QED BY <2>3, <2>4, <2>5, <2>6
<1>6. CASE Disrupted
  <2>1. budget' \in Faults /\ budget'.disruption <= budget.disruption
    <3>1. budget \in Faults /\ budget' \in Faults
      BY <1>3 DEF SimTypes
    <3> QED BY <1>6, <3>1 DEF Disrupted, Faults
  <2>2. ~Calm'
    BY <1>1, <1>3, <1>6, <2>1, CalmStays DEF Disrupted
  <2>3. Accounted'
    BY <1>3, <1>4, <2>2 DEF Accounted
  <2>4. Promise!Trouble
    BY <1>1, <1>3, <1>6, <2>1, TroubleSeen DEF Disrupted
  <2> QED BY <2>3, <2>4 DEF Promise!Next
<1>7. JobGoes(j) \/ JobReplaced(j) \/ Disrupted
  BY DEF JobEffect
<1> QED BY <1>5, <1>6, <1>7

\* After a disruption nothing is left to account for but what was taken on.
LEMMA DisruptionKeeps ==
  ASSUME IInv, Accounted, SimOK', FromJobs', quote' = quote, scheduled' = scheduled, failed' = failed,
         blocks' = blocks, budget'.disruption < budget.disruption,
         \A r \in scheduled : req'[r] = "done", scheduled = {} => Quiet'
  PROVE  Accounted' /\ [Promise!Next]_(Promise!vars)
<1>1. SimTypes /\ SimTypes' /\ budget \in Faults /\ budget' \in Faults
  BY DEF IInv, SimOK, SimTypes
<1>2. budget'.disruption <= budget.disruption
  BY <1>1 DEF Faults
<1>3. ~Calm'
  BY <1>1, <1>2, CalmStays
<1>4. Accounted'
  BY <1>3 DEF Accounted
<1>5. Promise!Trouble
  BY <1>1, SameTimes, TroubleSeen
<1> QED BY <1>4, <1>5 DEF Promise!Next

\* Requests and the world leave the queues alone.
LEMMA StillKeeps ==
  ASSUME IInv, Accounted, SimOK', Moves, UNCHANGED <<quote, scheduled, failed, sims, strays, bat, blocks>>,
         \A r \in scheduled : req'[r] = "done",
         budget'.disruption = budget.disruption \/ budget'.disruption < budget.disruption
  PROVE  Accounted' /\ [Promise!Next]_(Promise!vars)
<1>1. FromJobs'
  BY FromJobsStay DEF Accounted
<1>2. scheduled = {} => Quiet'
  <2> SUFFICES ASSUME scheduled = {}
               PROVE  /\ \A j \in Slots : sims[j].st = "free"
                      /\ \A o \in quote.ops : strays[o] = "none"
                      /\ failed = {} /\ blocks = <<>>
    BY DEF Quiet, Slots
  <2> QED BY DEF Accounted, Quiet
<1>3. CASE budget'.disruption < budget.disruption
  BY <1>1, <1>2, <1>3, DisruptionKeeps
<1>4. CASE budget'.disruption = budget.disruption
  <2>1. Calm' => Calm
    BY <1>4 DEF Calm
  <2>2. Sole => Sole'
    <3>1. Sole => \A i, k \in Slots : Live(sims'[i]) /\ Live(sims'[k]) /\ sims'[i].op = sims'[k].op => i = k
      BY DEF Sole
    <3> QED BY <3>1, SoleStays
  <2>3. Accounted'
    BY <1>1, <1>2, <2>1, <2>2 DEF Accounted
  <2>4. UNCHANGED Promise!vars
    BY <1>4, SameTimes, NothingSeen
  <2> QED BY <2>3, <2>4
<1> QED BY <1>3, <1>4

LEMMA ScheduleKeeps ==
  ASSUME OneRequest, IInv, Accounted, NEW r \in Requests, Schedule(r), SimOK', Moves,
         UNCHANGED <<bat, blocks>>
  PROVE  Accounted' /\ [Promise!Next]_(Promise!vars)
<1>1. /\ UNCHANGED <<world, stored, failed, strays>> /\ req[r] = "stored"
      /\ req' = [req EXCEPT ![r] = "done"] /\ quote' = quote
      /\ req \in [Requests -> {"idle", "checked", "stored", "done", "refused", "dead"}]
      /\ SimOK /\ SimTypes /\ scheduled \subseteq Requests /\ quote \in Quotes
  BY DEF Schedule, world, IInv, SimOK, SimTypes
<1>2. \A s \in scheduled : req'[s] = "done"
  BY <1>1 DEF Accounted
<1>3. CASE Spend("disruption") /\ UNCHANGED <<sims, scheduled>>
  BY <1>1, <1>2, <1>3, SpendSeen, StillKeeps
<1>4. CASE /\ Room(quote.ops) /\ sims' = Changed(Added(quote.ops, FALSE))
           /\ scheduled' = scheduled \cup {r} /\ NoFault
  <2>1. scheduled = {} /\ Quiet
    <3>1. r \notin scheduled
      BY <1>1 DEF Accounted
    <3> QED BY <1>1, <3>1 DEF OneRequest, Accounted
  <2>2. PICK B \in SUBSET quote.ops : B = quote.ops
    OBVIOUS
  <2>3. PICK queue : queue = Changed(Added(B, FALSE))
    OBVIOUS
  <2>4. sims' = queue
    BY <1>4, <2>2, <2>3
  <2>5. \A i, k \in Slots :
          (sims[i].st = "free" /\ sims[k].st = "free" /\ queue[i].st # "free"
             /\ queue[k].st # "free" /\ queue[i].op = queue[k].op) => i = k
    <3>1. PICK retry \in BOOLEAN : retry = FALSE
      OBVIOUS
    <3>2. Room(B) /\ queue = Changed(Added(B, retry))
      BY <1>4, <2>2, <2>3, <3>1
    <3>3. /\ queue \in [Slots -> Job]
          /\ \A i \in Slots : sims[i].st # "free" => queue[i] = sims[i]
          /\ \A i \in Slots : queue[i] = sims[i] \/ \E x \in B : queue[i] = NewJob(x, retry)
          /\ \A i, k \in Slots :
               (sims[i].st = "free" /\ sims[k].st = "free" /\ queue[i].st # "free"
                  /\ queue[k].st # "free" /\ queue[i].op = queue[k].op) => i = k
      BY <1>1, <3>2, AddedQueue
    <3> QED BY <3>3
  <2>6. \A i, k \in Slots : Live(sims'[i]) /\ Live(sims'[k]) /\ sims'[i].op = sims'[k].op => i = k
    BY <2>1, <2>4, <2>5 DEF Quiet, Live
  <2>7. Sole'
    <3> SUFFICES
          /\ \A o \in quote'.ops : strays'[o] = "none"
          /\ \A i, k \in Slots : Live(sims'[i]) /\ Live(sims'[k]) /\ sims'[i].op = sims'[k].op => i = k
          /\ failed' = {} /\ blocks' = <<>>
      BY DEF Sole, Slots, Live, HandedOver
    <3> QED BY <1>1, <2>1, <2>6 DEF Quiet
  <2>8. Accounted'
    <3>1. FromJobs' /\ scheduled' # {}
      BY <1>4, FromJobsStay DEF Accounted
    <3>2. \A s \in scheduled' : req'[s] = "done"
      BY <1>1, <1>4, <2>1
    <3>3. Calm' => (bat'.pc = "hand" => AtOnePlace(bat'.batches))
      BY <1>1, <1>4 DEF Accounted, Calm, NoFault
    <3> QED BY <2>7, <3>1, <3>2, <3>3 DEF Accounted
  <2>9. Promise!Accept
    <3>1. scheduled' # {} /\ budget'.disruption = budget.disruption
      BY <1>4 DEF NoFault
    <3> QED BY <1>1, <2>1, <3>1, SameTimes, AcceptSeen
  <2> QED BY <2>8, <2>9 DEF Promise!Next
<1> QED BY <1>3, <1>4 DEF Schedule

LEMMA StrayKeeps ==
  ASSUME IInv, Accounted, NEW o \in quote.ops, Stray(o), SimOK', Moves, UNCHANGED <<bat, blocks>>
  PROVE  Accounted' /\ [Promise!Next]_(Promise!vars)
<1>1. /\ UNCHANGED <<world, intake, budget>> /\ strays[o] # "none"
      /\ quote' = quote /\ scheduled' = scheduled /\ req' = req
      /\ SimTypes /\ blocks \in Seq(Block)
  BY DEF Stray, world, intake, IInv, SimOK, BlocksOK
<1>2. scheduled # {} /\ ~Calm
  BY <1>1 DEF Accounted, Sole, Quiet
<1>3. ~Calm'
  BY <1>1, <1>2 DEF Calm
<1>4. FromJobs'
  BY FromJobsStay DEF Accounted
<1>5. Accounted'
  BY <1>1, <1>2, <1>3, <1>4 DEF Accounted
<1>6. failed' = failed \/ failed' = failed \cup {o}
  BY DEF Stray
<1>7. CASE failed' = failed
  BY <1>1, <1>5, <1>7, SameTimes, NothingSeen
<1>8. CASE failed' = failed \cup {o}
  <2>1. {o} \in SUBSET quote.ops
    OBVIOUS
  <2>2. Promise!Reject
    BY <1>1, <1>2, <1>8, <2>1, SameTimes, RejectSeen
  <2> QED BY <1>5, <2>2 DEF Promise!Next
<1> QED BY <1>6, <1>7, <1>8

\* Every step of the requests, the simulator and the world around it.
LEMMA SimStepKeeps ==
  ASSUME OneRequest, IInv, Accounted, SimStep, UNCHANGED <<bat, blocks>>
  PROVE  Accounted' /\ [Promise!Next]_(Promise!vars)
<1>1. SimOK /\ SimOK' /\ Moves
  BY SimStepMoves DEF IInv
<1>2. ASSUME NEW r \in Requests, Check(r) \/ Store(r)
      PROVE  Accounted' /\ [Promise!Next]_(Promise!vars)
  <2>1. /\ UNCHANGED <<quote, scheduled, failed, sims, strays>> /\ budget'.disruption = budget.disruption
        /\ req[r] \in {"idle", "checked"} /\ \A s \in Requests : s # r => req'[s] = req[s]
        /\ scheduled \subseteq Requests
    BY <1>1, <1>2 DEF Check, Store, world, SimOK, SimTypes
  <2>2. \A s \in scheduled : req'[s] = "done"
    BY <2>1 DEF Accounted
  <2> QED BY <1>1, <2>1, <2>2, StillKeeps
<1>3. ASSUME NEW r \in Requests, Schedule(r) PROVE Accounted' /\ [Promise!Next]_(Promise!vars)
  BY <1>1, <1>3, ScheduleKeeps
<1>4. ASSUME NEW j \in Slots, JobStep(j) PROVE Accounted' /\ [Promise!Next]_(Promise!vars)
  BY <1>1, <1>4, JobStepEffect, JobKeeps
<1>5. ASSUME NEW o \in quote.ops, Stray(o) PROVE Accounted' /\ [Promise!Next]_(Promise!vars)
  BY <1>1, <1>5, StrayKeeps
<1>6. ASSUME NEW o \in quote.ops, Advance(o) PROVE Accounted' /\ [Promise!Next]_(Promise!vars)
  <2>1. /\ UNCHANGED <<quote, scheduled, failed, sims, strays>> /\ budget'.disruption = budget.disruption
        /\ req' = req
    BY <1>6 DEF Advance, intake
  <2>2. \A s \in scheduled : req'[s] = "done"
    BY <2>1 DEF Accounted
  <2> QED BY <1>1, <2>1, <2>2, StillKeeps
<1>7. CASE ChainChange
  <2>1. /\ UNCHANGED <<quote, scheduled, failed, sims, strays>> /\ budget'.disruption = budget.disruption
        /\ req' = req
    BY <1>1, <1>7, SpendSeen DEF ChainChange, intake
  <2>2. \A s \in scheduled : req'[s] = "done"
    BY <2>1 DEF Accounted
  <2> QED BY <1>1, <2>1, <2>2, StillKeeps
<1>8. CASE SimCrash
  <2>1. /\ quote' = quote /\ scheduled' = scheduled /\ failed' = failed /\ req' = req
        /\ budget'.disruption < budget.disruption
    BY <1>1, <1>8, SpendSeen DEF SimCrash, world, intake
  <2>2. scheduled # {}
    BY <1>8 DEF SimCrash, Accounted, Quiet
  <2>3. FromJobs' /\ \A s \in scheduled : req'[s] = "done"
    BY <1>1, <2>1, FromJobsStay DEF Accounted
  <2> QED BY <1>1, <2>1, <2>2, <2>3, DisruptionKeeps
<1> QED BY <1>2, <1>3, <1>4, <1>5, <1>6, <1>7, <1>8 DEF SimStep, RequestStep

-----------------------------------------------------------------------------
(* Steps of the round *)

\* The jobs stay as they are; no userOp gets into a block, none but those too big an error.
LEMMA SoleRests ==
  ASSUME Sole, UNCHANGED <<quote, sims, strays>>, \A o : HandedOver(o)' => HandedOver(o),
         \A j \in Slots : Live(sims[j]) /\ InRound(j) => InRound(j)',
         \A o \in failed' : o \in failed \/ TooBig(o)
  PROVE  Sole'
<1>1. ASSUME NEW i \in Slots, Live(sims[i]), ~InRound(i)' PROVE ~HandedOver(sims[i].op)'
  <2>1. PICK o : o = sims[i].op
    OBVIOUS
  <2>2. ~HandedOver(o)'
    BY <1>1, <2>1 DEF Sole
  <2> QED BY <2>1, <2>2 DEF HandedOver, InBlock
<1>2. /\ \A o \in quote.ops : strays[o] = "none"
      /\ \A i, k \in Slots : Live(sims[i]) /\ Live(sims[k]) /\ sims[i].op = sims[k].op => i = k
      /\ \A i \in Slots : Live(sims[i]) => sims[i].op \notin failed \/ TooBig(sims[i].op)
  BY DEF Sole
<1>3. \A i \in Slots : Live(sims[i]) => sims[i].op \notin failed' \/ TooBig(sims[i].op)
  BY <1>2
<1> SUFFICES
      /\ \A o \in quote'.ops : strays'[o] = "none"
      /\ \A i, k \in Slots : Live(sims'[i]) /\ Live(sims'[k]) /\ sims'[i].op = sims'[k].op => i = k
      /\ \A i \in Slots : Live(sims'[i]) => sims'[i].op \notin failed' \/ TooBig(sims'[i].op)
      /\ \A i \in Slots : Live(sims'[i]) /\ ~InRound(i)' => ~HandedOver(sims[i].op)'
  BY DEF Sole, Slots, Live, TooBig
<1> QED BY <1>1, <1>2, <1>3

LEMMA CountKeeps ==
  ASSUME IInv, Accounted, Count PROVE Accounted' /\ [Promise!Next]_(Promise!vars)
<1>1. /\ bat.pc = "idle" /\ bat' = [bat EXCEPT !.pc = "fetch"] /\ bat'.pc = "fetch"
      /\ UNCHANGED <<quote, req, scheduled, failed, sims, strays, budget, blocks>>
  BY DEF Count, simVars, world, intake, IInv, RoundOK
<1>2. DoneJobs # {}
  BY DEF Count
<1>3. scheduled # {}
  BY <1>2 DEF DoneJobs, Accounted, Quiet
<1>4. \A o : HandedOver(o)' => HandedOver(o)
  BY <1>1 DEF HandedOver, InBlock
<1>5. Sole => Sole'
  BY <1>1, <1>4, SoleRests DEF InRound
<1>6. Accounted'
  BY <1>1, <1>3, <1>5 DEF Accounted, FromJobs, Calm
<1>7. UNCHANGED Promise!vars
  BY <1>1, SameTimes, NothingSeen
<1> QED BY <1>6, <1>7

LEMMA FetchKeeps ==
  ASSUME IInv, Accounted, Fetch PROVE Accounted' /\ [Promise!Next]_(Promise!vars)
<1>1. /\ bat.pc = "fetch" /\ UNCHANGED <<quote, req, scheduled, sims, strays, budget, blocks>>
      /\ failed' = failed \cup {o \in {sims[j].op : j \in DoneJobs} : TooBig(o)}
      /\ SimTypes /\ SimOK /\ blocks \in Seq(Block)
  BY DEF Fetch, world, intake, IInv, SimOK, BlocksOK
<1>2. PICK order \in SetToSeqs(DoneJobs) :
        bat' = [pc |-> "hand", jobs |-> DoneJobs,
                batches |-> Pack([i \in 1..Len(order) |-> sims[order[i]].op])]
  BY DEF Fetch
<1> DEFINE ops == [i \in 1..Len(order) |-> sims[order[i]].op]
           batches == Pack(ops)
<1>3. /\ DoneJobs \subseteq Slots /\ IsFiniteSet(DoneJobs)
      /\ \A j \in DoneJobs : sims[j].st = "done" /\ Live(sims[j])
  <2>1. IsFiniteSet(Slots)
    BY SimulatorConstantsOK, FS_Interval DEF Slots
  <2>2. DoneJobs \in SUBSET Slots /\ \A j \in DoneJobs : sims[j].st = "done" /\ Live(sims[j])
    BY DEF DoneJobs, Live
  <2>3. IsFiniteSet(DoneJobs)
    BY <2>1, <2>2, FS_Subset
  <2> QED BY <2>2, <2>3
<1>4. \A j \in DoneJobs : sims[j].op \in Ops /\ sims[j].op \in quote.ops
  BY <1>1, <1>3, JobFields DEF Okay
<1>5. /\ order \in Seq(DoneJobs) /\ Len(order) \in Nat
      /\ \A i, k \in 1..Len(order) : order[i] = order[k] => i = k
      /\ \A i \in 1..Len(order) : order[i] \in DoneJobs
  <2>1. order \in Seq(DoneJobs)
    BY <1>3, OrderFacts
  <2> QED BY <1>3, <2>1, OrderFacts
<1>6. /\ ops \in Seq(Ops) /\ Len(ops) = Len(order)
      /\ \A i \in 1..Len(order) : ops[i] = sims[order[i]].op
  <2> DEFINE n == Len(order)
  <2>1. n \in Nat /\ \A i \in 1..n : sims[order[i]].op \in Ops
    BY <1>4, <1>5
  <2>2. ops = [i \in 1..n |-> sims[order[i]].op]
    OBVIOUS
  <2> HIDE DEF n, ops
  <2>3. ops \in [1..n -> Ops]
    BY <2>1, <2>2
  <2>4. ops \in Seq(Ops) /\ Len(ops) = n
    BY <2>1, <2>3
  <2> QED BY <2>2, <2>4 DEF n
<1> HIDE DEF ops
<1>7. /\ batches \in Seq(Batch)
      /\ \A x : (\E k \in 1..Len(batches) : InBlock(x, batches[k]))
                  <=> \E i \in 1..Len(ops) : x = ops[i] /\ ~TooBig(x)
  BY <1>6, PackFacts
<1>8. bat' = [pc |-> "hand", jobs |-> DoneJobs, batches |-> batches]
  BY <1>2 DEF ops
<1>9. Calm => AtOnePlace(batches)
  <2> SUFFICES ASSUME Calm PROVE \A i, k \in 1..Len(ops) : ops[i] = ops[k] => i = k
    BY <1>6, PackedOnce
  <2> SUFFICES ASSUME NEW i \in 1..Len(order), NEW k \in 1..Len(order),
                      sims[order[i]].op = sims[order[k]].op
               PROVE  i = k
    BY <1>6
  <2>1. order[i] = order[k]
    BY <1>3, <1>5 DEF Accounted, Sole
  <2> QED BY <1>5, <2>1
<1> HIDE DEF batches
<1>10. FromJobs'
  <2> SUFFICES ASSUME NEW k \in 1..Len(batches), NEW m \in 1..Len(batches[k].ops)
               PROVE  /\ ~TooBig(batches[k].ops[m])
                      /\ \E j \in DoneJobs : sims[j].op = batches[k].ops[m]
    BY <1>1, <1>8 DEF FromJobs, TooBig
  <2>1. PICK x : x = batches[k].ops[m]
    OBVIOUS
  <2>2. InBlock(x, batches[k])
    BY <2>1 DEF InBlock
  <2>3. PICK i \in 1..Len(order) : x = sims[order[i]].op /\ ~TooBig(x)
    BY <1>6, <1>7, <2>2
  <2> QED BY <1>5, <2>1, <2>3
<1>11. \A j : ~InRound(j)
  BY <1>1 DEF InRound
<1>12. Sole => Sole'
  <2>1. \A o \in failed' : o \in failed \/ TooBig(o)
    BY <1>1
  <2>2. \A o : HandedOver(o)' => HandedOver(o)
    BY <1>1 DEF HandedOver, InBlock
  <2> QED BY <1>1, <1>11, <2>1, <2>2, SoleRests
<1> DEFINE B == {o \in {sims[j].op : j \in DoneJobs} : TooBig(o)}
<1>13. B \in SUBSET quote.ops /\ failed' = failed \cup B
  BY <1>1, <1>4
<1>14. Calm => \A o \in B : ~HandedOver(o)
  BY <1>3, <1>11 DEF Accounted, Sole
<1>15. scheduled = {} => B = {}
  BY <1>3 DEF Accounted, Quiet
<1> HIDE DEF B
<1>16. scheduled' = {} => Quiet'
  <2> SUFFICES ASSUME scheduled = {}
               PROVE  /\ \A j \in Slots : sims[j].st = "free"
                      /\ \A o \in quote.ops : strays[o] = "none"
                      /\ failed' = {} /\ blocks = <<>>
    BY <1>1 DEF Quiet, Slots
  <2> QED BY <1>13, <1>15 DEF Accounted, Quiet
<1>17. Accounted'
  <2>1. \A r \in scheduled' : req'[r] = "done"
    BY <1>1 DEF Accounted
  <2>2. Calm' => Calm
    BY <1>1 DEF Calm
  <2>3. Calm => Sole' /\ AtOnePlace(bat'.batches)
    BY <1>8, <1>9, <1>12 DEF Accounted
  <2> QED BY <1>10, <1>16, <2>1, <2>2, <2>3 DEF Accounted
<1>18. CASE scheduled = {}
  <2>1. failed' = failed
    BY <1>13, <1>15, <1>18
  <2> QED BY <1>1, <1>17, <2>1, SameTimes, NothingSeen
<1>19. CASE scheduled # {}
  <2>1. Promise!Reject
    BY <1>1, <1>13, <1>14, <1>19, SameTimes, RejectSeen
  <2> QED BY <1>17, <2>1 DEF Promise!Next
<1> QED BY <1>18, <1>19

\* A userOp of the round belongs to a completed job, and has no error and no block yet.
LEMMA RoundIsOpen ==
  ASSUME IInv, Accounted, bat.pc = "hand", NEW o, NEW k \in 1..Len(bat.batches),
         InBlock(o, bat.batches[k])
  PROVE  /\ \E j \in bat.jobs : j \in Slots /\ Live(sims[j]) /\ sims[j].op = o /\ o \in quote.ops
         /\ scheduled # {}
         /\ Calm => ~HandedOver(o) /\ o \notin failed
<1>1. PICK m \in 1..Len(bat.batches[k].ops) : bat.batches[k].ops[m] = o
  BY DEF InBlock
<1>2. ~TooBig(o) /\ \E j \in bat.jobs : sims[j].op = o
  BY <1>1 DEF Accounted, FromJobs
<1>3. PICK j \in bat.jobs : sims[j].op = o
  BY <1>2
<1>4. j \in Slots /\ sims[j].st = "done" /\ Live(sims[j]) /\ ~InRound(j)
  BY DEF IInv, RoundOK, Live, InRound
<1>5. o \in quote.ops
  BY <1>3, <1>4, JobFields DEF IInv, Okay
<1>6. scheduled # {}
  BY <1>4 DEF Accounted, Quiet
<1>7. Calm => ~HandedOver(o) /\ o \notin failed
  BY <1>2, <1>3, <1>4 DEF Accounted, Sole
<1> QED BY <1>3, <1>4, <1>5, <1>6, <1>7

LEMMA HandSeen ==
  ASSUME IInv, Accounted, bat.pc = "hand", blocks' = blocks \o AsBlocks(bat.batches),
         UNCHANGED <<quote, scheduled, failed, budget>>
  PROVE  Promise!Hand
<1>1. /\ bat.batches \in Seq(Batch) /\ BlocksOK /\ SimTypes
  BY DEF IInv, RoundOK, SimOK
<1>2. PICK bs \in Seq(Batch) : bs = bat.batches
  BY <1>1
<1> DEFINE m == Len(blocks)
<1>3. /\ blocks \in Seq(Block) /\ blocks' \in Seq(Block) /\ m \in Nat /\ Len(blocks') = m + Len(bs)
      /\ \A i \in 1..m : i \in 1..Len(blocks') /\ blocks'[i] = blocks[i]
      /\ \A k \in 1..Len(bs) : m + k \in 1..Len(blocks') /\ blocks'[m + k].ops = bs[k].ops
      /\ \A i \in 1..Len(blocks') : i \in 1..m \/ \E k \in 1..Len(bs) : i = m + k
  BY <1>1, <1>2, Queued
<1>4. PICK cs \in Seq(Block) : cs = blocks'
  BY <1>3
<1>5. \A o : Times(o)' = Cardinality(Places(cs, o))
  BY <1>4 DEF Times, Places, Slots
<1>6. /\ budget.disruption \in Nat /\ quote.faults.disruption \in Nat
      /\ budget.disruption <= quote.faults.disruption
  BY <1>1, QuoteFacts DEF SimTypes, Faults
<1>7. m <= Len(cs) /\ Len(bs) \in Nat
  <2>1. Len(bs) \in Nat
    OBVIOUS
  <2> HIDE DEF m
  <2> QED BY <1>3, <1>4, <2>1
<1> HIDE DEF m
<1>8. ASSUME NEW o \in Ops
      PROVE  \/ Times(o)' = Times(o)
             \/ o \in Accepted /\ Times(o) = 0 /\ o \notin failed /\ Times(o)' = 1
             \/ o \in Accepted /\ budget.disruption < quote.faults.disruption /\ Times(o)' > Times(o)
  <2>1. Times(o) <= Times(o)' /\ Times(o) \in Nat /\ Times(o)' \in Nat
    <3>1. \A i \in 1..Len(blocks) : cs[i].ops = blocks[i].ops
      BY <1>3, <1>4 DEF m
    <3>2. Cardinality(Places(blocks, o)) <= Cardinality(Places(cs, o))
      BY <1>3, <1>7, <3>1, PlacesGrow DEF m
    <3>3. Cardinality(Places(blocks, o)) \in Nat /\ Cardinality(Places(cs, o)) \in Nat
      BY <1>3, PlacesCount
    <3> QED BY <1>5, <3>2, <3>3 DEF Times
  \* A place in the queue is one of before, or one in a batch.
  <2>2. ASSUME NEW x \in Places(cs, o)
        PROVE  \/ x \in Places(blocks, o)
               \/ \E k \in 1..Len(bs) :
                    x[1] = m + k /\ x[2] \in 1..Len(bs[k].ops) /\ bs[k].ops[x[2]] = o
    <3>1. /\ x \in (1..Len(cs)) \X Slots /\ x[1] \in 1..Len(cs) /\ x[2] \in Slots
          /\ x[2] <= Len(cs[x[1]].ops) /\ cs[x[1]].ops[x[2]] = o
      BY DEF Places
    <3>2. CASE x[1] \in 1..m
      <4>1. cs[x[1]] = blocks[x[1]] /\ x \in (1..Len(blocks)) \X Slots
        BY <1>3, <1>4, <3>1, <3>2 DEF m
      <4> QED BY <3>1, <4>1 DEF Places
    <3>3. ASSUME NEW k \in 1..Len(bs), x[1] = m + k
          PROVE  x[2] \in 1..Len(bs[k].ops) /\ bs[k].ops[x[2]] = o
      <4>1. cs[x[1]].ops = bs[k].ops
        BY <1>3, <1>4, <3>3
      <4>2. Len(bs[k].ops) \in Nat
        BY DEF Batch
      <4> QED BY <3>1, <4>1, <4>2 DEF Slots
    <3> QED BY <1>3, <1>4, <3>1, <3>2, <3>3
  <2>3. CASE \A k \in 1..Len(bs) : ~InBlock(o, bs[k])
    <3>1. Places(cs, o) \in SUBSET Places(blocks, o)
      BY <2>2, <2>3 DEF InBlock
    <3>2. Cardinality(Places(cs, o)) <= Cardinality(Places(blocks, o))
      BY <1>3, <3>1, PlacesFinite, FS_Subset
    <3> QED BY <1>5, <2>1, <3>2 DEF Times
  <2>4. ASSUME NEW k \in 1..Len(bs), InBlock(o, bs[k])
        PROVE  \/ Times(o)' = Times(o)
               \/ o \in Accepted /\ Times(o) = 0 /\ o \notin failed /\ Times(o)' = 1
               \/ o \in Accepted /\ budget.disruption < quote.faults.disruption /\ Times(o)' > Times(o)
    <3>1. o \in Accepted /\ (Calm => ~HandedOver(o) /\ o \notin failed)
      BY <1>2, <2>4, RoundIsOpen DEF Accepted
    <3>2. CASE ~Calm
      BY <1>6, <2>1, <3>1, <3>2 DEF Calm
    <3>3. CASE Calm
      <4>1. Times(o) = 0 /\ Places(blocks, o) = {}
        <5>1. \A i \in 1..Len(blocks) : ~InBlock(o, blocks[i])
          BY <3>1, <3>3 DEF HandedOver
        <5>2. Cardinality(Places(blocks, o)) = 0 /\ IsFiniteSet(Places(blocks, o))
          BY <1>3, <5>1, PlacesCount, PlacesFinite
        <5> QED BY <5>2, FS_EmptySet DEF Times
      <4>2. AtOnePlace(bs)
        BY <1>2, <3>3 DEF Accounted
      <4>3. ASSUME NEW x \in Places(cs, o), NEW y \in Places(cs, o) PROVE x = y
        <5>1. PICK i \in 1..Len(bs) :
                x[1] = m + i /\ x[2] \in 1..Len(bs[i].ops) /\ bs[i].ops[x[2]] = o
          BY <2>2, <4>1
        <5>2. PICK l \in 1..Len(bs) :
                y[1] = m + l /\ y[2] \in 1..Len(bs[l].ops) /\ bs[l].ops[y[2]] = o
          BY <2>2, <4>1
        <5>3. \A p \in 1..Len(bs[i].ops), q \in 1..Len(bs[l].ops) :
                bs[i].ops[p] = bs[l].ops[q] => i = l /\ p = q
          BY <4>2 DEF AtOnePlace
        <5>4. x[1] = y[1] /\ x[2] = y[2]
          BY <5>1, <5>2, <5>3
        <5>5. x \in (1..Len(cs)) \X Slots /\ y \in (1..Len(cs)) \X Slots
          BY DEF Places
        <5> QED BY <5>4, <5>5
      <4>4. Times(o)' \in {0, 1}
        BY <1>5, <4>3, PlacesCount
      <4> QED BY <3>1, <3>3, <4>1, <4>4
    <3> QED BY <3>2, <3>3
  <2> QED BY <2>3, <2>4
<1> QED BY <1>8 DEF Promise!Hand, Promise!Open, Accepted

\* The round is over: no more userOps to come from jobs.
LEMMA RoundOver == ASSUME bat' = IdleBatcher PROVE FromJobs' /\ \A j : ~InRound(j)'
BY DEF IdleBatcher, FromJobs, InRound

LEMMA HandKeeps ==
  ASSUME IInv, Accounted, Hand PROVE Accounted' /\ [Promise!Next]_(Promise!vars)
<1>1. /\ bat.pc = "hand" /\ SimOK' /\ SimOK /\ UNCHANGED <<quote, req, scheduled, failed, sims, strays>>
      /\ bat.batches \in Seq(Batch) /\ BlocksOK
      /\ \A k \in 1..Len(bat.batches) : Fits(bat.batches[k])
  BY HandStep DEF Hand, world, intake, IInv, RoundOK
<1>2. CASE blocks' = blocks \o AsBlocks(bat.batches) /\ bat' = [bat EXCEPT !.pc = "remove"] /\ NoFault
  <2>1. /\ budget' = budget /\ bat'.pc = "remove" /\ bat'.jobs = bat.jobs
    BY <1>1, <1>2 DEF NoFault, IInv, RoundOK
  <2>2. PICK bs \in Seq(Batch) : bs = bat.batches
    BY <1>1
  <2>3. \A o : HandedOver(o)' <=> HandedOver(o) \/ \E k \in 1..Len(bs) : InBlock(o, bs[k])
    <3>1. (\A k \in 1..Len(bs) : Fits(bs[k])) /\ blocks' = blocks \o AsBlocks(bs)
      BY <1>1, <1>2, <2>2
    <3> QED BY <1>1, <3>1, QueueFacts
  <2>4. \A o : (\E k \in 1..Len(bs) : InBlock(o, bs[k])) =>
               \E j \in bat.jobs : j \in Slots /\ Live(sims[j]) /\ sims[j].op = o
    BY <1>1, <2>2, RoundIsOpen
  <2>5. FromJobs' /\ \A r \in scheduled' : req'[r] = "done"
    BY <1>1, <2>1 DEF FromJobs, Accounted
  <2>6. ASSUME Sole PROVE Sole'
    <3>1. ASSUME NEW i \in Slots, Live(sims[i]), ~InRound(i)' PROVE ~HandedOver(sims[i].op)'
      <4>1. PICK o : o = sims[i].op
        OBVIOUS
      <4>2. i \notin bat.jobs
        BY <2>1, <3>1 DEF InRound
      <4>3. ~HandedOver(o)
        BY <1>1, <2>6, <3>1, <4>1 DEF Sole, InRound
      <4>4. ~\E k \in 1..Len(bs) : InBlock(o, bs[k])
        <5>1. ~\E j \in bat.jobs : j \in Slots /\ Live(sims[j]) /\ sims[j].op = o
          BY <2>6, <3>1, <4>1, <4>2 DEF Sole
        <5> QED BY <2>4, <5>1
      <4>5. ~HandedOver(o)'
        BY <2>3, <4>3, <4>4
      <4> QED BY <1>1, <4>1, <4>5 DEF HandedOver, InBlock
    <3>2. /\ \A o \in quote.ops : strays[o] = "none"
          /\ \A i, k \in Slots : Live(sims[i]) /\ Live(sims[k]) /\ sims[i].op = sims[k].op => i = k
          /\ \A i \in Slots : Live(sims[i]) => sims[i].op \notin failed \/ TooBig(sims[i].op)
      BY <2>6 DEF Sole
    <3> SUFFICES
          /\ \A o \in quote'.ops : strays'[o] = "none"
          /\ \A i, k \in Slots : Live(sims'[i]) /\ Live(sims'[k]) /\ sims'[i].op = sims'[k].op => i = k
          /\ \A i \in Slots : Live(sims'[i]) => sims'[i].op \notin failed' \/ TooBig(sims'[i].op)
          /\ \A i \in Slots : Live(sims'[i]) /\ ~InRound(i)' => ~HandedOver(sims[i].op)'
      BY DEF Sole, Slots, Live, TooBig
    <3> QED BY <1>1, <3>1, <3>2
  <2>7. ASSUME scheduled = {} PROVE Quiet'
    <3>1. ASSUME NEW k \in 1..Len(bs) PROVE FALSE
      <4>1. bs[k] \in Batch /\ bs[k].ops # <<>>
        BY <1>1, <2>2 DEF Fits
      <4>2. PICK ops \in Seq(Ops) : ops = bs[k].ops /\ ops # <<>>
        BY <4>1 DEF Batch
      <4>3. 1 \in 1..Len(ops)
        BY <4>2
      <4>4. \E o : InBlock(o, bs[k])
        BY <4>2, <4>3 DEF InBlock
      <4> QED BY <1>1, <2>2, <2>7, <4>4, RoundIsOpen
    <3>2. bs = <<>>
      <4>1. Len(bs) = 0
        <5>1. Len(bs) \in Nat
          OBVIOUS
        <5> QED BY <3>1, <5>1
      <4> QED BY <4>1
    <3>3. blocks' = <<>>
      <4>1. blocks = <<>>
        BY <2>7 DEF Accounted, Quiet
      <4>2. AsBlocks(<<>>) = <<>>
        BY DEF AsBlocks
      <4> QED BY <1>2, <2>2, <3>2, <4>1, <4>2
    <3> SUFFICES /\ \A j \in Slots : sims[j].st = "free"
                 /\ \A o \in quote.ops : strays[o] = "none"
                 /\ failed = {}
      BY <1>1, <3>3 DEF Quiet, Slots
    <3> QED BY <2>7 DEF Accounted, Quiet
  <2>8. Accounted'
    <3>1. Calm' => Calm
      BY <1>1, <2>1 DEF Calm
    <3> QED BY <1>1, <2>1, <2>5, <2>6, <2>7, <3>1 DEF Accounted
  <2>9. Promise!Hand
    BY <1>1, <1>2, <2>1, HandSeen
  <2> QED BY <2>8, <2>9 DEF Promise!Next
<1>3. CASE Spend("disruption") /\ bat' = IdleBatcher /\ UNCHANGED blocks
  <2>1. budget'.disruption < budget.disruption /\ FromJobs'
    BY <1>1, <1>3, SpendSeen, RoundOver
  <2>2. scheduled = {} => Quiet'
    <3> SUFFICES ASSUME scheduled = {}
                 PROVE  /\ \A j \in Slots : sims[j].st = "free"
                        /\ \A o \in quote.ops : strays[o] = "none"
                        /\ failed = {} /\ blocks = <<>>
      BY <1>1, <1>3 DEF Quiet, Slots
    <3> QED BY DEF Accounted, Quiet
  <2>3. \A r \in scheduled : req'[r] = "done"
    BY <1>1 DEF Accounted
  <2> QED BY <1>1, <1>3, <2>1, <2>2, <2>3, DisruptionKeeps
<1> QED BY <1>2, <1>3 DEF Hand

LEMMA RemoveKeeps ==
  ASSUME IInv, Accounted, RemoveJobs PROVE Accounted' /\ [Promise!Next]_(Promise!vars)
<1>1. /\ bat.pc = "remove" /\ bat' = IdleBatcher /\ SimOK' /\ SimOK
      /\ UNCHANGED <<quote, req, scheduled, failed, strays, blocks>>
  BY RemoveStep DEF RemoveJobs, world, intake, IInv
<1>2. PICK R \in SUBSET bat.jobs :
       /\ IF R = bat.jobs THEN NoFault ELSE Spend("disruption")
       /\ sims' = [j \in Slots |-> IF j \in R THEN FreeJob ELSE sims[j]]
  BY DEF RemoveJobs
<1>3. \A i \in Slots : sims'[i] = IF i \in R THEN FreeJob ELSE sims[i]
  BY <1>2
<1>4. \A i \in Slots : sims[i].st = "free" => sims'[i].st = "free"
  BY <1>3, FreeJobFacts
<1>5. scheduled = {} => Quiet'
  <2> SUFFICES ASSUME scheduled = {}
               PROVE  /\ \A j \in Slots : sims'[j].st = "free"
                      /\ \A o \in quote.ops : strays[o] = "none"
                      /\ failed = {} /\ blocks = <<>>
    BY <1>1 DEF Quiet, Slots
  <2> QED BY <1>4 DEF Accounted, Quiet
<1>6. FromJobs' /\ (\A r \in scheduled : req'[r] = "done") /\ \A j : ~InRound(j)'
  BY <1>1, RoundOver DEF Accounted
<1>7. CASE R = bat.jobs
  <2>1. budget' = budget
    BY <1>2, <1>7 DEF NoFault
  <2>2. \A i \in Slots : Live(sims'[i]) => sims'[i] = sims[i] /\ Live(sims[i]) /\ ~InRound(i)
    BY <1>3, <1>7, FreeJobFacts DEF Live, InRound
  <2>3. ASSUME Sole PROVE Sole'
    <3>1. ASSUME NEW i \in Slots, Live(sims'[i]) PROVE ~HandedOver(sims[i].op)'
      <4>1. PICK o : o = sims[i].op
        OBVIOUS
      <4>2. ~HandedOver(o)
        BY <2>2, <2>3, <3>1, <4>1 DEF Sole
      <4> QED BY <1>1, <2>2, <3>1, <4>1, <4>2 DEF HandedOver, InBlock
    <3>2. /\ \A o \in quote.ops : strays[o] = "none"
          /\ \A i, k \in Slots : Live(sims[i]) /\ Live(sims[k]) /\ sims[i].op = sims[k].op => i = k
          /\ \A i \in Slots : Live(sims[i]) => sims[i].op \notin failed \/ TooBig(sims[i].op)
      BY <2>3 DEF Sole
    <3> SUFFICES
          /\ \A o \in quote'.ops : strays'[o] = "none"
          /\ \A i, k \in Slots : Live(sims'[i]) /\ Live(sims'[k]) /\ sims'[i].op = sims'[k].op => i = k
          /\ \A i \in Slots : Live(sims'[i]) => sims'[i].op \notin failed' \/ TooBig(sims'[i].op)
          /\ \A i \in Slots : Live(sims'[i]) /\ ~InRound(i)' => ~HandedOver(sims[i].op)'
      BY DEF Sole, Slots, Live, TooBig
    <3> QED BY <1>1, <2>2, <3>1, <3>2
  <2>4. Accounted'
    <3>1. Calm' => Calm
      BY <1>1, <2>1 DEF Calm
    <3>2. bat'.pc # "hand"
      BY <1>1 DEF IdleBatcher
    <3> QED BY <1>1, <1>5, <1>6, <2>3, <3>1, <3>2 DEF Accounted
  <2> QED BY <1>1, <2>1, <2>4, SameTimes, NothingSeen
<1>8. CASE R # bat.jobs
  <2>1. budget'.disruption < budget.disruption
    BY <1>1, <1>2, <1>8, SpendSeen
  <2> QED BY <1>1, <1>5, <1>6, <2>1, DisruptionKeeps
<1> QED BY <1>7, <1>8

LEMMA TakeBlockKeeps ==
  ASSUME IInv, Accounted, TakeBlock PROVE Accounted' /\ [Promise!Next]_(Promise!vars)
<1>1. UNCHANGED <<quote, req, scheduled, failed, sims, strays, budget, bat>>
  BY DEF TakeBlock, simVars, world, intake
<1>2. /\ blocks \in Seq(Block) /\ blocks' \in Seq(Block) /\ Len(blocks') = Len(blocks)
      /\ Len(blocks) \in Nat /\ blocks # <<>>
      /\ \A k \in 1..Len(blocks) : blocks'[k].ops = blocks[k].ops
  BY TakenBlock DEF IInv
<1>3. scheduled # {}
  BY <1>2 DEF Accounted, Quiet
<1>4. \A o : HandedOver(o)' => HandedOver(o)
  BY <1>2 DEF HandedOver, InBlock
<1>5. Sole => Sole'
  BY <1>1, <1>4, SoleRests DEF InRound
<1>6. FromJobs'
  <2> SUFFICES ASSUME bat.pc = "hand", NEW k \in 1..Len(bat.batches), NEW m \in 1..Len(bat.batches[k].ops)
               PROVE  /\ ~TooBig(bat.batches[k].ops[m])
                      /\ \E j \in bat.jobs : sims[j].op = bat.batches[k].ops[m]
    BY <1>1 DEF FromJobs, TooBig
  <2> QED BY DEF Accounted, FromJobs
<1>7. Accounted'
  <2>1. Calm' => Calm
    BY <1>1 DEF Calm
  <2> QED BY <1>1, <1>3, <1>5, <1>6, <2>1 DEF Accounted
<1>8. \A o \in Ops : Times(o)' = Times(o)
  <2> SUFFICES ASSUME NEW o \in Ops PROVE Times(o)' = Times(o)
    OBVIOUS
  <2>1. PICK cs \in Seq(Block) : cs = blocks'
    BY <1>2
  <2>2. Places(cs, o) = Places(blocks, o)
    <3>1. Len(blocks) <= Len(cs) /\ Len(blocks) = Len(cs) /\ \A k \in 1..Len(blocks) : cs[k].ops = blocks[k].ops
      BY <1>2, <2>1
    <3> QED BY <1>2, <3>1, PlacesGrow
  <2>3. Times(o)' = Cardinality(Places(cs, o))
    BY <2>1 DEF Times, Places, Slots
  <2> QED BY <2>2, <2>3 DEF Times
<1> QED BY <1>1, <1>7, <1>8, NothingSeen

LEMMA CrashKeeps ==
  ASSUME IInv, Accounted, NodeCrash PROVE Accounted' /\ [Promise!Next]_(Promise!vars)
<1>1. /\ Spend("disruption") /\ sims' = Changed(LostJobs) /\ strays' = [o \in quote.ops |-> "none"]
      /\ bat' = IdleBatcher /\ UNCHANGED <<quote, scheduled, failed, blocks>>
      /\ req' = [r \in Requests |-> IF req[r] \in {"checked", "stored"} THEN "dead" ELSE req[r]]
  BY DEF NodeCrash, world
<1>2. SimOK /\ SimOK' /\ SimTypes /\ scheduled \subseteq Requests
  BY CrashStep DEF IInv, SimOK, SimTypes
<1>3. budget'.disruption < budget.disruption /\ FromJobs'
  BY <1>1, <1>2, SpendSeen, RoundOver
<1>4. \A r \in scheduled : req'[r] = "done"
  BY <1>1, <1>2 DEF Accounted
<1>5. scheduled = {} => Quiet'
  <2> SUFFICES ASSUME scheduled = {}
               PROVE  /\ \A j \in Slots : sims'[j].st = "free"
                      /\ \A o \in quote.ops : strays'[o] = "none"
                      /\ failed = {} /\ blocks = <<>>
    BY <1>1 DEF Quiet, Slots
  <2>1. /\ \A j \in Slots : sims[j].st = "free"
        /\ failed = {} /\ blocks = <<>>
    BY DEF Accounted, Quiet
  <2>2. \A j \in Slots : sims'[j] = sims[j]
    BY <1>1, <2>1 DEF Changed, LostJobs
  <2> QED BY <1>1, <2>1, <2>2
<1> QED BY <1>1, <1>2, <1>3, <1>4, <1>5, DisruptionKeeps

-----------------------------------------------------------------------------
(* The promise is kept *)

LEMMA InitAccounted == ASSUME Init PROVE Accounted /\ Promise!Init
<1>1. /\ quote \in Quotes /\ budget = quote.faults /\ quote.faults.disruption \in Nat
      /\ sims = [j \in Slots |-> FreeJob] /\ strays = [o \in quote.ops |-> "none"]
      /\ scheduled = {} /\ failed = {} /\ bat.pc = "idle" /\ blocks = <<>>
  BY QuoteFacts DEF Init, SimInit, IdleBatcher, Faults
<1>2. Len(blocks) = 0 /\ \A o : ~HandedOver(o)
  BY <1>1 DEF HandedOver
<1>3. Quiet /\ FromJobs
  BY <1>1, FreeJobFacts DEF Quiet, FromJobs
<1>4. Sole
  BY <1>1, <1>2, FreeJobFacts DEF Sole, Live
<1>5. Accounted
  BY <1>1, <1>3, <1>4 DEF Accounted
<1>6. \A o \in Ops : Times(o) = 0
  <2>1. blocks \in Seq(Block) /\ \A o, k : k \in 1..Len(blocks) => ~InBlock(o, blocks[k])
    BY <1>1, <1>2
  <2> QED BY <2>1, PlacesCount DEF Times
<1>7. Accepted = {} /\ ~(budget.disruption < quote.faults.disruption)
  BY <1>1 DEF Accepted
<1>8. Promise!Init
  BY <1>1, <1>6, <1>7 DEF Promise!Init
<1> QED BY <1>5, <1>8

LEMMA StepAccounted ==
  ASSUME OneRequest, IInv, Accounted, [Next]_vars
  PROVE  Accounted' /\ [Promise!Next]_(Promise!vars)
<1>1. CASE UNCHANGED vars
  <2>1. /\ NoFault /\ failed' = failed /\ UNCHANGED <<world, intake, sims, strays, bat, blocks>>
        /\ UNCHANGED <<quote, req, scheduled>> /\ budget'.disruption = budget.disruption
    BY <1>1 DEF vars, simVars, world, intake, NoFault
  <2>2. SimOK' /\ Moves
    BY <2>1, SimulatorRests DEF IInv, SimOK, SimTypes
  <2>3. \A r \in scheduled : req'[r] = "done"
    BY <2>1 DEF Accounted
  <2> QED BY <2>1, <2>2, <2>3, StillKeeps
<1>2. CASE SimStep /\ UNCHANGED <<bat, blocks>>
  BY <1>2, SimStepKeeps
<1>3. CASE BatcherStep
  BY <1>3, CountKeeps, FetchKeeps, HandKeeps, RemoveKeeps DEF BatcherStep
<1>4. CASE TakeBlock \/ NodeCrash
  BY <1>4, TakeBlockKeeps, CrashKeeps
<1> QED BY <1>1, <1>2, <1>3, <1>4 DEF Next

\* From executeQuote to the executor queue each userOp taken on is handed over once or
\* rejected with an error, never both, until a process dies or a call of Redis fails; after
\* that it may be handed over again or get an error as well, and nothing is taken back. For
\* one request: two that execute one quote may both get past hasQuote.
THEOREM KeptPromise == ASSUME OneRequest PROVE Spec => Promise!Safety
<1>1. Accounted /\ IInv /\ [Next]_vars => Accounted' /\ [Promise!Next]_(Promise!vars)
  BY StepAccounted
<1>2. Init => Accounted /\ Promise!Init
  BY InitAccounted
<1> QED BY Inductive, <1>1, <1>2, PTL DEF Spec, Promise!Safety
=============================================================================
