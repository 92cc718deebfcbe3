-------------------------- MODULE ComposableProofs --------------------------
(***************************************************************************)
(* What a running batch captured stays in Storage, for any accounts,       *)
(* batches, calls and any depth of batches inside each other.              *)
(*                                                                         *)
(* CapturesStay alone is not inductive: a revert brings Storage back to    *)
(* what it was when the batch began, and a capture writes the namespace    *)
(* of the top batch.  So every frame must have started from a Storage that *)
(* held what the frames below claim (SavedInv), and no frame below shares  *)
(* a namespace with one above it while it claims anything (SpaceInv).      *)
(***************************************************************************)
EXTENDS ComposableExecution, TLAPS

\* A record with the fields of a frame; only the account and the mode need a type.
IsFrame(f) ==
  /\ f.acct \in Accounts
  /\ f.mode \in {"call", "delegate"}
  /\ f = [acct |-> f.acct, mode |-> f.mode, batch |-> f.batch, at |-> f.at, pc |-> f.pc,
          out |-> f.out, args |-> f.args, ret |-> f.ret, saved |-> f.saved,
          captured |-> f.captured]

FrameInv ==
  /\ depth \in 0..MaxDepth
  /\ \A i \in Levels : IsFrame(frames[i])

SavedInv ==
  \A i, j \in 1..depth : i < j =>
    \A s \in Slots : frames[i].captured[s] # Unset =>
      frames[j].saved.store[Key(frames[i], s)] = frames[i].captured[s]

SpaceInv ==
  \A i, j \in 1..depth : i < j /\ SameSpace(frames[i], frames[j]) =>
    \A s \in Slots : frames[i].captured[s] = Unset

CaptureInv == FrameInv /\ SavedInv /\ SpaceInv /\ CapturesStay

\* Same claim on Storage.
Alike(f, g) == f.acct = g.acct /\ f.mode = g.mode /\ f.captured = g.captured /\ f.saved = g.saved

LEMMA AlikeKeys ==
  ASSUME NEW f, NEW g, Alike(f, g), NEW s
  PROVE  Key(f, s) = Key(g, s)
BY DEF Alike, Key, Caller

LEMMA AlikeSpaces ==
  ASSUME NEW f, NEW g, NEW f2, NEW g2, Alike(f, g), Alike(f2, g2)
  PROVE  SameSpace(f, f2) <=> SameSpace(g, g2)
BY DEF Alike, SameSpace, Caller

LEMMA KeyInKeys ==
  ASSUME NEW f, IsFrame(f), NEW s \in Slots
  PROVE  Key(f, s) \in Keys
BY DEF IsFrame, Key, Keys, Callers, Caller

\* Keys of different slots or namespaces differ.
LEMMA KeysApart ==
  ASSUME NEW f, NEW g, NEW s, NEW t, Key(f, s) = Key(g, t)
  PROVE  SameSpace(f, g) /\ s = t
BY DEF Key, SameSpace

LEMMA LevelsOfDepth ==
  ASSUME FrameInv
  PROVE  1..depth \subseteq Levels /\ depth \in Nat /\ (depth > 0 => depth \in 1..depth)
BY ComposableConstantsOK DEF FrameInv, Levels

-----------------------------------------------------------------------------
(* Steps that move only the top frame along *)

LEMMA MovedTop ==
  ASSUME CaptureInv, depth > 0, NEW f, SetTop(f), IsFrame(f), Alike(f, Top),
         UNCHANGED <<store, depth>>
  PROVE  CaptureInv'
<1>1. 1..depth \subseteq Levels /\ depth \in Nat /\ depth \in 1..depth
  BY LevelsOfDepth DEF CaptureInv
<1>2. \A i \in Levels : frames'[i] = IF i = depth THEN f ELSE frames[i]
  BY DEF SetTop
<1>3. \A i \in Levels : Alike(frames'[i], frames[i])
  BY <1>2 DEF Top, Alike
<1>4. FrameInv'
  BY <1>2 DEF FrameInv, CaptureInv, Levels
<1>5. \A i \in Levels, s \in Slots : Key(frames'[i], s) = Key(frames[i], s)
  BY <1>3, AlikeKeys
<1>6. SavedInv'
  BY <1>1, <1>3, <1>5 DEF SavedInv, CaptureInv, Alike
<1>7. SpaceInv'
  BY <1>1, <1>3, AlikeSpaces DEF SpaceInv, CaptureInv, Alike
<1>8. CapturesStay'
  BY <1>1, <1>3, <1>5 DEF CapturesStay, CaptureInv, Alike
<1> QED
  BY <1>4, <1>6, <1>7, <1>8 DEF CaptureInv

\* Moving a frame along changes nothing that Alike compares.
LEMMA MovedFrame ==
  ASSUME NEW g, IsFrame(g), NEW x
  PROVE  /\ IsFrame([g EXCEPT !.at = x])   /\ Alike([g EXCEPT !.at = x], g)
         /\ IsFrame([g EXCEPT !.pc = x])   /\ Alike([g EXCEPT !.pc = x], g)
         /\ IsFrame([g EXCEPT !.out = x])  /\ Alike([g EXCEPT !.out = x], g)
         /\ IsFrame([g EXCEPT !.args = x]) /\ Alike([g EXCEPT !.args = x], g)
         /\ IsFrame([g EXCEPT !.ret = x])  /\ Alike([g EXCEPT !.ret = x], g)
<1>1. IsFrame([g EXCEPT !.at = x]) /\ Alike([g EXCEPT !.at = x], g)
  BY DEF IsFrame, Alike
<1>2. IsFrame([g EXCEPT !.pc = x]) /\ Alike([g EXCEPT !.pc = x], g)
  BY DEF IsFrame, Alike
<1>3. IsFrame([g EXCEPT !.out = x]) /\ Alike([g EXCEPT !.out = x], g)
  BY DEF IsFrame, Alike
<1>4. IsFrame([g EXCEPT !.args = x]) /\ Alike([g EXCEPT !.args = x], g)
  BY DEF IsFrame, Alike
<1>5. IsFrame([g EXCEPT !.ret = x]) /\ Alike([g EXCEPT !.ret = x], g)
  BY DEF IsFrame, Alike
<1> QED
  BY <1>1, <1>2, <1>3, <1>4, <1>5

LEMMA InputsKeeps == CaptureInv /\ Inputs => CaptureInv'
<1> SUFFICES ASSUME CaptureInv, Inputs PROVE CaptureInv'
  OBVIOUS
<1>1. IsFrame(Top) /\ depth > 0 /\ UNCHANGED <<store, depth>>
  BY LevelsOfDepth DEF CaptureInv, FrameInv, Inputs, Top
<1>2. PICK x, y, z, u : SetTop([Top EXCEPT !.args = x, !.ret = y, !.out = z, !.pc = u])
  BY DEF Inputs
<1> DEFINE f1 == [Top EXCEPT !.args = x]
           f2 == [f1 EXCEPT !.ret = y]
           f3 == [f2 EXCEPT !.out = z]
           f4 == [f3 EXCEPT !.pc = u]
<1>3. SetTop(f4)
  BY <1>2
<1>4. IsFrame(f1) /\ Alike(f1, Top)
  BY <1>1, MovedFrame
<1> HIDE DEF f1
<1>5. IsFrame(f2) /\ Alike(f2, f1)
  BY <1>4, MovedFrame
<1> HIDE DEF f2
<1>6. IsFrame(f3) /\ Alike(f3, f2)
  BY <1>5, MovedFrame
<1> HIDE DEF f3
<1>7. IsFrame(f4) /\ Alike(f4, f3)
  BY <1>6, MovedFrame
<1> HIDE DEF f4
<1>8. Alike(f4, Top)
  BY <1>4, <1>5, <1>6, <1>7 DEF Alike
<1> QED
  BY <1>1, <1>3, <1>7, <1>8, MovedTop

LEMMA ReturnKeeps == CaptureInv /\ Return => CaptureInv'
<1> SUFFICES ASSUME CaptureInv, Return PROVE CaptureInv'
  OBVIOUS
<1>1. IsFrame(Top) /\ depth > 0 /\ UNCHANGED <<store, depth>>
  BY LevelsOfDepth DEF CaptureInv, FrameInv, Return, Top
<1>2. PICK r : SetTop([Top EXCEPT !.pc = "outputs", !.ret = r])
  BY DEF Return
<1> DEFINE f1 == [Top EXCEPT !.pc = "outputs"]
           f2 == [f1 EXCEPT !.ret = r]
<1>3. SetTop(f2)
  BY <1>2
<1>4. IsFrame(f1) /\ Alike(f1, Top)
  BY <1>1, MovedFrame
<1> HIDE DEF f1
<1>5. IsFrame(f2) /\ Alike(f2, f1)
  BY <1>4, MovedFrame
<1> HIDE DEF f2
<1>6. Alike(f2, Top)
  BY <1>4, <1>5 DEF Alike
<1> QED
  BY <1>1, <1>3, <1>5, <1>6, MovedTop

LEMMA NextEntryKeeps == CaptureInv /\ NextEntry => CaptureInv'
<1> SUFFICES ASSUME CaptureInv, NextEntry PROVE CaptureInv'
  OBVIOUS
<1>1. IsFrame(Top) /\ depth > 0 /\ UNCHANGED <<store, depth>>
  BY LevelsOfDepth DEF CaptureInv, FrameInv, NextEntry, Top
<1>2. SetTop([Top EXCEPT !.pc = "inputs", !.at = Top.at + 1, !.out = 1, !.args = <<>>, !.ret = <<>>])
  BY DEF NextEntry
<1> DEFINE f1 == [Top EXCEPT !.pc = "inputs"]
           f2 == [f1 EXCEPT !.at = Top.at + 1]
           f3 == [f2 EXCEPT !.out = 1]
           f4 == [f3 EXCEPT !.args = <<>>]
           f5 == [f4 EXCEPT !.ret = <<>>]
<1>3. SetTop(f5)
  BY <1>2
<1>4. IsFrame(f1) /\ Alike(f1, Top)
  BY <1>1, MovedFrame
<1> HIDE DEF f1
<1>5. IsFrame(f2) /\ Alike(f2, f1)
  BY <1>4, MovedFrame
<1> HIDE DEF f2
<1>6. IsFrame(f3) /\ Alike(f3, f2)
  BY <1>5, MovedFrame
<1> HIDE DEF f3
<1>7. IsFrame(f4) /\ Alike(f4, f3)
  BY <1>6, MovedFrame
<1> HIDE DEF f4
<1>8. IsFrame(f5) /\ Alike(f5, f4)
  BY <1>7, MovedFrame
<1> HIDE DEF f5
<1>9. Alike(f5, Top)
  BY <1>4, <1>5, <1>6, <1>7, <1>8 DEF Alike
<1> QED
  BY <1>1, <1>3, <1>8, <1>9, MovedTop

-----------------------------------------------------------------------------
(* Batches that start *)

LEMMA PushKeeps ==
  ASSUME CaptureInv, NEW f, IsFrame(f), f.saved.store = store, f.captured = Blank, Push(f),
         UNCHANGED store
  PROVE  CaptureInv'
<1>1. 1..depth \subseteq Levels /\ depth \in Nat
  BY LevelsOfDepth DEF CaptureInv
<1>2. depth' = depth + 1 /\ depth' \in 1..MaxDepth
  BY <1>1, ComposableConstantsOK DEF Push
<1>3. frames'[depth + 1] = f
  BY <1>2 DEF Push, Levels
<1>4. \A i \in 1..depth : frames'[i] = Unclaimed(frames[i], f)
  BY <1>1 DEF Push
<1>5. \A i \in Levels : IsFrame(frames[i])
  BY DEF CaptureInv, FrameInv
<1>6. \A g : IsFrame(g) => /\ IsFrame(Unclaimed(g, f))
                           /\ Unclaimed(g, f).acct = g.acct
                           /\ Unclaimed(g, f).mode = g.mode
                           /\ Unclaimed(g, f).saved = g.saved
                           /\ SameSpace(g, f) => Unclaimed(g, f).captured = Blank
                           /\ ~SameSpace(g, f) => Unclaimed(g, f) = g
  BY DEF IsFrame, Unclaimed
<1>7. FrameInv'
  <2>1. depth' \in 0..MaxDepth
    BY <1>2
  <2>2. ASSUME NEW i \in Levels PROVE IsFrame(frames'[i])
    <3>1. frames'[i] \in {f, Unclaimed(frames[i], f), frames[i]}
      BY DEF Push
    <3> QED
      BY <3>1, <1>5, <1>6
  <2> QED
    BY <2>1, <2>2 DEF FrameInv, IsFrame, Levels
<1>8. \A i \in 1..depth : /\ frames'[i].acct = frames[i].acct
                          /\ frames'[i].mode = frames[i].mode
                          /\ frames'[i].saved = frames[i].saved
                          /\ SameSpace(frames[i], f) => frames'[i].captured = Blank
                          /\ \A s \in Slots : frames'[i].captured[s] # Unset =>
                               frames'[i].captured[s] = frames[i].captured[s]
  BY <1>1, <1>4, <1>5, <1>6 DEF Blank
<1>9. \A i \in 1..depth, s \in Slots : Key(frames'[i], s) = Key(frames[i], s)
  BY <1>8 DEF Key, Caller
<1>10. \A s \in Slots : f.captured[s] = Unset
  BY DEF Blank
<1>11. \A i \in (1..depth)' : i \in 1..depth \/ i = depth + 1
  BY <1>1, <1>2
<1>12. ASSUME NEW i \in (1..depth)', NEW j \in (1..depth)', i < j PROVE i \in 1..depth
  BY <1>1, <1>2, <1>12
<1>13. SavedInv'
  <2>1. ASSUME NEW i \in (1..depth)', NEW j \in (1..depth)', i < j, NEW s \in Slots,
               frames'[i].captured[s] # Unset
        PROVE  frames'[j].saved.store[Key(frames'[i], s)] = frames'[i].captured[s]
    <3>1. i \in 1..depth
      BY <2>1, <1>12
    <3>2. frames'[i].captured[s] = frames[i].captured[s] /\ Key(frames'[i], s) = Key(frames[i], s)
      BY <2>1, <3>1, <1>8, <1>9
    <3>3. CASE j \in 1..depth
      BY <2>1, <3>1, <3>2, <3>3, <1>8 DEF CaptureInv, SavedInv
    <3>4. CASE j = depth + 1
      BY <2>1, <3>1, <3>2, <3>4, <1>3 DEF CaptureInv, CapturesStay
    <3> QED
      BY <3>3, <3>4, <1>11
  <2> QED
    BY <2>1 DEF SavedInv
<1>14. SpaceInv'
  <2>1. ASSUME NEW i \in (1..depth)', NEW j \in (1..depth)', i < j,
               SameSpace(frames'[i], frames'[j]), NEW s \in Slots
        PROVE  frames'[i].captured[s] = Unset
    <3>1. i \in 1..depth
      BY <2>1, <1>12
    <3>2. CASE j \in 1..depth
      <4>1. SameSpace(frames[i], frames[j])
        BY <2>1, <3>1, <3>2, <1>8 DEF SameSpace, Caller
      <4> QED
        BY <2>1, <3>1, <3>2, <4>1, <1>8 DEF CaptureInv, SpaceInv
    <3>3. CASE j = depth + 1
      <4>1. SameSpace(frames[i], f)
        BY <2>1, <3>1, <3>3, <1>3, <1>8 DEF SameSpace, Caller
      <4> QED
        BY <3>1, <4>1, <1>8 DEF Blank
    <3> QED
      BY <3>2, <3>3, <1>11
  <2> QED
    BY <2>1 DEF SpaceInv
<1>15. CapturesStay'
  <2>1. ASSUME NEW i \in (1..depth)', NEW s \in Slots, frames'[i].captured[s] # Unset
        PROVE  store'[Key(frames'[i], s)] = frames'[i].captured[s]
    <3>1. i \in 1..depth
      BY <2>1, <1>3, <1>10, <1>11
    <3> QED
      BY <2>1, <3>1, <1>8, <1>9 DEF CaptureInv, CapturesStay
  <2> QED
    BY <2>1 DEF CapturesStay
<1> QED
  BY <1>7, <1>13, <1>14, <1>15 DEF CaptureInv

LEMMA BeginKeeps ==
  ASSUME CaptureInv, NEW a \in Accounts, NEW mode \in {"call", "delegate"}, NEW b,
         Begin(a, mode, b)
  PROVE  CaptureInv'
<1> DEFINE f == NewFrame(a, mode, b, [store |-> store, world |-> world'])
<1>1. IsFrame(f) /\ f.saved.store = store /\ f.captured = Blank
  BY DEF NewFrame, IsFrame
<1> QED
  BY <1>1, PushKeeps DEF Begin

LEMMA NestKeeps ==
  ASSUME CaptureInv, NEW a \in Accounts, NEW mode \in {"call", "delegate"}, NEW b,
         Nest(a, mode, b)
  PROVE  CaptureInv'
<1> DEFINE f == NewFrame(a, mode, b, [store |-> store, world |-> world])
<1>1. IsFrame(f) /\ f.saved.store = store /\ f.captured = Blank
  BY DEF NewFrame, IsFrame
<1> QED
  BY <1>1, PushKeeps DEF Nest

-----------------------------------------------------------------------------
(* Batches that end *)

\* The frames that stay are as they were, and Storage holds what they claim.
LEMMA PopKeeps ==
  ASSUME CaptureInv, depth > 0, Pop, IsFrame(NoFrame),
         \A i \in 1..(depth - 1), s \in Slots : frames[i].captured[s] # Unset =>
           store'[Key(frames[i], s)] = frames[i].captured[s]
  PROVE  CaptureInv'
<1>1. 1..depth \subseteq Levels /\ depth \in Nat
  BY LevelsOfDepth DEF CaptureInv
<1>2. \A i \in Levels : frames'[i] = IF i = depth THEN NoFrame ELSE frames[i]
  BY DEF Pop
<1>3. depth' = depth - 1 /\ (1..depth)' = 1..(depth - 1)
  BY DEF Pop
<1>4. \A i \in 1..(depth - 1) : i \in 1..depth /\ i # depth /\ i \in Levels
  BY <1>1
<1>5. \A i \in 1..(depth - 1) : frames'[i] = frames[i]
  BY <1>2, <1>4
<1>6. FrameInv'
  <2>1. \A i \in Levels : IsFrame(frames[i])
    BY DEF CaptureInv, FrameInv
  <2>2. \A i \in Levels : IsFrame(frames'[i])
    BY <1>2, <2>1
  <2>3. depth' \in 0..MaxDepth
    BY <1>3, ComposableConstantsOK DEF CaptureInv, FrameInv
  <2> QED
    BY <2>2, <2>3 DEF FrameInv, Levels, IsFrame
<1>7. SavedInv'
  BY <1>3, <1>4, <1>5 DEF SavedInv, CaptureInv, Key, Caller
<1>8. SpaceInv'
  BY <1>3, <1>4, <1>5 DEF SpaceInv, CaptureInv, SameSpace, Caller
<1>9. CapturesStay'
  BY <1>3, <1>5 DEF CapturesStay, Key, Caller
<1> QED
  BY <1>6, <1>7, <1>8, <1>9 DEF CaptureInv

LEMMA NoFrameIsFrame ==
  ASSUME NEW a \in Accounts
  PROVE  IsFrame(NoFrame)
<1>1. (CHOOSE x \in Accounts : TRUE) \in Accounts
  OBVIOUS
<1> QED
  BY <1>1 DEF NoFrame, NewFrame, IsFrame

\* The account of a running batch is one.
LEMMA NoFrameKept ==
  ASSUME CaptureInv, depth > 0
  PROVE  IsFrame(NoFrame)
<1>1. IsFrame(Top)
  BY LevelsOfDepth DEF CaptureInv, FrameInv, Top
<1> QED
  BY <1>1, NoFrameIsFrame DEF IsFrame

LEMMA RevertKeeps == CaptureInv /\ Revert => CaptureInv'
<1> SUFFICES ASSUME CaptureInv, Revert PROVE CaptureInv'
  OBVIOUS
<1>1. depth > 0 /\ Pop /\ store' = Top.saved.store
  BY DEF Revert
<1>2. depth \in Nat /\ depth \in 1..depth
  BY <1>1, LevelsOfDepth DEF CaptureInv
<1>3. \A i \in 1..(depth - 1) : i \in 1..depth /\ i < depth
  BY <1>2
<1>4. \A i \in 1..(depth - 1), s \in Slots : frames[i].captured[s] # Unset =>
        store'[Key(frames[i], s)] = frames[i].captured[s]
  BY <1>1, <1>2, <1>3 DEF CaptureInv, SavedInv, Top
<1> QED
  BY <1>1, <1>4, NoFrameKept, PopKeeps

LEMMA EndKeeps == CaptureInv /\ End => CaptureInv'
<1> SUFFICES ASSUME CaptureInv, End PROVE CaptureInv'
  OBVIOUS
<1>1. depth > 0 /\ Pop /\ store' = store
  BY DEF End
<1>2. depth \in Nat
  BY LevelsOfDepth DEF CaptureInv
<1>3. \A i \in 1..(depth - 1), s \in Slots : frames[i].captured[s] # Unset =>
        store'[Key(frames[i], s)] = frames[i].captured[s]
  BY <1>1, <1>2 DEF CaptureInv, CapturesStay
<1> QED
  BY <1>1, <1>3, NoFrameKept, PopKeeps

-----------------------------------------------------------------------------
(* Captures *)

LEMMA OutputKeeps == CaptureInv /\ Output => CaptureInv'
<1> SUFFICES ASSUME CaptureInv, Output PROVE CaptureInv'
  OBVIOUS
<1> DEFINE o      == Entry.outputs[Top.out]
           hit(s) == s[1] = o.slot /\ s[2] <= o.count
<1>1. PICK junk \in [1..MaxWords -> Words] :
        /\ store' = [k \in Keys |-> IF \E s \in Slots : hit(s) /\ k = Key(Top, s)
                                      THEN WordAt(Data(o), k[3][2], junk[k[3][2]]) ELSE store[k]]
        /\ SetTop([Top EXCEPT !.out = Top.out + 1,
             !.captured = [s \in Slots |-> IF hit(s) THEN WordAt(Data(o), s[2], junk[s[2]])
                                           ELSE Top.captured[s]]])
  BY DEF Output
<1> DEFINE w(s) == WordAt(Data(o), s[2], junk[s[2]])
           c    == [s \in Slots |-> IF hit(s) THEN w(s) ELSE Top.captured[s]]
           g    == [Top EXCEPT !.out = Top.out + 1]
           f    == [g EXCEPT !.captured = c]
<1>2. depth > 0 /\ depth' = depth
  BY DEF Output
<1>3. 1..depth \subseteq Levels /\ depth \in Nat /\ depth \in 1..depth
  BY <1>2, LevelsOfDepth DEF CaptureInv
<1>4. \A i \in Levels : IsFrame(frames[i])
  BY DEF CaptureInv, FrameInv
<1>5. IsFrame(Top)
  BY <1>3, <1>4 DEF Top
<1> HIDE DEF c
<1>6. IsFrame(f) /\ f.acct = Top.acct /\ f.mode = Top.mode /\ f.saved = Top.saved /\ f.captured = c
  <2>1. IsFrame(g) /\ Alike(g, Top)
    BY <1>5, MovedFrame
  <2> HIDE DEF g
  <2> QED
    BY <2>1 DEF IsFrame, Alike
<1>7. \A i \in Levels : frames'[i] = IF i = depth THEN f ELSE frames[i]
  BY <1>1 DEF SetTop, c
<1> HIDE DEF f
<1>8. \A i \in 1..depth : /\ frames'[i].acct = frames[i].acct
                          /\ frames'[i].mode = frames[i].mode
                          /\ frames'[i].saved = frames[i].saved
                          /\ i # depth => frames'[i].captured = frames[i].captured
  BY <1>3, <1>6, <1>7 DEF Top
<1>9. frames'[depth].captured = c
  BY <1>3, <1>6, <1>7
<1>10. \A i \in 1..depth, s \in Slots : Key(frames'[i], s) = Key(frames[i], s)
  BY <1>8 DEF Key, Caller
<1>11. \A i, j \in 1..depth : i < j => i # depth
  BY <1>3
<1>12. FrameInv'
  BY <1>2, <1>4, <1>6, <1>7 DEF FrameInv, CaptureInv, Levels
<1>13. SavedInv'
  BY <1>2, <1>8, <1>10, <1>11 DEF SavedInv, CaptureInv
<1>14. SpaceInv'
  BY <1>2, <1>8, <1>11 DEF SpaceInv, CaptureInv, SameSpace, Caller
<1>15. CapturesStay'
  <2>1. ASSUME NEW i \in 1..depth, NEW s \in Slots, frames'[i].captured[s] # Unset
        PROVE  store'[Key(frames[i], s)] = frames'[i].captured[s]
    <3>1. Key(frames[i], s) \in Keys
      BY <1>3, <1>4, KeyInKeys
    <3>2. Key(frames[i], s)[3] = s
      BY DEF Key
    <3>3. CASE i = depth /\ hit(s)
      <4>1. Key(frames[i], s) = Key(Top, s)
        BY <3>3 DEF Top
      <4>2. store'[Key(frames[i], s)] = w(s)
        BY <1>1, <3>1, <3>2, <3>3, <4>1
      <4>3. c[s] = w(s)
        BY <3>3 DEF c
      <4> QED
        BY <3>3, <4>2, <4>3, <1>9
    <3>4. CASE i = depth /\ ~hit(s)
      <4>1. ~ \E t \in Slots : hit(t) /\ Key(frames[i], s) = Key(Top, t)
        BY <3>4, KeysApart
      <4>2. store'[Key(frames[i], s)] = store[Key(frames[i], s)]
        BY <1>1, <3>1, <4>1
      <4>3. c[s] = frames[i].captured[s]
        BY <3>4 DEF c, Top
      <4> QED
        BY <2>1, <3>4, <4>2, <4>3, <1>9 DEF CaptureInv, CapturesStay
    <3>5. CASE i # depth
      <4>1. frames'[i].captured = frames[i].captured /\ i < depth
        BY <3>5, <1>3, <1>8
      <4>2. ~SameSpace(frames[i], Top)
        BY <2>1, <4>1, <1>3 DEF CaptureInv, SpaceInv, Top
      <4>3. ~ \E t \in Slots : hit(t) /\ Key(frames[i], s) = Key(Top, t)
        BY <4>2, KeysApart
      <4>4. store'[Key(frames[i], s)] = store[Key(frames[i], s)]
        BY <1>1, <3>1, <4>3
      <4> QED
        BY <2>1, <4>1, <4>4 DEF CaptureInv, CapturesStay
    <3> QED
      BY <3>3, <3>4, <3>5
  <2> QED
    BY <2>1, <1>2, <1>10 DEF CapturesStay
<1> QED
  BY <1>12, <1>13, <1>14, <1>15 DEF CaptureInv

-----------------------------------------------------------------------------
(* The account writes for itself: frames that may claim the slot give it   *)
(* up, and the key belongs to no other claim.                              *)

LEMMA WriteStorageKeeps ==
  ASSUME CaptureInv, NEW a \in Accounts, NEW s \in Slots, NEW w \in Words,
         WriteStorage(a, s, w)
  PROVE  CaptureInv'
<1>1. 1..depth \subseteq Levels /\ depth \in Nat /\ depth' = depth
  BY LevelsOfDepth DEF CaptureInv, WriteStorage
<1>2. \A i \in Levels : IsFrame(frames[i])
  BY DEF CaptureInv, FrameInv
<1>3. \A f : IsFrame(f) => /\ IsFrame(Overwritten(f, a, s))
                           /\ Overwritten(f, a, s).acct = f.acct
                           /\ Overwritten(f, a, s).mode = f.mode
                           /\ Overwritten(f, a, s).saved = f.saved
  BY DEF IsFrame, Overwritten
<1>4. \A i \in 1..depth : frames'[i] = Overwritten(frames[i], a, s)
  BY <1>1 DEF WriteStorage
<1>5. FrameInv'
  <2>1. ASSUME NEW i \in Levels PROVE IsFrame(frames'[i])
    <3>1. frames'[i] \in {Overwritten(frames[i], a, s), frames[i]}
      BY DEF WriteStorage
    <3> QED
      BY <3>1, <1>2, <1>3
  <2> QED
    BY <1>1, <2>1 DEF CaptureInv, FrameInv, IsFrame, Levels
<1>6. \A i \in 1..depth : /\ frames'[i].acct = frames[i].acct
                          /\ frames'[i].mode = frames[i].mode
                          /\ frames'[i].saved = frames[i].saved
  BY <1>1, <1>2, <1>3, <1>4
<1>7. \A i \in 1..depth, t \in Slots : Key(frames'[i], t) = Key(frames[i], t)
  BY <1>6 DEF Key, Caller
\* A claim that is left is one of before, and of another slot or namespace.
<1>8. ASSUME NEW i \in 1..depth, NEW t \in Slots, frames'[i].captured[t] # Unset
      PROVE  /\ frames'[i].captured[t] = frames[i].captured[t]
             /\ Key(frames[i], t) # <<a, a, s>>
  <2>1. IsFrame(frames[i])
    BY <1>1, <1>2
  <2>2. CASE frames[i].acct = a /\ Caller(frames[i]) = a
    <3>1. frames'[i].captured = [u \in Slots |-> IF u = s THEN Unset ELSE frames[i].captured[u]]
      BY <2>1, <2>2, <1>4 DEF Overwritten, IsFrame
    <3> QED
      BY <1>8, <3>1 DEF Key
  <2>3. CASE ~(frames[i].acct = a /\ Caller(frames[i]) = a)
    <3>1. frames'[i] = frames[i]
      BY <2>3, <1>4 DEF Overwritten
    <3> QED
      BY <2>3, <3>1 DEF Key
  <2> QED
    BY <2>2, <2>3
<1>9. SavedInv'
  BY <1>1, <1>6, <1>7, <1>8 DEF SavedInv, CaptureInv
<1>10. SpaceInv'
  BY <1>1, <1>6, <1>8 DEF SpaceInv, CaptureInv, SameSpace, Caller
<1>11. CapturesStay'
  <2>1. ASSUME NEW i \in 1..depth, NEW t \in Slots, frames'[i].captured[t] # Unset
        PROVE  store'[Key(frames[i], t)] = frames'[i].captured[t]
    <3>1. Key(frames[i], t) \in Keys
      BY <1>1, <1>2, KeyInKeys
    <3>2. store'[Key(frames[i], t)] = store[Key(frames[i], t)]
      BY <2>1, <1>8, <3>1 DEF WriteStorage
    <3> QED
      BY <2>1, <1>8, <3>2 DEF CaptureInv, CapturesStay
  <2> QED
    BY <1>1, <1>7, <2>1 DEF CapturesStay
<1> QED
  BY <1>5, <1>9, <1>10, <1>11 DEF CaptureInv

-----------------------------------------------------------------------------
LEMMA CaptureInit ==
  ASSUME NEW a \in Accounts, Init
  PROVE  CaptureInv
<1>1. depth = 0 /\ \A i \in Levels : frames[i] = NoFrame
  BY DEF Init
<1>2. FrameInv
  BY <1>1, NoFrameIsFrame, ComposableConstantsOK DEF FrameInv
<1> QED
  BY <1>1, <1>2 DEF CaptureInv, SavedInv, SpaceInv, CapturesStay

LEMMA CaptureNext == CaptureInv /\ [Next]_vars => CaptureInv'
<1> SUFFICES ASSUME CaptureInv, [Next]_vars PROVE CaptureInv'
  OBVIOUS
<1>1. CASE UNCHANGED vars
  BY <1>1 DEF vars, CaptureInv, FrameInv, SavedInv, SpaceInv, CapturesStay, Key, Caller,
              SameSpace, IsFrame
<1>2. ASSUME NEW a \in Accounts, NEW mode \in {"call", "delegate"}, NEW b \in Batches,
             Begin(a, mode, b) \/ Nest(a, mode, b)
      PROVE  CaptureInv'
  BY <1>2, BeginKeeps, NestKeeps
<1>3. ASSUME NEW a \in Accounts, NEW s \in Slots, NEW w \in Words, WriteStorage(a, s, w)
      PROVE  CaptureInv'
  BY <1>3, WriteStorageKeeps
<1>4. CASE Inputs \/ Return \/ Revert \/ Output \/ NextEntry \/ End
  BY <1>4, InputsKeeps, ReturnKeeps, RevertKeeps, OutputKeeps, NextEntryKeeps, EndKeeps
<1> QED
  BY <1>1, <1>2, <1>3, <1>4 DEF Next

\* What a running batch captured stays in Storage until the batch is through (what
\* processOutput of the library relies on), however batches nest and revert.
THEOREM CapturesAreKept == Spec => []CapturesStay
<1>1. Init => CaptureInv
  BY CaptureInit, ComposableConstantsOK
<1>2. CaptureInv => CapturesStay
  BY DEF CaptureInv
<1> QED
  BY <1>1, <1>2, CaptureNext, PTL DEF Spec

-----------------------------------------------------------------------------
(* Types: values are sequences of words wherever they come from, and the   *)
(* words a batch stores are words of values, or whatever lies behind one.  *)

LEMMA ElementType ==
  ASSUME NEW S, NEW q \in Seq(S), NEW i \in 1..Len(q)
  PROVE  q[i] \in S
OBVIOUS

LEMMA BatchTypes ==
  ASSUME NEW f \in Frame, f.at <= Len(f.batch)
  PROVE  f.batch[f.at] \in [inputs: Seq(InputParam), outputs: Seq(OutputParam)]
<1>1. f.batch \in Seq([inputs: Seq(InputParam), outputs: Seq(OutputParam)]) /\ f.at \in Nat \ {0}
  BY ComposableConstantsOK DEF Frame
<1>2. f.at \in 1..Len(f.batch)
  BY <1>1
<1> HIDE DEF InputParam, OutputParam
<1> QED
  BY <1>1, <1>2, ElementType

LEMMA TopType ==
  ASSUME TypeOK, depth > 0
  PROVE  Top \in Frame /\ depth \in Levels
BY ComposableConstantsOK DEF TypeOK, Levels, Top

LEMMA KeyType ==
  ASSUME NEW f \in Frame, NEW s \in Slots
  PROVE  Key(f, s) \in Keys
BY DEF Frame, Key, Keys, Callers, Caller

LEMMA NewFrameType ==
  ASSUME NEW a \in Accounts, NEW mode \in {"call", "delegate"}, NEW b \in Batches,
         NEW st \in State
  PROVE  NewFrame(a, mode, b, st) \in Frame
BY DEF NewFrame, Frame, Blank

LEMMA NoFrameType == NoFrame \in Frame
<1>1. (CHOOSE a \in Accounts : TRUE) \in Accounts /\ (CHOOSE b \in Batches : TRUE) \in Batches
  BY ComposableConstantsOK
<1>2. [store |-> [k \in Keys |-> Unset], world |-> [g \in Getters |-> <<>>]] \in State
  BY DEF State
<1> QED
  BY <1>1, <1>2, NewFrameType DEF NoFrame

LEMMA MovedRecord ==
  ASSUME NEW A, NEW M, NEW B, NEW T, NEW P, NEW O, NEW X, NEW R, NEW V, NEW C,
         NEW f \in [acct: A, mode: M, batch: B, at: T, pc: P, out: O, args: X, ret: R,
                    saved: V, captured: C],
         NEW p \in P, NEW t \in T, NEW o \in O, NEW x \in X, NEW r \in R
  PROVE  [f EXCEPT !.pc = p, !.at = t, !.out = o, !.args = x, !.ret = r]
           \in [acct: A, mode: M, batch: B, at: T, pc: P, out: O, args: X, ret: R,
                saved: V, captured: C]
OBVIOUS

\* Moving on to an entry or a stage of it keeps a frame a frame.
LEMMA MovedType ==
  ASSUME NEW f \in Frame, NEW pc \in {"inputs", "call", "outputs"}, NEW at \in Nat \ {0},
         NEW args \in Seq(Seq(Words)), NEW ret \in Seq(Words)
  PROVE  [f EXCEPT !.pc = pc, !.at = at, !.out = 1, !.args = args, !.ret = ret] \in Frame
<1>1. 1 \in Nat \ {0}
  OBVIOUS
<1> QED
  BY <1>1, MovedRecord, Zenon DEF Frame

LEMMA SetTopType ==
  ASSUME TypeOK, NEW f \in Frame, SetTop(f)
  PROVE  frames' \in [Levels -> Frame]
BY DEF TypeOK, SetTop

LEMMA PopType ==
  ASSUME TypeOK, depth > 0, Pop
  PROVE  frames' \in [Levels -> Frame] /\ depth' \in 0..MaxDepth
<1>1. frames' \in [Levels -> Frame]
  BY NoFrameType DEF TypeOK, Pop
<1>2. depth' \in 0..MaxDepth
  BY ComposableConstantsOK DEF TypeOK, Pop
<1> QED
  BY <1>1, <1>2

\* Giving up a claim leaves a frame a frame.
LEMMA PushType ==
  ASSUME TypeOK, NEW f \in Frame, Push(f)
  PROVE  /\ frames' \in [Levels -> Frame]
         /\ depth' \in 0..MaxDepth /\ begun' \in 0..MaxBatches
<1>1. ASSUME NEW g \in Frame PROVE Unclaimed(g, f) \in Frame
  BY DEF Unclaimed, Frame, Blank
<1>2. frames' \in [Levels -> Frame]
  BY <1>1 DEF TypeOK, Push
<1>3. depth' \in 0..MaxDepth /\ begun' \in 0..MaxBatches
  BY ComposableConstantsOK DEF TypeOK, Push
<1> QED
  BY <1>2, <1>3

\* What processInput answers is a value.
LEMMA FetchedType ==
  ASSUME TypeOK, depth > 0, NEW p \in InputParam, NEW v, Fetched(p) = <<v>>
  PROVE  v \in Seq(Words)
<1>1. /\ p.fetch = "RAW_BYTES" => p.data \in Seq(Words)
      /\ p.fetch = "BALANCE" => p.data \in Getters
      /\ p.fetch = "STATIC_CALL" => p.data \in Getters \/ p.data \in Slots
      /\ p.fetch \in {"RAW_BYTES", "BALANCE", "STATIC_CALL"}
  BY DEF InputParam
<1>2. CASE p.fetch = "RAW_BYTES"
  <2>1. Fetched(p) = <<p.data>>
    BY <1>2 DEF Fetched
  <2> QED
    BY <1>1, <1>2, <2>1
<1>3. CASE p.fetch = "BALANCE"
  <2>1. Fetched(p) = IF world[p.data] = <<>> THEN <<>> ELSE <<<<world[p.data][1]>>>>
    BY <1>3 DEF Fetched
  <2>2. world[p.data] \in Seq(Words)
    BY <1>1, <1>3 DEF TypeOK
  <2>3. world[p.data] # <<>>
    BY <2>1
  <2>4. world[p.data][1] \in Words
    BY <2>2, <2>3
  <2>5. v = <<world[p.data][1]>>
    BY <2>1, <2>3
  <2> QED
    BY <2>4, <2>5
<1>4. CASE p.fetch = "STATIC_CALL"
  <2>1. \/ p.data \in Getters /\ Fetched(p) = <<world[p.data]>>
        \/ /\ p.data \in Slots
           /\ Fetched(p) = IF store[Key(Top, p.data)] = Unset THEN <<>>
                           ELSE <<<<store[Key(Top, p.data)]>>>>
    BY <1>1, <1>4 DEF Fetched
  <2>2. CASE p.data \in Getters /\ Fetched(p) = <<world[p.data]>>
    BY <2>2 DEF TypeOK
  <2>3. CASE /\ p.data \in Slots
             /\ Fetched(p) = IF store[Key(Top, p.data)] = Unset THEN <<>>
                             ELSE <<<<store[Key(Top, p.data)]>>>>
    <3>1. Key(Top, p.data) \in Keys
      BY <2>3, TopType, KeyType
    <3>2. store[Key(Top, p.data)] # Unset
      <4> DEFINE x == store[Key(Top, p.data)]
      <4>1. Fetched(p) = IF x = Unset THEN <<>> ELSE <<<<x>>>>
        BY <2>3
      <4> HIDE DEF x
      <4>2. x # Unset
        BY <4>1
      <4> QED
        BY <4>2 DEF x
    <3>3. store[Key(Top, p.data)] \in Words
      BY <3>1, <3>2 DEF TypeOK
    <3>4. v = <<store[Key(Top, p.data)]>>
      BY <2>3, <3>2
    <3> QED
      BY <3>3, <3>4
  <2> QED
    BY <2>1, <2>2, <2>3
<1> QED
  BY <1>1, <1>2, <1>3, <1>4

LEMMA WordType ==
  ASSUME NEW v \in Seq(Words), NEW i \in Nat \ {0}, NEW junk \in Words
  PROVE  WordAt(v, i, junk) \in Words
BY DEF WordAt

-----------------------------------------------------------------------------
LEMMA InputsTypes ==
  ASSUME TypeOK, Inputs
  PROVE  TypeOK'
<1>1. Top \in Frame /\ depth \in Levels /\ depth > 0 /\ Top.at <= Len(Top.batch)
  BY TopType DEF Inputs
<1>2. Entry \in [inputs: Seq(InputParam), outputs: Seq(OutputParam)]
  BY <1>1, BatchTypes DEF Entry
<1> DEFINE args == [i \in 1..Len(Entry.inputs) |->
                      IF Fetched(Entry.inputs[i]) = <<>> THEN <<>>
                      ELSE Fetched(Entry.inputs[i])[1]]
<1>3.   /\ InputsOK(Entry, args)
        /\ SetTop([Top EXCEPT !.args = args, !.ret = <<>>, !.out = 1,
                     !.pc = IF HasTarget(Entry, args) THEN "call" ELSE "outputs"])
  BY DEF Inputs
<1>4. ASSUME NEW i \in 1..Len(Entry.inputs) PROVE args[i] \in Seq(Words)
  <2>1. Fetched(Entry.inputs[i]) = <<args[i]>>
    BY <1>3 DEF InputsOK
  <2>2. Entry.inputs[i] \in InputParam
    BY <1>2
  <2> HIDE DEF args
  <2> QED
    BY <1>1, <2>1, <2>2, FetchedType
<1>5. args \in Seq(Seq(Words))
  <2>1. Len(Entry.inputs) \in Nat
    BY <1>2
  <2>2. args \in [1..Len(Entry.inputs) -> Seq(Words)]
    BY <1>4
  <2> HIDE DEF args
  <2> QED
    BY <2>1, <2>2
<1> HIDE DEF args
<1>6. frames' \in [Levels -> Frame]
  <2>1. [Top EXCEPT !.args = args, !.ret = <<>>, !.out = 1,
           !.pc = IF HasTarget(Entry, args) THEN "call" ELSE "outputs"] \in Frame
    <3> DEFINE pc == IF HasTarget(Entry, args) THEN "call" ELSE "outputs"
               r == <<>>
    <3>1. Top.at \in Nat \ {0} /\ Top.captured \in [Slots -> Words \cup {Unset}]
      BY <1>1 DEF Frame
    <3>2. pc \in {"inputs", "call", "outputs"} /\ r \in Seq(Words)
      OBVIOUS
    <3> HIDE DEF pc, r
    <3>3. [Top EXCEPT !.pc = pc, !.at = Top.at, !.out = 1, !.args = args, !.ret = r] \in Frame
      BY <1>1, <1>5, <3>1, <3>2, MovedType
    <3>4. [Top EXCEPT !.pc = pc, !.at = Top.at, !.out = 1, !.args = args, !.ret = r]
            = [Top EXCEPT !.args = args, !.ret = r, !.out = 1, !.pc = pc]
      BY <1>1 DEF Frame
    <3> QED
      BY <3>3, <3>4 DEF pc, r
  <2> QED
    BY <1>3, <2>1, SetTopType
<1> QED
  BY <1>6 DEF TypeOK, Inputs

LEMMA BeginTypes ==
  ASSUME TypeOK, NEW a \in Accounts, NEW mode \in {"call", "delegate"}, NEW b \in Batches,
         Begin(a, mode, b)
  PROVE  TypeOK'
<1>1. world' \in [Getters -> Seq(Words)]
  BY ComposableConstantsOK DEF Begin
<1>2. [store |-> store, world |-> world'] \in State
  BY <1>1 DEF State, TypeOK
<1>3. Push(NewFrame(a, mode, b, [store |-> store, world |-> world']))
  BY DEF Begin
<1>4. /\ frames' \in [Levels -> Frame]
      /\ depth' \in 0..MaxDepth /\ begun' \in 0..MaxBatches
  BY <1>2, <1>3, NewFrameType, PushType
<1> QED
  BY <1>1, <1>4 DEF TypeOK, Begin

LEMMA NestTypes ==
  ASSUME TypeOK, NEW a \in Accounts, NEW mode \in {"call", "delegate"}, NEW b \in Batches,
         Nest(a, mode, b)
  PROVE  TypeOK'
<1>1. [store |-> store, world |-> world] \in State
  BY DEF State, TypeOK
<1>2. Push(NewFrame(a, mode, b, [store |-> store, world |-> world]))
  BY DEF Nest
<1>3. /\ frames' \in [Levels -> Frame]
      /\ depth' \in 0..MaxDepth /\ begun' \in 0..MaxBatches
  BY <1>1, <1>2, NewFrameType, PushType
<1> QED
  BY <1>3 DEF TypeOK, Nest

LEMMA ReturnTypes ==
  ASSUME TypeOK, Return
  PROVE  TypeOK'
<1>1. PICK g \in Getters : \E v \in Returns, r \in Returns :
        /\ world' = [world EXCEPT ![g] = v]
        /\ SetTop([Top EXCEPT !.pc = "outputs", !.ret = r])
  BY DEF Return
<1>2. PICK v \in Returns, r \in Returns :
        /\ world' = [world EXCEPT ![g] = v]
        /\ SetTop([Top EXCEPT !.pc = "outputs", !.ret = r])
  BY <1>1
<1>3. v \in Seq(Words) /\ r \in Seq(Words)
  BY ComposableConstantsOK
<1>4. world' \in [Getters -> Seq(Words)]
  BY <1>2, <1>3 DEF TypeOK
<1>5. [Top EXCEPT !.pc = "outputs", !.ret = r] \in Frame
  BY <1>3, TopType DEF Frame, Return
<1>6. frames' \in [Levels -> Frame]
  BY <1>2, <1>5, SetTopType
<1> QED
  BY <1>4, <1>6 DEF TypeOK, Return

LEMMA RevertTypes ==
  ASSUME TypeOK, Revert
  PROVE  TypeOK'
<1>1. Top.saved \in State
  BY TopType DEF Frame, Revert
<1>2. store' \in [Keys -> Words \cup {Unset}] /\ world' \in [Getters -> Seq(Words)]
  BY <1>1 DEF Revert, State
<1>3. frames' \in [Levels -> Frame] /\ depth' \in 0..MaxDepth
  BY PopType DEF Revert
<1> QED
  BY <1>2, <1>3 DEF TypeOK, Revert

LEMMA OutputTypes ==
  ASSUME TypeOK, Output
  PROVE  TypeOK'
<1>1. Top \in Frame /\ depth \in Levels /\ depth > 0 /\ Top.at <= Len(Top.batch)
  BY TopType DEF Output
<1>2. Entry \in [inputs: Seq(InputParam), outputs: Seq(OutputParam)]
  BY <1>1, BatchTypes DEF Entry
<1> DEFINE o == Entry.outputs[Top.out]
           hit(s) == s[1] = o.slot /\ s[2] <= o.count
           c(junk) == [s \in Slots |-> IF hit(s) THEN WordAt(Data(o), s[2], junk[s[2]])
                                       ELSE Top.captured[s]]
<1>3. PICK junk \in [1..MaxWords -> Words] :
        /\ store' = [k \in Keys |-> IF \E s \in Slots : hit(s) /\ k = Key(Top, s)
                                      THEN WordAt(Data(o), k[3][2], junk[k[3][2]]) ELSE store[k]]
        /\ written' = written \cup {Key(Top, s) : s \in {t \in Slots : hit(t)}}
        /\ SetTop([Top EXCEPT !.out = Top.out + 1, !.captured = c(junk)])
  BY DEF Output
<1>4. o \in OutputParam
  <2>1. Top.out \in Nat \ {0} /\ Top.out <= Len(Entry.outputs)
    BY <1>1 DEF Frame, Output
  <2>2. Entry.outputs \in Seq(OutputParam)
    BY <1>2
  <2>3. Top.out \in 1..Len(Entry.outputs)
    BY <2>1, <2>2
  <2> QED
    BY <2>2, <2>3
<1>5. Data(o) \in Seq(Words)
  <2> HIDE DEF o
  <2> QED
    BY <1>1, <1>4 DEF Data, Frame, OutputParam, TypeOK
<1>6. ASSUME NEW s \in Slots PROVE WordAt(Data(o), s[2], junk[s[2]]) \in Words
  <2>1. s[2] \in Nat \ {0} /\ junk[s[2]] \in Words
    BY ComposableConstantsOK DEF Slots
  <2> HIDE DEF o
  <2> QED
    BY <1>5, <2>1, WordType
<1>7. \A k \in Keys : k[3] \in Slots
  BY DEF Keys
<1> HIDE DEF o
<1>8. store' \in [Keys -> Words \cup {Unset}]
  BY <1>3, <1>6, <1>7 DEF TypeOK
<1>9. c(junk) \in [Slots -> Words \cup {Unset}]
  BY <1>1, <1>6 DEF Frame
<1>10. written' \subseteq Keys
  BY <1>1, <1>3, KeyType DEF TypeOK
<1> HIDE DEF c
<1>11. [Top EXCEPT !.out = Top.out + 1, !.captured = c(junk)] \in Frame
  <2> DEFINE d == c(junk)
             n == Top.out + 1
  <2>1. n \in Nat \ {0} /\ d \in [Slots -> Words \cup {Unset}]
    BY <1>1, <1>9 DEF Frame
  <2> HIDE DEF d, n
  <2>2. [Top EXCEPT !.out = n, !.captured = d] \in Frame
    BY <1>1, <2>1 DEF Frame
  <2> QED
    BY <2>2 DEF d, n
<1>12. frames' \in [Levels -> Frame]
  BY <1>3, <1>11, SetTopType
<1> QED
  BY <1>8, <1>10, <1>12 DEF TypeOK, Output

LEMMA WriteStorageTypes ==
  ASSUME TypeOK, NEW a \in Accounts, NEW s \in Slots, NEW w \in Words,
         WriteStorage(a, s, w)
  PROVE  TypeOK'
<1>1. <<a, a, s>> \in Keys
  BY DEF Keys, Callers
<1>2. store' \in [Keys -> Words \cup {Unset}] /\ written' \subseteq Keys
  BY <1>1 DEF WriteStorage, TypeOK
<1>3. ASSUME NEW f \in Frame PROVE Overwritten(f, a, s) \in Frame
  <2> DEFINE c == [t \in Slots |-> IF t = s THEN Unset ELSE f.captured[t]]
  <2>1. c \in [Slots -> Words \cup {Unset}]
    BY DEF Frame
  <2> HIDE DEF c
  <2>2. [f EXCEPT !.captured = c] \in Frame
    BY <2>1 DEF Frame
  <2> QED
    BY <2>2 DEF Overwritten, c
<1>4. frames' \in [Levels -> Frame]
  BY <1>3 DEF WriteStorage, TypeOK
<1>5. begun' \in 0..MaxBatches
  BY ComposableConstantsOK DEF WriteStorage, TypeOK
<1> QED
  BY <1>2, <1>4, <1>5 DEF WriteStorage, TypeOK

LEMMA NextEntryTypes ==
  ASSUME TypeOK, NextEntry
  PROVE  TypeOK'
<1>1. Top \in Frame
  BY TopType DEF NextEntry
<1>2. [Top EXCEPT !.pc = "inputs", !.at = Top.at + 1, !.out = 1, !.args = <<>>,
                  !.ret = <<>>] \in Frame
  <2> DEFINE n == Top.at + 1
             r == <<>>
  <2>1. n \in Nat \ {0} /\ r \in Seq(Words) /\ r \in Seq(Seq(Words))
    BY <1>1 DEF Frame
  <2> HIDE DEF n, r
  <2>2. [Top EXCEPT !.pc = "inputs", !.at = n, !.out = 1, !.args = r, !.ret = r] \in Frame
    BY <1>1, <2>1, MovedType
  <2> QED
    BY <2>2 DEF n, r
<1>3. frames' \in [Levels -> Frame]
  BY <1>2, SetTopType DEF NextEntry
<1> QED
  BY <1>3 DEF TypeOK, NextEntry

LEMMA EndTypes ==
  ASSUME TypeOK, End
  PROVE  TypeOK'
<1>1. frames' \in [Levels -> Frame] /\ depth' \in 0..MaxDepth
  BY PopType DEF End
<1> QED
  BY <1>1 DEF TypeOK, End

\* Whatever calls return and wherever they lead, values stay sequences of words, Storage
\* holds words at the keys of accounts and callers, and a revert brings back a state of
\* that kind (_executeComposable, processInput and processOutput).
THEOREM TypeCorrect == Spec => []TypeOK
<1>1. Init => TypeOK
  BY ComposableConstantsOK, NoFrameType DEF Init, TypeOK
<1>2. TypeOK /\ [Next]_vars => TypeOK'
  <2> SUFFICES ASSUME TypeOK, [Next]_vars PROVE TypeOK'
    OBVIOUS
  <2>1. CASE UNCHANGED vars
    BY <2>1 DEF vars, TypeOK
  <2>2. ASSUME NEW a \in Accounts, NEW mode \in {"call", "delegate"}, NEW b \in Batches,
               Begin(a, mode, b) \/ Nest(a, mode, b)
        PROVE  TypeOK'
    BY <2>2, BeginTypes, NestTypes
  <2>3. ASSUME NEW a \in Accounts, NEW s \in Slots, NEW w \in Words, WriteStorage(a, s, w)
        PROVE  TypeOK'
    BY <2>3, WriteStorageTypes
  <2>4. CASE Inputs \/ Return \/ Revert \/ Output \/ NextEntry \/ End
    BY <2>4, InputsTypes, ReturnTypes, RevertTypes, OutputTypes, NextEntryTypes, EndTypes
  <2> QED
    BY <2>1, <2>2, <2>3, <2>4 DEF Next
<1> QED
  BY <1>1, <1>2, PTL DEF Spec
=============================================================================
