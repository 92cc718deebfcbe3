-------------------------- MODULE MCSlotDetection --------------------------
(* Instances of SlotDetection for TLC. *)
EXTENDS SlotDetection
LOCAL INSTANCE SequencesExt

CONSTANTS Impl, Store2, c1, c2, c3

Do(op, arg) == [op |-> op, arg |-> arg]

\* Ways balanceOf comes to the read: none, through a proxy, in another contract, both.
Paths == {<<>>, <<Do("DELEGATECALL", Impl)>>, <<Do("STATICCALL", Store2)>>,
          <<Do("DELEGATECALL", Impl), Do("CALL", Store2)>>,
          <<Do("STATICCALL", Store2), Do("DELEGATECALL", Impl)>>}

\* A read of an entry at the end of a path, and back.
Read(path, entry) ==
  path \o <<Do("KECCAK256", entry), Do("SLOAD", entry)>> \o [i \in DOMAIN path |-> Do("RETURN", Null)]

\* Balances at slot 0, in Vyper at slot 2, and at slot 1, where both languages agree.
Entries == {<<Holder, 0>>, <<2, Holder>>, <<Holder, 1>>}

\* Tokens with one mapping, with a second that the balance does not depend on (a list of
\* frozen accounts), with two that the balance is the sum of, in shares, or beyond u8, and
\* without any.
Reads(p)    == Execution(Token, p).reads
Weighed(p, entry, ratio) == [r \in {q \in Reads(p) : q[2] = entry} |-> ratio]
Mixed(p, f, g) == [r \in Reads(p) |-> IF r[2] = <<Holder, 0>> THEN f ELSE g]

Simple == {[program |-> Read(path, e), moves |-> Weighed(Read(path, e), e, 100)] :
             path \in Paths, e \in Entries}
Frozen == {LET p == Read(a, <<Holder, 3>>) \o Read(b, <<Holder, 0>>)
           IN [program |-> p, moves |-> Weighed(p, <<Holder, 0>>, r)] :
             a \in Paths, b \in Paths, r \in {100}}
Sums   == {LET p == Read(<<>>, <<Holder, 0>>) \o Read(path, <<Holder, 2>>)
           IN [program |-> p, moves |-> Mixed(p, f, g)] :
             path \in Paths, f \in {100, 200}, g \in {0, 900}}
Empty  == {[program |-> <<Do("SLOAD", <<0, 0>>)>>, moves |-> <<>>],
           [program |-> Read(<<>>, <<Holder, 3>>), moves |-> <<>>],
           [program |-> Read(<<>>, <<2, 3>>), moves |-> <<>>]}

Faults(rpc, block, redis, http, restart) ==
  [rpc |-> rpc, block |-> block, redis |-> redis, http |-> http, restart |-> restart]
Kinds(a, b, c) == (c1 :> a @@ c2 :> b @@ c3 :> c)

\* Every token with one request and faults of the chain; a few with all the actors.
Alone  == {[token |-> t, stores |-> TRUE, kind |-> Kinds("override", "none", "none"), budget |-> b] :
             t \in Simple \cup Frozen \cup Sums \cup Empty, b \in {Faults(1, 1, 0, 0, 0)}}
Chosen == {LET p == Read(<<>>, <<Holder, 3>>) \o Read(<<Do("DELEGATECALL", Impl)>>, <<Holder, 0>>)
           IN [program |-> p, moves |-> Weighed(p, <<Holder, 0>>, 100)],
           [program |-> Read(<<>>, <<Holder, 3>>), moves |-> <<>>]}
Busy   == {[token |-> t, stores |-> s, kind |-> Kinds("override", "limit", "none"), budget |-> b] :
             t \in Chosen, s \in BOOLEAN, b \in {Faults(1, 1, 1, 0, 0), Faults(1, 0, 1, 1, 1)}}
          \cup {[token |-> t, stores |-> TRUE, kind |-> Kinds("limit", "limit", "health"), budget |-> b] :
             t \in Chosen, b \in {Faults(0, 0, 1, 0, 0), Faults(1, 0, 0, 0, 1)}}
SomeScenarios == Alone \cup Busy
=============================================================================
