----------------------------- MODULE SlotTrace -----------------------------
(***************************************************************************)
(* How the token slot detection service finds the storage of a token: it   *)
(* traces balanceOf(Holder) and collects the mappings that are read at the *)
(* holder's key, of whichever contract holds them.                         *)
(*                                                                         *)
(* A hash is the pair of the two words that were hashed; a program is the  *)
(* sequence of instructions that balanceOf runs, calls entered and left.   *)
(***************************************************************************)
EXTENDS Integers, Sequences, TLC
LOCAL INSTANCE SequencesExt

\* Never the zero address (lib.rs default_holder).
Holder == 1

\* Where an entry of a mapping lies, as the compilers place it.
MappingLoc(lang, slot) == IF lang = "solidity" THEN <<Holder, slot>> ELSE <<slot, Holder>>

-----------------------------------------------------------------------------
(* The EVM: what a program reads, and the log it leaves. *)

Entered(stack, i) ==
  CASE i.op \in {"CALL", "STATICCALL"} -> Append(stack, i.arg)
    [] i.op = "DELEGATECALL"           -> Append(stack, Last(stack))
    [] i.op = "RETURN"                 -> Front(stack)
    [] OTHER                           -> stack

Executed(e, i) ==
  [stack |-> Entered(e.stack, i),
   logs  |-> Append(e.logs, [op |-> i.op, depth |-> Len(e.stack), arg |-> i.arg]),
   reads |-> IF i.op = "SLOAD" THEN e.reads \cup {<<Last(e.stack), i.arg>>} ELSE e.reads]

Execution(token, program) ==
  FoldLeft(Executed, [stack |-> <<token>>, logs |-> <<>>, reads |-> {}], program)

-----------------------------------------------------------------------------
(* The parser. Its state: the contract whose storage is in use at a depth, the hashes  *)
(* seen so far, and the mappings found. Frames have memory for a hash, as compilers    *)
(* lay it out (parse_sload skips a read in a frame without).                           *)

ParseSload(p, log) ==
  LET first == log.arg[1]  second == log.arg[2]
      With(slot, lang) ==
        [p EXCEPT !.found = @ \cup {[contract |-> p.at[log.depth], slot |-> slot, lang |-> lang]}]
  IN IF log.arg \notin p.hashed THEN p
     ELSE IF first = Holder THEN With(second, "solidity")
     ELSE IF second = Holder THEN With(first, "vyper")
     ELSE p

ParseSha3(p, log) == [p EXCEPT !.hashed = @ \cup {log.arg}]
ParseCall(p, log) == [p EXCEPT !.at = (log.depth + 1 :> log.arg) @@ @]

ParseDelegateAsCall(p, log) == ParseCall(p, log)   \* variant: the code's own storage
ParseDelegatecall(p, log)   == [p EXCEPT !.at = (log.depth + 1 :> p.at[log.depth]) @@ @]

ParseLog(p, log) ==
  CASE log.op = "SLOAD"                  -> ParseSload(p, log)
    [] log.op = "KECCAK256"              -> ParseSha3(p, log)
    [] log.op \in {"STATICCALL", "CALL"} -> ParseCall(p, log)
    [] log.op = "DELEGATECALL"           -> ParseDelegatecall(p, log)
    [] OTHER                             -> p

Parse(logs, token) ==
  FoldLeft(ParseLog, [at |-> (1 :> token), hashed |-> {}, found |-> {}], logs).found
=============================================================================
