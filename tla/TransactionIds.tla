--------------------------- MODULE TransactionIds ---------------------------
(***************************************************************************)
(* The transaction identifiers of a PTP session (ptp/mod.rs,               *)
(* TransactionId) and the test that tells a late reply from a desync       *)
(* (ptp/session/mod.rs, is_stale_reply).                                   *)
(*                                                                         *)
(* Identifiers are u32 in the code.  Here they are 0 .. IdModulus - 1, so  *)
(* that wrap-around happens on a small instance: 0 is the session-less id, *)
(* IdModulus - 1 stands for 0xFFFFFFFF, and neither is ever issued.        *)
(***************************************************************************)
EXTENDS Integers

CONSTANT IdModulus

ASSUME IdModulusAssumption == IdModulus \in Nat /\ IdModulus > 3

FirstId == 1
LastId  == IdModulus - 2
IssuedIds == FirstId .. LastId

(* A variant of NextId that forgets the two reserved ids. *)
NextIdUnreserved(id) == IF id + 1 = IdModulus THEN 0 ELSE id + 1

(* TransactionId::next: a wrapping add that skips 0xFFFFFFFF and 0. *)
NextId(id) == IF id + 1 \in {IdModulus - 1, IdModulus} THEN FirstId ELSE id + 1

(* expected.wrapping_sub(got) for two ids of 0 .. IdModulus - 1. *)
WrappingSub(expected, got) ==
  IF got <= expected THEN expected - got ELSE expected - got + IdModulus

(* got belongs to a transaction before expected: at most half the circle   *)
(* behind it (0x8000_0000 in the code).                                    *)
IsStaleReply(got, expected) ==
  LET behind == WrappingSub(expected, got)
  IN  behind # 0 /\ 2 * behind < IdModulus

(* The id of the n-th transaction (n >= 1) of a session whose counter      *)
(* stood at first: what n - 1 applications of NextId give, for less than   *)
(* one full turn.                                                          *)
NthId(first, n) ==
  IF first + n - 1 <= LastId THEN first + n - 1 ELSE first + n - 1 - LastId
=============================================================================
