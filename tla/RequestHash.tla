---------------------------- MODULE RequestHash ----------------------------
(***************************************************************************)
(* _hashRequest of services/transactionService.js: the 32-bit hash by which *)
(* a reused idempotency key is recognised.  A word is a pair <<hi, lo>> of  *)
(* HALF bits each, so that the arithmetic of Math.imul and | 0, which keeps *)
(* the low 2 * HALF bits, never leaves the integers of TLC.  Words and the  *)
(* signed numbers whose toString(16) the code compares are in bijection.    *)
(***************************************************************************)
EXTENDS Naturals, Sequences, SequencesExt

CONSTANT HALF       \* half of the width of a word, 16

HalfRange == 2 ^ HALF

\* Mutant: the codes are summed, and no character has a place.
MixSum(h, code) ==
  LET low == h[2] + code
  IN <<(h[1] + low \div HalfRange) % HalfRange, low % HalfRange>>

\* Mutant: h is multiplied by 32, a shift.
MixShift(h, code) ==
  LET low == 32 * h[2] + code
  IN <<(32 * h[1] + low \div HalfRange) % HalfRange, low % HalfRange>>

\* h = (Math.imul(31, h) + code) | 0, one iteration of the loop.
Mix(h, code) ==
  LET low == 31 * h[2] + code
  IN <<(31 * h[1] + low \div HalfRange) % HalfRange, low % HalfRange>>

\* The loop over the characters of a text.
HashText(text) == FoldLeft(Mix, <<0, 0>>, text)
=============================================================================
