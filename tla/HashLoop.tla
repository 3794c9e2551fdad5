------------------------------ MODULE HashLoop ------------------------------
(***************************************************************************)
(* The loop of _hashRequest run on two texts side by side, one character of *)
(* both at a time, against the mathematical value of the hash.              *)
(***************************************************************************)
EXTENDS RequestHash, FiniteSets

CONSTANTS Char,     \* the character codes that occur
          Spread,   \* how far apart the codes of two characters of a number are
          MaxLen    \* longest text

ASSUME HashAssumption == /\ HALF \in Nat \ {0} /\ Char \subseteq Nat
                         /\ Spread \in Nat /\ MaxLen \in Nat

VARIABLES text, other,      \* what the two loops have read
          h, otherH         \* and their h
hashVars == <<text, other, h, otherH>>

HashInit == text = <<>> /\ other = <<>> /\ h = <<0, 0>> /\ otherH = <<0, 0>>

\* One iteration of both loops.
Read(c, d) == /\ Len(text) < MaxLen
              /\ text' = Append(text, c) /\ h' = Mix(h, c)
              /\ other' = Append(other, d) /\ otherH' = Mix(otherH, d)

HashNext == \E c, d \in Char : Read(c, d)

HashSpec == HashInit /\ [][HashNext]_hashVars

\* The reference: the value of the text as a polynomial in 31, cut to the
\* width of a word only at the end.
Power31[n \in 0 .. MaxLen] == IF n = 0 THEN 1 ELSE 31 * Power31[n - 1]

Polynomial(t) == LET term(i) == t[i] * Power31[Len(t) - i]
                 IN FoldLeftDomain(LAMBDA s, i : s + term(i), 0, t)

\* Cutting the hash to its width at every character loses nothing: the loop
\* yields the polynomial modulo the width, carries between the halves
\* included, and it is what HashText computes.
HashIsPolynomial ==
  /\ h[1] * HalfRange + h[2] = Polynomial(text) % (HalfRange * HalfRange)
  /\ h = HashText(text)

Differing == {i \in 1 .. Len(text) : text[i] # other[i]}

\* A reused key is always noticed when one character of the request has
\* changed, a digit of the amount or of an account: 31 is odd, so a single
\* difference never cancels, whatever follows it.
OneCharacterTells ==
  Cardinality(Differing) = 1 => h # otherH

\* How far apart w characters of a number can drive two words.
Reach[w \in 0 .. MaxLen] == IF w = 0 THEN 0 ELSE 31 * Reach[w - 1] + Spread

\* A reused key is noticed when one number of the request has become another
\* of as many characters, anywhere in the text, as long as the change spans no
\* more than the word can hold apart: up to six digits and points in the 32
\* bits of _hashRequest.  Changes over a longer stretch may collide.
ShortChangeTells ==
  \A w \in 1 .. MaxLen :
    /\ Spread <= 30 /\ Reach[w] < HalfRange * HalfRange
    /\ Differing # {} /\ \A i, j \in Differing : i < j + w
    /\ \A i \in Differing : text[i] <= other[i] + Spread /\ other[i] <= text[i] + Spread
    => h # otherH
=============================================================================
