------------------------------ MODULE MCAdoption ------------------------------
(* Askings between three sessions. *)
EXTENDS Adoption

CONSTANTS s1, s2, s3

Ask(x, y) == [from |-> x, to |-> y, nonce |-> 1]

\* s1 and s2 ask each other.
Mutual == {Ask(s1, s2), Ask(s2, s1)}

\* And s1 asks s3 too.
MutualAndOther == Mutual \cup {Ask(s1, s3)}
=============================================================================
