------------------------------- MODULE GF256 -------------------------------
(***************************************************************************)
(* The arithmetic of internal/vault: GF(2^8) modulo x^8 + x^4 + x^3 + x + 1. *)
(* A byte is the set of its one-bits, which is also the set of exponents of *)
(* the polynomial it stands for; ^ is the symmetric difference.             *)
(***************************************************************************)
EXTENDS Integers, FiniteSets

Byte == SUBSET (0..7)
Zero == {}
One  == {0}

\* The byte of a number, as byte(n) converts it: the low eight bits.
ByteOf(n) == {e \in 0..7 : (n \div 2^e) % 2 = 1}

a ^^ b == (a \ b) \cup (b \ a)
Odd(S) == Cardinality(S) % 2 = 1

gfPoly == {8, 4, 3, 1, 0}

\* a << 1 in eight bits, and the low byte of gfPoly if a bit fell out.
ShiftedOnly(a) == {e + 1 : e \in a \ {7}}
Times_x(a) == {e + 1 : e \in a \ {7}} ^^ (IF 7 \in a THEN gfPoly \ {8} ELSE {})

\* The eight rounds: in round i, a has been shifted i times, and it is added
\* to the result if bit i of b is set.
gfMul(a, b) ==
    LET shifted[i \in 0..7] == IF i = 0 THEN a ELSE Times_x(shifted[i - 1])
    IN  {e \in 0..7 : Odd({i \in b : e \in shifted[i]})}

\* a^254: squared and multiplied by a six times, squared once more.
SquareTimes(r, a) == gfMul(gfMul(r, r), a)
gfInv(a) ==
    LET result[i \in 0..6] == IF i = 0 THEN a ELSE SquareTimes(result[i - 1], a)
        Squared(r) == gfMul(r, r)
    IN  Squared(result[6])

-----------------------------------------------------------------------------
(* What multiplication in the field is, by its definition: the product of  *)
(* the polynomials, and the remainder of its division by gfPoly.           *)
Product(a, b) == {e \in 0..14 : Odd({p \in a \X b : p[1] + p[2] = e})}
Remainder(p) ==
    LET divided[d \in 8..15] ==    \* after the degrees 14 .. d
            IF d = 15 THEN p
            ELSE LET q == divided[d + 1]
                 IN  IF d \in q THEN q ^^ {e + d - 8 : e \in gfPoly} ELSE q
    IN  divided[8]

FieldProduct(a, b) == Remainder(Product(a, b))
=============================================================================
