------------------------------- MODULE Ecdsa -------------------------------
(***************************************************************************)
(* External: ECDSA as libsecp256k1 computes it, on PrimeGroup's curve.  A  *)
(* point's x coordinate is given by its residue modulo the group order and *)
(* by whether it is at least the order; a point and its negation share it. *)
(***************************************************************************)
EXTENDS PrimeGroup

CONSTANTS
    XMod,       \* x(P) mod n
    Above       \* x(P) >= n

ASSUME EcdsaAssumption ==
    /\ XMod \in [Keys -> Scalars] /\ Above \in [Keys -> BOOLEAN]
    /\ \A p, q \in Keys : XMod[p] = XMod[q] /\ Above[p] = Above[q] <=> q \in {p, Negated(p)}

Sigs     == [r : Scalars, s : Scalars]      \* what parses
SigBytes == [r : Bytes, s : Bytes]
ZeroSig  == [r |-> 0, s |-> 0]

(* What the targets know of bytes the input wrote, until they are parsed. *)
Fuzzed    == -1
FuzzedSig == [r |-> Fuzzed, s |-> Fuzzed]

High(s)         == 2 * s > Order
Normalized(sig) == IF High(sig.s) THEN [sig EXCEPT !.s = Negated(sig.s)] ELSE sig

InverseOf == [x \in Scalars |-> IF x = 0 THEN 0 ELSE CHOOSE y \in Keys : Product(x, y) = 1]
Over(x, y) == Product(x, InverseOf[y])

(* Signing z by key d with nonce k: whether k gives a signature, and which.  *)
RawS(z, d, k)     == Over(Sum(z, Product(XMod[k], d)), k)
Signs(z, d, k)    == k \in Keys /\ XMod[k] # 0 /\ RawS(z, d, k) # 0
SignWith(z, d, k) == Normalized([r |-> XMod[k], s |-> RawS(z, d, k)])
RecidOf(z, d, k)  == [above |-> Above[k], odd |-> Even(k) = High(RawS(z, d, k))]

(* The point verification computes, and its verdict. *)
Recomputed(sig, z, q) == Sum(Over(z, sig.s), Product(Over(sig.r, sig.s), q))
Verify(sig, z, q) ==
    /\ sig.r # 0 /\ sig.s # 0 /\ ~High(sig.s)
    /\ Recomputed(sig, z, q) # 0 /\ XMod[Recomputed(sig, z, q)] = sig.r

(* The points a recoverable signature may mean, and the keys recovered. *)
Recids == [above : BOOLEAN, odd : BOOLEAN]
KeyFor(sig, z, R) == Over(Sum(Product(sig.s, R), Negated(z)), sig.r)
Recovered(sig, recid, z) ==
    {KeyFor(sig, z, R) : R \in {p \in Keys :
        /\ sig.r # 0 /\ sig.s # 0
        /\ XMod[p] = sig.r /\ Above[p] = recid.above /\ Even(p) = ~recid.odd}} \ {0}
=============================================================================
