------------------------------- MODULE Vault -------------------------------
(***************************************************************************)
(* internal/vault behind /vault/split and /vault/reconstruct: Shamir       *)
(* sharing of a secret, byte by byte, over GF(2^8).                        *)
(*                                                                         *)
(* The server keeps nothing, so the state is the client's: a sharing it was *)
(* given, the shards it has put into its next request, the last answer.     *)
(* Shards are sent in the client's order, some of them more than once, some *)
(* damaged on the way.  HMAC and key derivation are ideal: a checksum is    *)
(* what it authenticates, and only Split makes new ones.                    *)
(***************************************************************************)
EXTENDS GF256, Sequences

CONSTANTS
    Secrets,     \* byte sequences a client asks to split
    Randoms,     \* the bytes rand.Read may return
    Counts,      \* the numbers of shards asked for
    Thresholds,  \* the thresholds asked for, of both requests
    Positions,   \* the shards a client may send back, by their place in the answer
    OtherBytes,  \* what a damaged value or index may become
    MaxHand,     \* bound: the shards of one request
    MaxDamaged   \* bound: the damaged ones among them

ASSUME VaultAssumption ==
    /\ Secrets \subseteq Seq(Byte)
    /\ Randoms \subseteq Byte
    /\ Counts \subseteq Int /\ Thresholds \subseteq Int
    /\ Positions \subseteq 1..255 /\ OtherBytes \subseteq 0..255
    /\ MaxHand \in Nat /\ MaxDamaged \in Nat

VARIABLES
    sharing,     \* the parameters of a successful Split
    hand,        \* the shards of the request being put together
    from,        \* history: their positions in the sharing, 0 for damaged ones
    answer       \* of the last request

vaultVars == <<sharing, hand, from, answer>>

-----------------------------------------------------------------------------
NoSharing == [n |-> 0]
NoAnswer  == [result |-> "none"]
Refused   == [result |-> "refused"]
Panicked  == [result |-> "panicked"]
Answered(secret, k) == [result |-> "ok", secret |-> secret, threshold |-> k]

\* The checks of handleVaultSplit and Split; without k <= n.
ParametersAnyK(secret, n, k) == Len(secret) > 0 /\ n >= 2 /\ k >= 2 /\ n <= 255
ValidParameters(secret, n, k) ==
    Len(secret) > 0 /\ n >= 2 /\ k >= 2 /\ k <= n /\ n <= 255

\* byte((si + 1) * 2) of shard number i = si + 1; and counted from zero.
CoordinateFromZero(i) == ((i - 1) * 2) % 256
Coordinate(i) == (i * 2) % 256

\* Horner's rule: f(x) of the polynomial whose coefficients are byte b of each
\* sequence in coeffs, the secret's first.
PolynomialAt(coeffs, b, x) ==
    LET result[c \in 1..(Len(coeffs) + 1)] ==
            IF c > Len(coeffs) THEN Zero
            ELSE gfMul(result[c + 1], x) ^^ coeffs[c][b]
    IN  result[1]

\* shardHMACKey and shardChecksum; a damaged checksum is the HMAC of nothing.
Checksum(secret, index, value) ==
    [intact |-> TRUE, key |-> secret, index |-> index, value |-> value]

ShardValue(s, i) ==
    [b \in 1..Len(s.secret) |-> PolynomialAt(<<s.secret>> \o s.coeffs, b, ByteOf(Coordinate(i)))]
Shard(s, i) ==
    LET value == ShardValue(s, i)
    IN  [Index |-> Coordinate(i), Value |-> value,
         Checksum |-> Checksum(s.secret, Coordinate(i), value)]

-----------------------------------------------------------------------------
\* The weight of shard i among the first k: the product of x_j / (x_i - x_j).
Weight(x, i, k) ==
    LET numerator[j \in 0..k] ==
            IF j = 0 THEN One
            ELSE IF j = i THEN numerator[j - 1] ELSE gfMul(numerator[j - 1], x[j])
        denominator[j \in 0..k] ==
            IF j = 0 THEN One
            ELSE IF j = i THEN denominator[j - 1] ELSE gfMul(denominator[j - 1], x[i] ^^ x[j])
    IN  gfMul(numerator[k], gfInv(denominator[k]))

\* f(0) through the first k shards, for every byte of the first one's value.
Interpolated(shards, k) ==
    LET x == [i \in 1..k |-> ByteOf(shards[i].Index)]
        weight == [i \in 1..k |-> Weight(x, i, k)]
        Result(b) ==
            LET sum[i \in 0..k] ==
                    IF i = 0 THEN Zero
                    ELSE sum[i - 1] ^^ gfMul(shards[i].Value[b], weight[i])
            IN  sum[k]
    IN  [b \in 1..Len(shards[1].Value) |-> Result(b)]

\* byte(sh.Index) of the handler: an index of the JSON request loses its high bits.
Decoded(shards) == [i \in DOMAIN shards |-> [shards[i] EXCEPT !.Index = @ % 256]]

DuplicateIndex(shards) ==
    \E i, j \in DOMAIN shards : i # j /\ shards[i].Index = shards[j].Index
Malformed(shards, k) ==
    \/ Len(shards) < k \/ Len(shards) = 0
    \/ \E i \in DOMAIN shards : shards[i].Index = 0
    \/ DuplicateIndex(shards)
    \/ k <= 0
    \/ shards[1].Value = <<>>

\* si.Value[bi] is out of range if a later shard is shorter than the first.
OutOfRange(shards, k) ==
    \E i \in 1..k : Len(shards[i].Value) < Len(shards[1].Value)

\* Every shard handed in is compared, not only the first k.
ChecksumsMatchActive(shards, k, secret) ==
    \A i \in 1..k :
        shards[i].Checksum = Checksum(secret, shards[i].Index, shards[i].Value)
ChecksumsMatch(shards, k, secret) ==
    \A i \in DOMAIN shards :
        shards[i].Checksum = Checksum(secret, shards[i].Index, shards[i].Value)

Reconstructed(shards, k) ==
    IF Malformed(shards, k) THEN Refused
    ELSE IF OutOfRange(shards, k) THEN Panicked
    ELSE LET secret == Interpolated(shards, k)
         IN  IF ChecksumsMatch(shards, k, secret) THEN Answered(secret, k) ELSE Refused

-----------------------------------------------------------------------------
VaultInit ==
    /\ sharing = NoSharing
    /\ hand = <<>>
    /\ from = <<>>
    /\ answer = NoAnswer

\* /vault/split; the client forgets an earlier sharing.
Split(secret, n, k) ==
    /\ sharing = NoSharing
    /\ IF ValidParameters(secret, n, k)
       THEN /\ \E coeffs \in [1..(k - 1) -> [1..Len(secret) -> Randoms]] :
                 sharing' = [secret |-> secret, n |-> n, k |-> k, coeffs |-> coeffs]
            /\ answer' = NoAnswer
       ELSE /\ answer' = Refused
            /\ UNCHANGED sharing
    /\ UNCHANGED <<hand, from>>

PutIntoHand(shard, position) ==
    /\ answer = NoAnswer
    /\ Len(hand) < MaxHand
    /\ hand' = Append(hand, shard)
    /\ from' = Append(from, position)
    /\ UNCHANGED <<sharing, answer>>

HandIn(i) ==
    /\ i <= sharing.n
    /\ PutIntoHand(Shard(sharing, i), i)

\* What else the client may send: a shard with one part changed or cut off.
\* (An index that differs by 256 is the same index after decoding.)
Damaged(s) ==
    {[s EXCEPT !.Index = ((@ + b) % 256) + 256] : b \in OtherBytes \cup {0}}
    \cup {[s EXCEPT !.Value[1] = @ ^^ ByteOf(b)] : b \in OtherBytes}
    \cup {[s EXCEPT !.Value = SubSeq(@, 1, Len(@) - 1)]}
    \cup {[s EXCEPT !.Checksum.intact = FALSE]}

HandInDamaged(i) ==
    /\ i <= sharing.n
    /\ Cardinality({p \in DOMAIN from : from[p] = 0}) < MaxDamaged
    /\ \E d \in Damaged(Shard(sharing, i)) : PutIntoHand(d, 0)

\* /vault/reconstruct.
Reconstruct(k) ==
    /\ sharing # NoSharing
    /\ answer = NoAnswer
    /\ answer' = Reconstructed(Decoded(hand), k)
    /\ UNCHANGED <<sharing, hand, from>>

VaultNext ==
    \/ \E secret \in Secrets, n \in Counts, k \in Thresholds : Split(secret, n, k)
    \/ \E i \in Positions : HandIn(i) \/ HandInDamaged(i)
    \/ \E k \in Thresholds : Reconstruct(k)

VaultSpec == VaultInit /\ [][VaultNext]_vaultVars

-----------------------------------------------------------------------------
Numbers == {256 + i : i \in 0..255} \cup 0..255
Shards == [Index: Numbers, Value: Seq(Byte),
           Checksum: [intact: BOOLEAN, key: Seq(Byte), index: Numbers, value: Seq(Byte)]]
Sharings == [secret: Seq(Byte), n: 2..255, k: 2..255, coeffs: Seq(Seq(Byte))]
Answers == {NoAnswer, Refused, Panicked}
           \cup [result: {"ok"}, secret: Seq(Byte), threshold: Int]

\* A sharing is one that Split may make, with a coefficient for every power of
\* x below its threshold; a request has at most the shards the bound allows.
VaultTypeOK ==
    /\ sharing # NoSharing =>
          /\ sharing \in Sharings
          /\ sharing.k <= sharing.n
          /\ Len(sharing.coeffs) = sharing.k - 1
    /\ hand \in Seq(Shards)
    /\ from \in Seq(0..255) /\ Len(from) = Len(hand)
    /\ answer \in Answers

\* gfMul, shifts and masks in eight bits, is multiplication in the field for all
\* pairs of bytes, and gfInv, a chain of thirteen products, inverts every byte
\* but zero.  (It is a statement about constants; it is evaluated once.)
FieldArithmetic ==
    sharing = NoSharing =>
        /\ \A a, b \in Byte : gfMul(a, b) = FieldProduct(a, b)
        /\ \A a \in Byte \ {Zero} : FieldProduct(a, gfInv(a)) = One

Undamaged == \A p \in DOMAIN from : from[p] # 0
Distinct  == \A p, q \in DOMAIN from : p # q => from[p] # from[q]

\* Any different shards of one sharing, in any order, at least as many as its
\* threshold, give the secret back, also when the client asks for more than the
\* threshold; for sharings of up to 127 shards.  (Split allows 255, but shard
\* 128 has index 0 and those after it repeat the first ones.)
EnoughShardsReconstruct ==
    sharing # NoSharing /\ sharing.n <= 127 /\ Undamaged /\ Distinct =>
        \A k \in sharing.k..Len(hand) :
            Reconstructed(Decoded(hand), k) = Answered(sharing.secret, k)

\* Whatever is handed in, and whatever threshold is asked for: if a secret is
\* answered, it is the one that was split, and no shard in the request, used for
\* the interpolation or not, was altered.
OnlyTheSecret ==
    answer.result = "ok" =>
        /\ answer.secret = sharing.secret
        /\ \A p \in DOMAIN hand :
              \E i \in 1..sharing.n : Decoded(hand)[p] = Shard(sharing, i)
=============================================================================
