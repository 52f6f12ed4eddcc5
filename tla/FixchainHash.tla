---------------------------- MODULE FixchainHash ----------------------------
(***************************************************************************)
(* The content-addressed identifiers of package fixchain (hash.go):       *)
(* hash, hashChain and hashBag.  A certificate is a model value; its DER  *)
(* encoding is Raw[c], a short sequence of byte values.  SHA-256 itself   *)
(* is treated as injective, so a digest is represented by the bytes it    *)
(* was computed over.  What is NOT abstracted is how the Go code builds   *)
(* its inputs: hash.Hash.Sum(b) APPENDS the digest to b, so               *)
(* newHash().Sum(c.Raw) is c.Raw followed by SHA-256(""), and copying it  *)
(* into a [hashSize]byte keeps only its first hashSize bytes.             *)
(***************************************************************************)
EXTENDS Naturals, Sequences, SequencesExt

CONSTANTS
    Certs,      \* the certificates (model values)
    Raw,        \* Raw[c]: the DER bytes of certificate c
    HashSize    \* sha256.Size, scaled down

Byte == 0..255

\* The leading bytes of SHA-256 of the empty input (e3 b0 c4 42 98 fc 1c 14),
\* the digest Sum appends to its argument.
EmptyDigestBytes == <<227, 176, 196, 66, 152, 252, 28, 20>>

ASSUME HashAssumption ==
    /\ HashSize \in 1..Len(EmptyDigestBytes)
    /\ Raw \in [Certs -> Seq(Byte)]

EmptyDigest == SubSeq(EmptyDigestBytes, 1, HashSize)

\* newHash().Sum(b): b with the digest of nothing written appended.
SumOf(b) == b \o EmptyDigest

\* hash(c): copy(hash[:], newHash().Sum(c.Raw)), the first hashSize bytes
\* of Raw[c] followed by the empty digest.
HashCert(c) == SubSeq(SumOf(Raw[c]), 1, HashSize)

\* hashChain(ch): one running SHA-256 over newHash().Sum(c.Raw) of every
\* certificate in order; the digest stands for the whole written input.
HashChain(ch) == FlattenSeq([i \in DOMAIN ch |-> SumOf(Raw[ch[i]])])

\* bag.Less: shorter DER first, then byte by byte.
RECURSIVE BytesLess(_, _)
BytesLess(a, b) ==
    IF a = <<>> THEN FALSE
    ELSE IF Head(a) # Head(b) THEN Head(a) < Head(b)
    ELSE BytesLess(Tail(a), Tail(b))

RawLess(c, d) ==
    IF Len(Raw[c]) # Len(Raw[d]) THEN Len(Raw[c]) < Len(Raw[d])
    ELSE BytesLess(Raw[c], Raw[d])

\* hashBag(chain): hashChain of a copy of the chain put in order by
\* sort.Sort(bag).  Certificates with equal Raw are interchangeable, so
\* every permutation that leaves no pair out of order hashes the same.
HashBag(chain) ==
    LET perms == {p \in [DOMAIN chain -> DOMAIN chain] :
                    \A i, j \in DOMAIN chain : i # j => p[i] # p[j]}
        sorted(p) == [i \in DOMAIN chain |-> chain[p[i]]]
        ordered(s) == \A i \in 1..(Len(s) - 1) : ~RawLess(s[i + 1], s[i])
    IN HashChain(sorted(CHOOSE p \in perms : ordered(sorted(p))))
=============================================================================
