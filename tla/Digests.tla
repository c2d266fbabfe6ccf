------------------------------- MODULE Digests -------------------------------
(* The digests the player computes itself, and what pairing makes of a code *)
(* with them.                                                               *)
(* src/desktop/src/sync/pairing.cpp, net/scrobble.cpp                       *)
(*                                                                          *)
(* A byte is <<n>>, a byte of a digest is <<the digest, which of its bytes>>*)
(* and one that went through an exclusive or is <<byte, mask, "xor">>. What *)
(* compressing a block does to the state is not modelled: a digest is told  *)
(* by the blocks that were compressed, and none is mistaken for another.    *)
EXTENDS Integers, Sequences, SequencesExt, FiniteSetsExt

CONSTANTS
    Block,        \* 64
    DigestBytes,  \* 32 of SHA-256, 16 of MD5
    LengthBytes,  \* 8
    WDigits,      \* 16, the hexadecimal digits of w
    Width,        \* 2^64
    GroupN,       \* Width - 59
    GroupG        \* 5

Byte(n) == <<n % 256>>

-----------------------------------------------------------------------------
(* SHA-256 and MD5                                                          *)

Fresh == [compressed |-> <<>>, buffer |-> <<>>, bits |-> 0]
Taken(h, byte) ==
    IF Len(h.buffer) + 1 = Block
    THEN [h EXCEPT !.compressed = Append(@, Append(h.buffer, byte)), !.buffer = <<>>]
    ELSE [h EXCEPT !.buffer = Append(@, byte)]
Update(h, data) == FoldLeft(Taken, [h EXCEPT !.bits = @ + 8 * Len(data)], data)

\* The first byte of the padding is there whether or not the length still fits
\* behind it.
Padding(used) ==
    [i \in 1..((IF used < Block - LengthBytes THEN Block ELSE 2 * Block) - LengthBytes - used) |-> Byte(IF i = 1 THEN 128 ELSE 0)]
\* The lowest byte comes first, in SHA-256 too.
LengthOf(bits) == [i \in 1..LengthBytes |-> Byte(bits \div 256^(i - 1))]
Ended(h) == Update(Update(h, Padding(Len(h.buffer))), LengthOf(h.bits))
Finalize(h) == [i \in 1..DigestBytes |-> <<Ended(h).compressed, i>>]
HashOfBoth(a, b) == Finalize(Update(Update(Fresh, a), b))
HashOf(data) == Finalize(Update(Fresh, data))

-----------------------------------------------------------------------------
(* HMAC and HKDF                                                            *)

Shortened(key) == IF Len(key) > Block THEN HashOf(key) ELSE key
KeyBlock(key) == LET k == Shortened(key) IN [i \in 1..Block |-> IF i <= Len(k) THEN k[i] ELSE Byte(0)]
Masked(bytes, mask) == [i \in DOMAIN bytes |-> <<bytes[i], mask, "xor">>]
Hmac(key, msg) ==
    HashOfBoth(Masked(KeyBlock(key), 92), HashOfBoth(Masked(KeyBlock(key), 54), msg))

BlocksFor(n) == (n + DigestBytes - 1) \div DigestBytes
Hkdf(salt, ikm, info, n) ==
    LET prk == Hmac(salt, ikm)
        t[i \in 0..BlocksFor(n)] == IF i = 0 THEN <<>> ELSE Hmac(prk, t[i - 1] \o info \o <<Byte(i)>>)
    IN  SubSeq(FlattenSeq([i \in 1..BlocksFor(n) |-> t[i]]), 1, n)

-----------------------------------------------------------------------------
(* Pairing                                                                  *)

\* w is some digits of the digest of the code, all of them told by the code.
CodeToW(code) == [i \in 1..WDigits |-> <<HashOf(code), i, "w">>]
\* The number behind the digits: never zero, and below the order of the group.
Reduced(v) == IF v % (GroupN - 1) = 0 THEN 1 ELSE v % (GroupN - 1)
HexDigits(w, n) == [i \in 1..n |-> (w \div 16^(n - i)) % 16]
FromHex(digits) == FoldLeft(LAMBDA w, d : (w * 16 + d) % Width, 0, digits)

\* "arrow-sync-v1" and the byte behind it.
Info == <<Byte(118), Byte(49), Byte(0)>>
\* The key is that of a code on one device, whose own name it is filed under.
PairingKeyOfCode(code, uuid) == Hkdf(<<>>, HashOf(CodeToW(code)), Info, DigestBytes)   \* mutant: any device's
PairingKey(code, uuid) == Hkdf(<<>>, HashOfBoth(CodeToW(code), uuid), Info, DigestBytes)
Secret(code, uuid) == [at |-> <<"sync/peer/", uuid>>, key |-> PairingKey(code, uuid)]
Fingerprint(key) == FlattenSeq([i \in 1..DigestBytes |-> <<<<HashOf(key)[i], "high">>, <<HashOf(key)[i], "low">>>>])

ModMul(a, b) == (a * b) % GroupN
\* Without a 128-bit integer: what is doubled is cut to the width first.
RECURSIVE Doubled(_, _, _)
Doubled(result, a, b) ==
    IF b = 0 THEN result
    ELSE Doubled(IF b % 2 = 1 THEN ((result + a) % Width) % GroupN ELSE result, ((a + a) % Width) % GroupN, b \div 2)
ModMulPortable(a, b) == Doubled(0, a % GroupN, b)
RECURSIVE Raised(_, _, _)
Raised(result, base, exp) ==
    IF exp = 0 THEN result
    ELSE Raised(IF exp % 2 = 1 THEN ModMul(result, base) ELSE result, ModMul(base, base), exp \div 2)
ModPow(base, exp) == Raised(1, base % GroupN, exp)
Verifier(digits) == ModPow(GroupG, FromHex(digits))

-----------------------------------------------------------------------------

\* A digest is of the whole text, however it was handed over, and of no other:
\* the padding leaves whole blocks, and no two texts are padded alike.
DigestsTell(a, others) ==
    /\ Ended(Update(Fresh, a)).buffer = <<>>
    /\ \A cut \in 0..Len(a) : HashOfBoth(SubSeq(a, 1, cut), SubSeq(a, cut + 1, Len(a))) = HashOf(a)
    /\ \A b \in others : HashOf(a) = HashOf(b) => a = b

\* A code proves the message and the key, but for zeros behind a key that
\* leaves its block unfilled and for a key given in place of its digest.
MacsTell(key, msg, others, messages) ==
    \A k \in others, m \in messages :
        Hmac(key, msg) = Hmac(k, m) <=> msg = m /\ KeyBlock(key) = KeyBlock(k)

\* Asking for more of a derived key gives more of the same one.
Prefixed(n, derived) == \A k \in 0..n : Len(derived[k]) = k /\ SubSeq(derived[n], 1, k) = derived[k]
KeysGrow(ikm, info, n) == Prefixed(n, [k \in 0..n |-> Hkdf(<<>>, ikm, info, k)])

\* Two pairings come to one key only by one code on one device, and never are
\* two devices' keys filed in one place.
Told(code, uuid, secret) ==
    \A c \in {other[1] : other \in DOMAIN secret}, u \in {other[2] : other \in DOMAIN secret} :
        /\ secret[code, uuid].key = secret[c, u].key <=> code = c /\ uuid = u
        /\ secret[code, uuid].at = secret[c, u].at <=> uuid = u
        /\ Fingerprint(secret[code, uuid].key) = Fingerprint(secret[c, u].key) <=> code = c /\ uuid = u
PairingsTell(code, uuid, codes, uuids) ==
    Told(code, uuid, [c \in codes \cup {code}, u \in uuids \cup {uuid} |-> Secret(c, u)])

\* w reads back from its digits, and the power of g is the one it names; the
\* portable product is the product as long as no sum outgrows the width.
PowersHold(v) ==
    LET w == Reduced(v)
        digits == HexDigits(w, 2)
        power[n \in 0..w] == IF n = 0 THEN 1 ELSE (power[n - 1] * GroupG) % GroupN
    IN  /\ w \in 1..GroupN - 1 /\ FromHex(digits) = w /\ Verifier(digits) = power[w]
        /\ \A b \in 0..15 : w * 16 <= Width => ModMulPortable(w, b) = ModMul(w, b)
===============================================================================
