------------------------------ MODULE LinkProtocol ------------------------------
(***************************************************************************)
(* Envelopes in a stream of bytes (modules/comm/link): the encoder appends   *)
(* them, the way to the decoder cuts and damages the stream, and the  *)
(* decoder, which gets it in pieces, looks for envelopes by their prefixes   *)
(* and by their signatures or, when they are encrypted, by their size alone. *)
(*                                                                         *)
(* A byte of a prefix, of content, of a signature or of ciphertext is a cell: *)
(* what it looks like, and which byte of which envelope it really is.  The   *)
(* decoder sees the former; signatures and the cipher cannot be forged, so    *)
(* that they tell the latter.  A prefix is one cell.  The module LinkDecoder  *)
(* has what the decoder makes of the envelopes found.                       *)
(***************************************************************************)
EXTENDS Integers, SequencesExt

CONSTANTS
    SignedEnvelopes,
    EncryptedEnvelopes,
    SignedSize,         \* Envelope::size() of signed envelopes
    EncryptedSize,      \* and of encrypted ones
    Contents,           \* what bytes after the prefix may look like
    MaxEnvelopes,       \* bound: envelopes that are sent
    MaxAir,             \* bound: bytes under way
    MaxDamages          \* bound: damages on the way

AllEnvelopes == SignedEnvelopes \union EncryptedEnvelopes
Looks == AllEnvelopes \union Contents

\* Content may look like the prefix of a signed envelope.  That ciphertext looks
\* like the prefix of an encrypted one is left to chance by the code, and out
\* here.
ASSUME LinkProtocolAssumption ==
    /\ IsFiniteSet(AllEnvelopes) /\ SignedEnvelopes \intersect EncryptedEnvelopes = {}
    /\ Contents \intersect EncryptedEnvelopes = {}
    /\ SignedSize \in Nat \ {0, 1} /\ EncryptedSize \in Nat \ {0, 1}
    /\ MaxEnvelopes \in Nat /\ MaxAir \in Nat /\ MaxDamages \in Nat

VARIABLES
    air,            \* bytes under way
    inputBlob,      \* _input_blob
    found,          \* history: the envelopes found, 0 where there was none
    arrived,        \* history: all bytes that the decoder took
    produced,       \* history: envelopes sent
    damages         \* history: damages so far

protocolVars == <<air, inputBlob, found, arrived, produced, damages>>

\* Operators named Mut... are the defects the properties are tested with; nothing
\* uses them.

PrefixSize == 1
Longer == IF SignedSize > EncryptedSize THEN SignedSize ELSE EncryptedSize
Size(e) == IF e \in SignedEnvelopes THEN SignedSize ELSE EncryptedSize

\* Byte i of the n-th envelope, which is an e; and one that is of none.
Cell(look, e, n, i) == [look |-> look, of |-> e, n |-> n, i |-> i]
Noise(look) == Cell(look, look, 0, 0)
Cells == [look : Looks, of : Looks, n : 0 .. MaxEnvelopes, i : 0 .. Longer]

-----------------------------------------------------------------------------
(***************************************************************************)
(* The encoder.                                                            *)
(***************************************************************************)

\* LinkEncoder::send_output(), one Envelope::produce_append() of it: whether and in
\* which order envelopes are sent is up to _send_every, their predicates and the
\* secure channel.
SendEnvelope(e) ==
    \E looks \in [1 .. Size(e) -> Contents] :
        LET n == produced + 1
            envelope == <<Cell(e, e, n, 0)>> \o [i \in 1 .. Size(e) |-> Cell(looks[i], e, n, i)]
        IN /\ produced < MaxEnvelopes
           /\ Len(air) + Len(envelope) <= MaxAir
           /\ produced' = n
           /\ air' = air \o envelope
           /\ UNCHANGED <<inputBlob, found, arrived, damages>>

-----------------------------------------------------------------------------
(***************************************************************************)
(* The way between them (external).  Bytes are altered and added by the      *)
(* radio, and lost: by the radio, because the socket is assigned again before *)
(* the decoder is processed, or because it is assigned what it holds, which   *)
(* does not change its serial, so that process() does not look at it.        *)
(***************************************************************************)
Damage ==
    /\ damages < MaxDamages
    /\ damages' = damages + 1
    /\ \E i \in DOMAIN air :
        \/ \E j \in i .. Len(air) :
                air' = SubSeq(air, 1, i - 1) \o SubSeq(air, j + 1, Len(air))
        \/ \E look \in Looks : air' = [air EXCEPT ![i] = Noise(look)]
        \/ \E look \in Looks : air' = InsertAt(air, i, Noise(look))
    /\ UNCHANGED <<inputBlob, found, arrived, produced>>

-----------------------------------------------------------------------------
(***************************************************************************)
(* The decoder.                                                            *)
(***************************************************************************)

\* Signature::consume(), SecureChannel::decrypt_packet(): the number of the
\* envelope e that these cells are the body of, or 0.
Verified(e, cells) ==
    LET n == cells[1].n
    IN IF \A i \in DOMAIN cells : cells[i].of = e /\ cells[i].n = n /\ cells[i].i = i
       THEN n ELSE 0

\* Envelope::consume(), is this body taken for an e?  What is encrypted is skipped
\* as a whole whatever it holds; a wrong signature is a parse error.
MutAcceptsAll(e, body) == e \in AllEnvelopes
Accepts(e, body) ==
    e \in EncryptedEnvelopes \/ (e \in SignedEnvelopes /\ Verified(e, body) # 0)

\* LinkProtocol::consume() from the cell b on, with what it does from later ones:
\* where it ends and what it finds.
ConsumeAt(cells, b, from) ==
    LET left == Len(cells) + 1 - b
        e == cells[b].look
        body == SubSeq(cells, b + PrefixSize, b + PrefixSize + Size(e) - 1)
    IN IF left <= PrefixSize + 1 \/ (e \in AllEnvelopes /\ left - PrefixSize < Size(e))
       THEN [end |-> b, found |-> <<>>]
       ELSE IF Accepts(e, body)
       THEN [from[b + PrefixSize + Size(e)] EXCEPT !.found = <<Verified(e, body)>> \o @]
       ELSE from[b + 1]

Consume(cells) ==
    LET from[b \in 1 .. Len(cells) + 1] == ConsumeAt(cells, b, from) IN from[1]

\* LinkDecoder::process() with the next n bytes.
ProcessBytes(n) ==
    LET blob == inputBlob \o SubSeq(air, 1, n)
        result == Consume(blob)
    IN /\ inputBlob' = SubSeq(blob, result.end, Len(blob))
       /\ found' = found \o result.found
       /\ air' = SubSeq(air, n + 1, Len(air))
       /\ arrived' = arrived \o SubSeq(air, 1, n)
       /\ UNCHANGED <<produced, damages>>

-----------------------------------------------------------------------------
ProtocolInit ==
    /\ air = <<>> /\ inputBlob = <<>>
    /\ arrived = <<>> /\ found = <<>>
    /\ produced = 0 /\ damages = 0

ProtocolNext ==
    \/ \E e \in AllEnvelopes : SendEnvelope(e)
    \/ Damage
    \/ \E n \in DOMAIN air : ProcessBytes(n)

ProtocolSpec == ProtocolInit /\ [][ProtocolNext]_protocolVars

-----------------------------------------------------------------------------
(***************************************************************************)
(* Properties.                                                             *)
(***************************************************************************)

ProtocolTypeOK ==
    /\ air \in Seq(Cells) /\ inputBlob \in Seq(Cells) /\ arrived \in Seq(Cells)
    /\ found \in Seq(0 .. MaxEnvelopes)
    /\ produced \in 0 .. MaxEnvelopes /\ damages \in 0 .. MaxDamages

\* Is the byte at place q followed by the one that was sent next?
Intact(cells, q) ==
    LET c == cells[q]
        d == cells[q + 1]
    IN \/ d.n = c.n /\ d.i = c.i + 1
       \/ d.n > c.n /\ d.i = 0 /\ c.i = Size(c.of)

\* Is a whole envelope at place p, with enough behind its beginning that nothing
\* seen before it can keep the decoder waiting?
BodyAt(cells, p) ==
    \A i \in 0 .. Size(cells[p].of) : cells[p + i].n = cells[p].n /\ cells[p + i].i = i
WholeAt(cells, p) ==
    /\ cells[p].n # 0
    /\ p + PrefixSize + Longer - 1 <= Len(cells)
    /\ BodyAt(cells, p)

\* Is the stream as it was sent, as far before place p as a false prefix can make
\* LinkProtocol::consume() skip: the size of an encrypted envelope?
Reach == PrefixSize + EncryptedSize - 1
IntactBefore(cells, p) ==
    \A q \in DOMAIN cells : q < p /\ q >= p - Reach => Intact(cells, q)

\* However the stream is cut: damage to it costs the envelopes that it hits, and
\* those that begin within reach behind it.  All others are found, and none is
\* found twice.
DamageIsLocal ==
    /\ \A p \in DOMAIN arrived :
        WholeAt(arrived, p) /\ IntactBefore(arrived, p) =>
            \E k \in DOMAIN found : found[k] = arrived[p].n
    /\ \A j, k \in DOMAIN found : found[j] = found[k] /\ found[j] # 0 => j = k
===============================================================================
