---------------------------- MODULE PacketDelivery ----------------------------
(***************************************************************************)
(* What one direction of an XLE channel promises the layer above it,       *)
(* whatever the link loses, repeats, delays or reorders: a packet is        *)
(* delivered only if the other end made it, no packet is delivered twice,   *)
(* and the packets of one session are delivered in the order they were      *)
(* made.  Sessions may interleave: nothing is promised between two keys.    *)
(* A packet is a record with the key's hid and run, and a number seq.       *)
(***************************************************************************)
EXTENDS Naturals, Sequences

VARIABLES
    made,   \* the packets the sender encrypted
    got     \* the packets the receiver delivered, in order

SameSession(p, q) == p.hid = q.hid /\ p.run = q.run

\* The sender makes packets in the order of their sequence numbers.
Make(p) ==
    /\ \A q \in made : SameSession(p, q) => q.seq < p.seq
    /\ made' = made \union {p}
    /\ UNCHANGED got

\* The receiver takes a packet newer than all it has of the same session.
Deliver(p) ==
    /\ \A i \in DOMAIN got : SameSession(p, got[i]) => got[i].seq < p.seq
    /\ got' = Append(got, p)
    /\ UNCHANGED made

Init == made = {} /\ got = <<>>

Next == \/ \E p \in made' \ made : Make(p)
        \/ \E p \in made : Deliver(p)

Spec == Init /\ [][Next]_<<made, got>>
=============================================================================
