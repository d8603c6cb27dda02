--------------------------- MODULE LinkDecoderProofs ---------------------------
(***************************************************************************)
(* Proofs about the decoder: about LinkDecoder, for every protocol and every *)
(* setting of the two timers, and about LinkProtocol, for every size of      *)
(* envelopes, every damage and every way in which the stream is cut.         *)
(*                                                                         *)
(* LinkDecoder: a running failsafe timer and the silence since the last      *)
(* valid envelope add up to failsafe_after (FailsafeCounts); a running       *)
(* reacquire timer was started no earlier than the last byte in error        *)
(* (ReacquireCounts), and by a valid envelope, so that with the shorter of   *)
(* the two delays it is always ahead of the failsafe timer (ReacquireAhead). *)
(*                                                                         *)
(* LinkProtocol: the bytes that are not noise arrive in the order in which    *)
(* they were sent (StreamInOrder); what the decoder holds is the rest of      *)
(* them (BlobIsRest); what it has found says what was there to find before    *)
(* that rest (Taken), and it waits only for what may still be an envelope     *)
(* (Waits).  That consume() keeps Taken, from each place in its input to the  *)
(* end, is by induction from the end.  So is that it does on a longer input   *)
(* what it does on the shorter one and then on the rest, with which the cuts  *)
(* do not matter.                                                          *)
(***************************************************************************)
EXTENDS LinkDecoder, LinkProtocol, SequenceTheorems, WellFoundedInduction, TLAPS

FailsafeCounts ==
    failsafeTimer # Nil =>
        /\ FailsafeAfter # Nil
        /\ failsafeTimer + silence = FailsafeAfter

ReacquireCounts ==
    reacquireTimer # Nil =>
        /\ ReacquireAfter # Nil
        /\ reacquireTimer <= ReacquireAfter
        /\ reacquireTimer + clean >= ReacquireAfter

\* A link fails only by its failsafe timer.
FailsByTimer == linkValid = FALSE => FailsafeAfter # Nil

ReacquireAhead ==
    ReacquireSooner /\ FailsafeAfter # Nil /\ reacquireTimer # Nil =>
        /\ failsafeTimer # Nil
        /\ reacquireTimer < failsafeTimer

ValidIsWatched ==
    ReacquireSooner /\ FailsafeAfter # Nil /\ linkValid = TRUE =>
        failsafeTimer # Nil

Inv ==
    /\ LinkTypeOK
    /\ FailsafeCounts
    /\ ReacquireCounts
    /\ FailsByTimer
    /\ ReacquireAhead
    /\ ValidIsWatched
    /\ FailedMeansCleared

LEMMA LongestOK ==
    ASSUME LinkAssumption
    PROVE  /\ Longest \in Nat
           /\ FailsafeAfter # Nil => FailsafeAfter \in Nat \ {0} /\ FailsafeAfter < Longest
           /\ ReacquireAfter # Nil => ReacquireAfter \in Nat \ {0} /\ ReacquireAfter < Longest
  BY DEF LinkAssumption, Longest

LEMMA InitInv == ASSUME LinkAssumption, LinkInit PROVE Inv
  <1>1. LinkTypeOK
    BY LongestOK DEF LinkInit, LinkTypeOK, LinkAssumption, Outcomes
  <1> QED
    BY <1>1 DEF LinkInit, Inv, FailsafeCounts, ReacquireCounts, FailsByTimer,
                ReacquireAhead, ValidIsWatched, FailedMeansCleared, LinkAssumption

-----------------------------------------------------------------------------
\* process() with outcomes o.
LEMMA ProcessInv ==
    ASSUME LinkAssumption, Inv,
           NEW o \in [Envelopes -> Outcomes],
           NEW given \in [Envelopes -> Values \union {Nil}],
           NEW error \in BOOLEAN,
           ProcessInput(o, given, error)
    PROVE  Inv'
  <1> USE DEF Inv
  <1> DEFINE valid == \E e \in Envelopes : o[e] # "absent"
  <1>0. /\ held' = [e \in Envelopes |-> IF o[e] = "good" THEN given[e] ELSE held[e]]
        /\ out' = [e \in Envelopes |-> SocketAfter(e, o[e], held'[e])]
        /\ linkValid' = IF linkValid = Nil /\ valid THEN TRUE ELSE linkValid
        /\ reacquireTimer' = ReacquireTimerAfter(valid, error, linkValid')
        /\ failsafeTimer' = FailsafeTimerAfter(valid)
        /\ last' = o
        /\ silence' = IF valid THEN 0 ELSE silence
        /\ clean' = IF error THEN 0 ELSE clean
        /\ channelReady' = channelReady
    BY DEF ProcessInput
  <1> HIDE DEF valid
  <1>t. /\ failsafeTimer' = IF valid THEN FailsafeAfter ELSE failsafeTimer
        /\ reacquireTimer' \in {reacquireTimer, Nil, ReacquireAfter}
        /\ reacquireTimer' # Nil /\ reacquireTimer' # reacquireTimer =>
             valid /\ reacquireTimer' = ReacquireAfter
        /\ reacquireTimer' # Nil /\ error => valid /\ reacquireTimer' = ReacquireAfter
    BY <1>0 DEF FailsafeTimerAfter, ReacquireTimerAfter
  <1>1. LinkTypeOK'
    <2>1. held' \in [Envelopes -> Values \union {Nil}]
      BY <1>0 DEF LinkTypeOK
    <2>2. \A e \in Envelopes : SocketAfter(e, o[e], held'[e]) \in Values \union {Nil}
      BY <2>1 DEF LinkTypeOK, SocketAfter, Applied, Cleared
    <2>3. out' \in [Envelopes -> Values \union {Nil}]
      BY <1>0, <2>2
    <2>4. linkValid' \in BOOLEAN \union {Nil}
      BY <1>0 DEF LinkTypeOK
    <2>5. /\ failsafeTimer' \in Nat \union {Nil}
          /\ reacquireTimer' \in Nat \union {Nil}
      BY <1>t DEF LinkTypeOK, LinkAssumption
    <2>6. silence' \in Nat /\ clean' \in Nat
      BY <1>0 DEF LinkTypeOK
    <2>7. channelReady' \in BOOLEAN /\ last' \in [Envelopes -> Outcomes]
      BY <1>0 DEF LinkTypeOK
    <2> QED
      BY <2>1, <2>3, <2>4, <2>5, <2>6, <2>7 DEF LinkTypeOK
  <1>2. FailsafeCounts'
    BY <1>0, <1>t, LongestOK DEF FailsafeCounts
  <1>3. ReacquireCounts'
    <2> SUFFICES ASSUME reacquireTimer' # Nil
                 PROVE  /\ ReacquireAfter # Nil
                        /\ reacquireTimer' <= ReacquireAfter
                        /\ reacquireTimer' + clean' >= ReacquireAfter
      BY DEF ReacquireCounts
    <2>1. clean \in Nat /\ reacquireTimer \in Nat \union {Nil}
      BY DEF LinkTypeOK
    <2>2. CASE reacquireTimer' = ReacquireAfter
      <3>1. ReacquireAfter \in Nat /\ ReacquireAfter # Nil
        BY <2>2 DEF LinkAssumption
      <3>2. clean' \in Nat
        BY <1>0, <2>1
      <3>3. \A r, n \in Nat : r <= r /\ r + n >= r
        OBVIOUS
      <3> QED
        BY <2>2, <3>1, <3>2, <3>3, Zenon
    <2>3. CASE reacquireTimer' = reacquireTimer /\ reacquireTimer' # ReacquireAfter
      <3>1. ~error
        BY <1>t, <2>3
      <3>2. clean' = clean
        BY <1>0, <3>1
      <3> QED
        BY <2>3, <3>2 DEF ReacquireCounts
    <2> QED
      BY <1>t, <2>2, <2>3
  <1>4. ReacquireAhead'
    <2> SUFFICES ASSUME ReacquireSooner, FailsafeAfter # Nil, reacquireTimer' # Nil
                 PROVE  failsafeTimer' # Nil /\ reacquireTimer' < failsafeTimer'
      BY DEF ReacquireAhead, ReacquireSooner
    <2>1. CASE reacquireTimer' = reacquireTimer
      BY <1>t, <2>1 DEF ReacquireAhead, ReacquireCounts, ReacquireSooner, FailsafeCounts,
                        LinkTypeOK, LinkAssumption
    <2>2. CASE reacquireTimer' # reacquireTimer
      BY <1>t, <2>2 DEF ReacquireSooner, LinkAssumption
    <2> QED
      BY <2>1, <2>2
  <1>5. ValidIsWatched'
    BY <1>0, <1>t DEF ValidIsWatched, ReacquireSooner, LinkAssumption
  <1>6. FailedMeansCleared'
    <2> SUFFICES ASSUME linkValid' = FALSE, failsafeTimer' = Nil
                 PROVE  \A e \in Envelopes \ Retained : out'[e] = Nil
      BY DEF FailedMeansCleared
    <2>1. ~valid
      <3>1. CASE linkValid = FALSE
        BY <1>t, <3>1 DEF FailsByTimer
      <3>2. CASE linkValid # FALSE
        BY <1>0, <3>2
      <3> QED
        BY <3>1, <3>2
    <2>2. linkValid = FALSE /\ failsafeTimer = Nil
      BY <1>0, <1>t, <2>1
    <2>3. \A e \in Envelopes : out'[e] = out[e]
      BY <1>0, <2>1 DEF valid, SocketAfter
    <2> QED
      BY <2>2, <2>3 DEF FailedMeansCleared
  <1>7. FailsByTimer'
    <2>1. linkValid' = FALSE => linkValid = FALSE
      BY <1>0
    <2> QED
      BY <2>1 DEF FailsByTimer
  <1> QED
    BY <1>1, <1>2, <1>3, <1>4, <1>5, <1>6, <1>7 DEF Inv

LEMMA FailsafeInv ==
    ASSUME LinkAssumption, Inv, Failsafe
    PROVE  Inv'
  <1> USE DEF Inv
  <1>0. /\ failsafeTimer = 0 /\ failsafeTimer' = Nil
        /\ linkValid' = FALSE
        /\ out' = [e \in Envelopes |-> Cleared(e)]
        /\ UNCHANGED <<reacquireTimer, channelReady, held, last, silence, clean>>
    BY DEF Failsafe
  <1>1. LinkTypeOK'
    <2>1. \A e \in Envelopes : Cleared(e) \in Values \union {Nil}
      BY DEF Cleared, LinkTypeOK
    <2>2. out' \in [Envelopes -> Values \union {Nil}]
      BY <1>0, <2>1
    <2> QED
      BY <1>0, <2>2 DEF LinkTypeOK
  <1>2. FailsafeAfter # Nil
    BY <1>0 DEF FailsafeCounts, LinkAssumption
  <1>3. ReacquireCounts' /\ FailsafeCounts' /\ FailsByTimer' /\ ValidIsWatched'
    BY <1>0, <1>2 DEF ReacquireCounts, FailsafeCounts, FailsByTimer, ValidIsWatched
  <1>4. ReacquireAhead'
    <2>1. ReacquireSooner => reacquireTimer = Nil
      BY <1>0, <1>2 DEF ReacquireAhead, LinkTypeOK
    <2> QED
      BY <1>0, <2>1 DEF ReacquireAhead, ReacquireSooner
  <1>5. FailedMeansCleared'
    BY <1>0 DEF FailedMeansCleared, Cleared
  <1> QED
    BY <1>1, <1>3, <1>4, <1>5 DEF Inv

LEMMA ReacquireInv ==
    ASSUME LinkAssumption, Inv, Reacquire
    PROVE  Inv'
  <1> USE DEF Inv
  <1>0. /\ reacquireTimer = 0 /\ reacquireTimer' = Nil
        /\ linkValid' = TRUE
        /\ UNCHANGED <<failsafeTimer, channelReady, held, out, last, silence, clean>>
    BY DEF Reacquire
  <1>1. LinkTypeOK'
    BY <1>0 DEF LinkTypeOK
  <1>2. ReacquireCounts' /\ FailsafeCounts' /\ FailsByTimer' /\ ReacquireAhead'
        /\ FailedMeansCleared'
    BY <1>0 DEF ReacquireCounts, FailsafeCounts, FailsByTimer, ReacquireAhead,
                FailedMeansCleared
  <1>3. ValidIsWatched'
    <2>1. reacquireTimer # Nil
      BY <1>0 DEF LinkAssumption
    <2> QED
      BY <1>0, <2>1 DEF ReacquireAhead, ValidIsWatched, ReacquireSooner
  <1> QED
    BY <1>1, <1>2, <1>3 DEF Inv

LEMMA TickInv ==
    ASSUME LinkAssumption, Inv, Tick
    PROVE  Inv'
  <1> USE DEF Inv
  <1>0. /\ failsafeTimer # 0 /\ reacquireTimer # 0
        /\ failsafeTimer' = IF failsafeTimer = Nil THEN Nil ELSE failsafeTimer - 1
        /\ reacquireTimer' = IF reacquireTimer = Nil THEN Nil ELSE reacquireTimer - 1
        /\ silence' = Later(silence) /\ clean' = Later(clean)
        /\ UNCHANGED <<linkValid, channelReady, held, out, last>>
    BY DEF Tick
  <1>L. /\ Longest \in Nat
        /\ FailsafeAfter # Nil => FailsafeAfter \in Nat \ {0} /\ FailsafeAfter < Longest
        /\ ReacquireAfter # Nil => ReacquireAfter \in Nat \ {0} /\ ReacquireAfter < Longest
    BY LongestOK
  <1>t. /\ failsafeTimer \in Nat \union {Nil} /\ reacquireTimer \in Nat \union {Nil}
        /\ silence \in Nat /\ clean \in Nat
        /\ failsafeTimer # Nil => failsafeTimer' \in Nat /\ failsafeTimer' = failsafeTimer - 1
        /\ reacquireTimer # Nil => reacquireTimer' \in Nat /\ reacquireTimer' = reacquireTimer - 1
        /\ failsafeTimer = Nil <=> failsafeTimer' = Nil
        /\ reacquireTimer = Nil <=> reacquireTimer' = Nil
    BY <1>0 DEF LinkTypeOK, LinkAssumption
  <1>1. LinkTypeOK'
    <2>1. silence' \in Nat /\ clean' \in Nat
      BY <1>0, <1>L, <1>t DEF Later
    <2>2. failsafeTimer' \in Nat \union {Nil} /\ reacquireTimer' \in Nat \union {Nil}
      BY <1>0, <1>t
    <2> QED
      BY <1>0, <2>1, <2>2 DEF LinkTypeOK
  <1>2. FailsafeCounts'
    BY <1>0, <1>L, <1>t DEF FailsafeCounts, Later
  <1>3. ReacquireCounts'
    BY <1>0, <1>L, <1>t DEF ReacquireCounts, Later
  <1>4. ReacquireAhead' /\ ValidIsWatched' /\ FailsByTimer' /\ FailedMeansCleared'
    BY <1>0, <1>t DEF ReacquireAhead, ValidIsWatched, FailsByTimer,
                      FailedMeansCleared, ReacquireSooner
  <1> QED
    BY <1>1, <1>2, <1>3, <1>4 DEF Inv

LEMMA SameInv ==
    ASSUME Inv, channelReady' \in BOOLEAN,
           UNCHANGED <<linkValid, failsafeTimer, reacquireTimer, held, out, last,
                       silence, clean>>
    PROVE  Inv'
  BY DEF Inv, LinkTypeOK, FailsafeCounts, ReacquireCounts, FailsByTimer, ReacquireAhead,
         ValidIsWatched, FailedMeansCleared, ReacquireSooner

LEMMA NextInv ==
    ASSUME LinkAssumption, Inv, [LinkNext]_linkVars
    PROVE  Inv'
  <1>1. CASE UNCHANGED linkVars
    BY <1>1, SameInv DEF linkVars, Inv, LinkTypeOK
  <1>2. ASSUME NEW o \in [Envelopes -> Outcomes],
               NEW given \in [Envelopes -> Values \union {Nil}],
               NEW error \in BOOLEAN, ProcessInput(o, given, error)
        PROVE  Inv'
    BY <1>2, ProcessInv
  <1>3. CASE Failsafe
    BY <1>3, FailsafeInv
  <1>4. CASE Reacquire
    BY <1>4, ReacquireInv
  <1>5. CASE ChannelChanges
    BY <1>5, SameInv DEF ChannelChanges
  <1>6. CASE Tick
    BY <1>6, TickInv
  <1> QED
    BY <1>1, <1>2, <1>3, <1>4, <1>5, <1>6 DEF LinkNext

LEMMA Invariance == ASSUME LinkAssumption PROVE LinkSpec => []Inv
  <1>1. LinkInit => Inv
    BY InitInv
  <1>2. Inv /\ [LinkNext]_linkVars => Inv'
    BY NextInv
  <1> QED
    BY <1>1, <1>2, PTL DEF LinkSpec

-----------------------------------------------------------------------------
\* The decoder's state keeps its types.
THEOREM TypeCorrect == ASSUME LinkAssumption PROVE LinkSpec => []LinkTypeOK
  <1>1. Inv => LinkTypeOK
    BY DEF Inv
  <1> QED
    BY <1>1, Invariance, PTL

\* With the reacquire delay shorter than the failsafe delay, a link that is
\* marked valid has had a valid envelope within the failsafe delay, however
\* process() and the timers interleave.
THEOREM SilenceAlwaysNoticed ==
    ASSUME LinkAssumption PROVE LinkSpec => []SilenceIsNoticed
  <1>1. Inv => SilenceIsNoticed
    <2> SUFFICES ASSUME Inv, ReacquireSooner, FailsafeAfter # Nil, linkValid = TRUE
                 PROVE  silence <= FailsafeAfter
      BY DEF SilenceIsNoticed
    <2>1. failsafeTimer # Nil
      BY DEF Inv, ValidIsWatched
    <2> QED
      BY <2>1 DEF Inv, FailsafeCounts, LinkTypeOK
  <1> QED
    BY <1>1, Invariance, PTL

\* While a link is failed and silent, sockets that do not retain are nil.
THEOREM FailedAlwaysCleared ==
    ASSUME LinkAssumption PROVE LinkSpec => []FailedMeansCleared
  <1>1. Inv => FailedMeansCleared
    BY DEF Inv
  <1> QED
    BY <1>1, Invariance, PTL

\* A failed link is trusted again only after reacquire_after without an error.
THEOREM TrustedWhenStable ==
    ASSUME LinkAssumption PROVE LinkSpec => TrustedOnlyWhenStable
  <1>1. Inv /\ [LinkNext]_linkVars => [Reacquired => clean >= ReacquireAfter]_linkVars
    <2> SUFFICES ASSUME Inv, LinkNext, linkValid = FALSE, linkValid' = TRUE
                 PROVE  clean >= ReacquireAfter
      BY DEF Reacquired
    <2>1. CASE Reacquire
      <3>1. reacquireTimer = 0
        BY <2>1 DEF Reacquire
      <3>2. 0 # Nil /\ clean \in Nat
        BY LinkAssumption DEF LinkAssumption, Inv, LinkTypeOK
      <3> QED
        BY <3>1, <3>2 DEF Inv, ReacquireCounts
    <2>2. CASE ~Reacquire
      BY <2>2 DEF LinkNext, ProcessInput, Failsafe, ChannelChanges, Tick
    <2> QED
      BY <2>1, <2>2
  <1> QED
    BY <1>1, Invariance, PTL DEF LinkSpec, TrustedOnlyWhenStable

-----------------------------------------------------------------------------
(***************************************************************************)
(* Envelopes in a stream of bytes: LinkProtocol.                           *)
(***************************************************************************)
\* A cell as the encoder or the way makes it.
WellFormed(c) ==
    /\ c \in Cells
    /\ c.n = 0 => c.i = 0
    /\ c.n # 0 =>
        /\ c.of \in AllEnvelopes
        /\ c.i <= Size(c.of)
        /\ IF c.i = 0 THEN c.look = c.of ELSE c.look \in Contents

\* Was the cell d sent after the cell c?
After(c, d) ==
    c.n # 0 /\ d.n # 0 =>
        \/ c.n < d.n
        \/ c.n = d.n /\ c.of = d.of /\ c.i < d.i

Made(cells, n) == \A q \in DOMAIN cells : WellFormed(cells[q]) /\ cells[q].n <= n
InOrder(cells) == \A q, r \in DOMAIN cells : q < r => After(cells[q], cells[r])

StreamInOrder ==
    /\ Made(arrived, produced) /\ Made(air, produced)
    /\ InOrder(arrived) /\ InOrder(air)
    /\ \A q \in DOMAIN arrived, r \in DOMAIN air : After(arrived[q], air[r])

\* What the decoder has got out of the cells before place c.
NoneIsMissed(cells, c, f) ==
    \A p \in 1 .. c - 1 :
        cells[p].n # 0 /\ cells[p].i = 0 /\ IntactBefore(cells, p) =>
            /\ p + Size(cells[p].of) <= Len(cells)
            /\ BodyAt(cells, p) => \E k \in DOMAIN f : f[k] = cells[p].n
EachIsThere(cells, c, f) ==
    \A k \in DOMAIN f :
        f[k] # 0 => \E w \in 1 .. c - 1 : cells[w].n = f[k] /\ cells[w].i = 1
NoneIsTwice(f) == \A j, k \in DOMAIN f : f[j] = f[k] /\ f[j] # 0 => j = k
Taken(cells, c, f) ==
    NoneIsMissed(cells, c, f) /\ EachIsThere(cells, c, f) /\ NoneIsTwice(f)

\* Does LinkProtocol::consume() wait for more at place b?
Waits(cells, b) ==
    LET left == Len(cells) + 1 - b
        e == cells[b].look
    IN left <= PrefixSize + 1 \/ (e \in AllEnvelopes /\ left - PrefixSize < Size(e))

Rest == Len(arrived) - Len(inputBlob)
BlobIsRest ==
    /\ Rest \in Nat
    /\ \A b \in DOMAIN inputBlob : inputBlob[b] = arrived[Rest + b]

DecoderInv ==
    /\ ProtocolTypeOK
    /\ StreamInOrder
    /\ BlobIsRest
    /\ Taken(arrived, Rest + 1, found)
    /\ Waits(arrived, Rest + 1)

-----------------------------------------------------------------------------
\* Sizes and prefixes.

LEMMA SizesAre ==
    ASSUME LinkProtocolAssumption
    PROVE  /\ PrefixSize = 1
           /\ Longer \in Nat
           /\ EncryptedSize \in Nat \ {0, 1}
           /\ \A e : Size(e) \in Nat \ {0, 1} /\ Size(e) <= Longer
           /\ \A e \in EncryptedEnvelopes : Size(e) = EncryptedSize
           /\ Reach = EncryptedSize
  BY DEF LinkProtocolAssumption, PrefixSize, Longer, Size, Reach

\* Where the decoder does not wait, at least two cells follow, and the body of
\* what looks like the prefix of an envelope is there.
LEMMA DoesNotWait ==
    ASSUME LinkProtocolAssumption, NEW cells \in Seq(Cells), NEW b \in 1 .. Len(cells) + 1,
           ~Waits(cells, b)
    PROVE  /\ b + 2 <= Len(cells)
           /\ cells[b].look \in AllEnvelopes => b + Size(cells[b].look) <= Len(cells)
  <1> DEFINE L == Len(cells)
             size == Size(cells[b].look)
  <1>1. L \in Nat /\ size \in Nat
    BY SizesAre
  <1>2. ~(L + 1 - b <= 2) /\ (cells[b].look \in AllEnvelopes => ~(L + 1 - b - 1 < size))
    BY SizesAre DEF Waits
  <1> HIDE DEF L, size
  <1>3. b + 2 <= L /\ (cells[b].look \in AllEnvelopes => b + size <= L)
    BY <1>1, <1>2
  <1> QED
    BY <1>3 DEF L, size

-----------------------------------------------------------------------------
\* Induction over the natural numbers, with a set in place of a predicate.
LEMMA NaturalsByInduction ==
    ASSUME NEW T, 0 \in T, \A n \in Nat : n \in T => n + 1 \in T
    PROVE  Nat \subseteq T
  <1> SUFFICES ASSUME Nat \ T # {} PROVE FALSE
    OBVIOUS
  <1>1. PICK n \in Nat \ T : \A m \in Nat \ T : <<m, n>> \notin OpToRel(<, Nat)
    BY NatLessThanWellFounded, WFMin
  <1>2. n - 1 \in Nat /\ n - 1 < n
    BY SMT
  <1>3. <<n - 1, n>> \in OpToRel(<, Nat)
    BY <1>2 DEF OpToRel
  <1>4. n - 1 \in T
    BY <1>1, <1>2, <1>3
  <1> QED
    BY <1>2, <1>4

\* Induction over the places of a sequence, from behind its end.
LEMMA FromTheEnd ==
    ASSUME NEW M \in Nat, NEW T,
           \A b \in 1 .. M + 1 : (\A c \in b + 1 .. M + 1 : c \in T) => b \in T
    PROVE  1 .. M + 1 \subseteq T
  <1> DEFINE K == {k \in Nat : k <= M => \A c \in M + 1 - k .. M + 1 : c \in T}
  <1>1. 0 \in K
    <2>1. \A c \in M + 1 - 0 .. M + 1 : c \in 1 .. M + 1 /\ ~\E d : d \in c + 1 .. M + 1
      OBVIOUS
    <2> QED
      BY <2>1
  <1>2. ASSUME NEW k \in Nat, k \in K
        PROVE  k + 1 \in K
    <2> SUFFICES ASSUME k + 1 <= M, NEW c \in M + 1 - (k + 1) .. M + 1
                 PROVE  c \in T
      OBVIOUS
    <2>1. \A d \in M + 1 - k .. M + 1 : d \in T
      BY <1>2
    <2>2. CASE c \in M + 1 - k .. M + 1
      BY <2>1, <2>2
    <2>3. CASE c + 1 = M + 1 - k
      <3>1. c \in 1 .. M + 1
        OBVIOUS
      <3> QED
        BY <2>1, <2>3, <3>1
    <2> QED
      BY <2>2, <2>3
  <1>3. Nat \subseteq K
    <2> HIDE DEF K
    <2> QED BY <1>1, <1>2, NaturalsByInduction
  <1>4. \A c \in M + 1 - M .. M + 1 : c \in T
    BY <1>3
  <1>5. M + 1 - M = 1
    OBVIOUS
  <1> QED
    BY <1>4, <1>5

\* LinkProtocol::consume() from each place on, for the k last cells.
IsConsume(from, cells, k) ==
    from = [b \in Len(cells) + 1 - k .. Len(cells) + 1 |-> ConsumeAt(cells, b, from)]

\* What consume() does at a place depends on later places only.
LEMMA ConsumeLooksAhead ==
    ASSUME LinkProtocolAssumption, NEW cells \in Seq(Cells), NEW b \in 1 .. Len(cells) + 1,
           NEW f, NEW g, \A c \in b + 1 .. Len(cells) + 1 : f[c] = g[c]
    PROVE  ConsumeAt(cells, b, f) = ConsumeAt(cells, b, g)
  <1> DEFINE L == Len(cells)
             e == cells[b].look
             body == SubSeq(cells, b + PrefixSize, b + PrefixSize + Size(e) - 1)
  <1>1. CASE Waits(cells, b)
    BY <1>1 DEF ConsumeAt, Waits
  <1>2. CASE ~Waits(cells, b)
    <2>1. L \in Nat /\ Size(e) \in Nat \ {0, 1} /\ PrefixSize = 1
      BY SizesAre
    <2>2. b + 2 <= L /\ (e \in AllEnvelopes => b + Size(e) <= L)
      BY <1>2, DoesNotWait
    <2>3. Accepts(e, body) => e \in AllEnvelopes
      BY DEF Accepts, AllEnvelopes
    <2>4. f[b + 1] = g[b + 1]
      <3> HIDE DEF e, body
      <3> QED BY <2>1, <2>2
    <2>5. Accepts(e, body) => f[b + PrefixSize + Size(e)] = g[b + PrefixSize + Size(e)]
      <3>1. \A s \in Nat : b + s <= L => b + 1 + s \in b + 1 .. L + 1
        BY <2>1
      <3> HIDE DEF e, body
      <3> QED BY <2>1, <2>2, <2>3, <3>1
    <2> QED
      BY <1>2, <2>4, <2>5, Zenon DEF ConsumeAt, Waits
  <1> QED
    BY <1>1, <1>2

LEMMA ConsumeExists ==
    ASSUME LinkProtocolAssumption, NEW cells \in Seq(Cells)
    PROVE  \E from : from = [b \in 1 .. Len(cells) + 1 |-> ConsumeAt(cells, b, from)]
  <1> DEFINE L == Len(cells)
             T == {k \in Nat : k <= L => \E from : IsConsume(from, cells, k)}
  <1>1. L \in Nat
    OBVIOUS
  <1>2. 0 \in T
    <2> DEFINE final == [b \in L + 1 - 0 .. L + 1 |-> ConsumeAt(cells, b, <<>>)]
    <2>1. ASSUME NEW b \in L + 1 - 0 .. L + 1
          PROVE  ConsumeAt(cells, b, <<>>) = ConsumeAt(cells, b, final)
      <3>1. b \in 1 .. L + 1 /\ ~\E c : c \in b + 1 .. L + 1
        BY <1>1
      <3> HIDE DEF final
      <3> QED BY <3>1, ConsumeLooksAhead
    <2>2. IsConsume(final, cells, 0)
      BY <2>1 DEF IsConsume
    <2> QED
      BY <2>2
  <1>3. ASSUME NEW k \in Nat, k \in T
        PROVE  k + 1 \in T
    <2> SUFFICES ASSUME k + 1 <= L
                 PROVE  \E from : IsConsume(from, cells, k + 1)
      OBVIOUS
    <2>1. PICK g : IsConsume(g, cells, k)
      BY <1>1, <1>3
    <2> DEFINE low == L + 1 - (k + 1)
               more == [b \in low .. L + 1 |->
                          IF b = low THEN ConsumeAt(cells, b, g) ELSE g[b]]
    <2>2. low \in 1 .. L /\ L + 1 - k = low + 1
      BY <1>1
    <2> HIDE DEF low
    <2>3. \A c \in low + 1 .. L + 1 : more[c] = g[c]
      BY <1>1, <2>2
    <2>4. ASSUME NEW b \in low .. L + 1
          PROVE  more[b] = ConsumeAt(cells, b, more)
      <3>1. b \in 1 .. L + 1 /\ \A c \in b + 1 .. L + 1 : c \in low + 1 .. L + 1
        BY <1>1, <2>2
      <3>2. ConsumeAt(cells, b, more) = ConsumeAt(cells, b, g)
        <4> HIDE DEF more
        <4> QED BY <2>3, <3>1, ConsumeLooksAhead
      <3>3. CASE b = low
        BY <3>2, <3>3
      <3>4. CASE b # low
        <4>1. b \in low + 1 .. L + 1
          BY <1>1, <2>2, <3>4
        <4>2. g[b] = ConsumeAt(cells, b, g)
          BY <2>1, <2>2, <4>1 DEF IsConsume
        <4> QED
          BY <3>2, <4>1, <4>2, <2>3
      <3> QED
        BY <3>3, <3>4
    <2>5. IsConsume(more, cells, k + 1)
      <3>1. more = [b \in low .. L + 1 |-> more[b]]
        OBVIOUS
      <3>2. low = Len(cells) + 1 - (k + 1)
        BY DEF low
      <3> HIDE DEF more
      <3> QED BY <2>4, <3>1, <3>2 DEF IsConsume
    <2> QED
      BY <2>5
  <1>4. Nat \subseteq T
    <2> HIDE DEF T
    <2> QED BY <1>2, <1>3, NaturalsByInduction
  <1>5. PICK from : IsConsume(from, cells, L)
    BY <1>1, <1>4
  <1>6. L + 1 - L = 1
    BY <1>1
  <1> QED
    BY <1>5, <1>6 DEF IsConsume

\* So consume() is what it is defined as.
LEMMA ConsumeIs ==
    ASSUME LinkProtocolAssumption, NEW cells \in Seq(Cells)
    PROVE  \E from : /\ Consume(cells) = from[1]
                     /\ \A b \in 1 .. Len(cells) + 1 : from[b] = ConsumeAt(cells, b, from)
  <1> DEFINE IsFrom(f) == f = [b \in 1 .. Len(cells) + 1 |-> ConsumeAt(cells, b, f)]
             from == CHOOSE f : IsFrom(f)
  <1>1. IsFrom(from)
    BY ConsumeExists
  <1>2. Consume(cells) = from[1]
    BY Zenon DEF Consume
  <1> HIDE DEF from
  <1>3. \A b \in 1 .. Len(cells) + 1 : from[b] = ConsumeAt(cells, b, from)
    BY <1>1
  <1> QED
    BY <1>2, <1>3

-----------------------------------------------------------------------------
(***************************************************************************)
(* One step of the decoder through the cells that have arrived.             *)
(***************************************************************************)
Body(cells, c) ==
    SubSeq(cells, c + PrefixSize, c + PrefixSize + Size(cells[c].look) - 1)

\* What arrives is as it was made, and in the order in which it was sent.
Genuine(cells) ==
    /\ cells \in Seq(Cells)
    /\ \A q \in DOMAIN cells : WellFormed(cells[q])
    /\ InOrder(cells)

LEMMA BodyIs ==
    ASSUME LinkProtocolAssumption, NEW cells \in Seq(Cells), NEW c \in 1 .. Len(cells),
           c + Size(cells[c].look) <= Len(cells)
    PROVE  /\ Body(cells, c) \in Seq(Cells)
           /\ DOMAIN Body(cells, c) = 1 .. Size(cells[c].look)
           /\ Len(Body(cells, c)) = Size(cells[c].look)
           /\ \A i \in 1 .. Size(cells[c].look) : Body(cells, c)[i] = cells[c + i]
  <1> DEFINE s == Size(cells[c].look)
             L == Len(cells)
  <1>1. s \in Nat \ {0, 1} /\ L \in Nat /\ c + s <= L /\ c \in 1 .. L
    BY SizesAre
  <1>2. PrefixSize = 1
    BY SizesAre
  <1>3. Body(cells, c) = SubSeq(cells, c + 1, c + 1 + s - 1)
    BY <1>2 DEF Body
  <1>4. \A i \in 1 .. L : cells[i] \in Cells
    OBVIOUS
  <1> HIDE DEF s, L
  <1>5. c + 1 + s - 1 = c + s /\ c + 1 \in Int /\ c + s \in Int
    BY <1>1
  <1>6. Body(cells, c) = SubSeq(cells, c + 1, c + s)
    BY <1>3, <1>5
  <1>7. \A i \in c + 1 .. c + s : i \in 1 .. L
    BY <1>1
  <1>8. \A i \in c + 1 .. c + s : cells[i] \in Cells
    BY <1>4, <1>7
  <1>9. /\ SubSeq(cells, c + 1, c + s) \in Seq(Cells)
        /\ Len(SubSeq(cells, c + 1, c + s)) =
              IF c + 1 <= c + s THEN (c + s) - (c + 1) + 1 ELSE 0
        /\ \A i \in 1 .. (c + s) - (c + 1) + 1 :
              SubSeq(cells, c + 1, c + s)[i] = cells[c + 1 + i - 1]
    BY <1>5, <1>8, SubSeqProperties
  <1>10. c + 1 <= c + s /\ (c + s) - (c + 1) + 1 = s
         /\ \A i \in 1 .. s : c + 1 + i - 1 = c + i
    BY <1>1
  <1>11. /\ Body(cells, c) \in Seq(Cells)
         /\ Len(Body(cells, c)) = s
         /\ \A i \in 1 .. s : Body(cells, c)[i] = cells[c + i]
    BY <1>6, <1>9, <1>10
  <1>12. DOMAIN Body(cells, c) = 1 .. Len(Body(cells, c))
    BY <1>11
  <1> QED
    BY <1>11, <1>12 DEF s

\* A number that Verified() returns is that of an envelope whose body is there.
LEMMA VerifiedIs ==
    ASSUME LinkProtocolAssumption, NEW cells \in Seq(Cells), NEW c \in 1 .. Len(cells),
           c + Size(cells[c].look) <= Len(cells)
    PROVE  LET e == cells[c].look
               n == Verified(e, Body(cells, c)) IN
           /\ n \in 0 .. MaxEnvelopes
           /\ n # 0 => \A i \in 1 .. Size(e) : cells[c + i].n = n /\ cells[c + i].i = i
  <1> DEFINE e == cells[c].look
             body == Body(cells, c)
             n == Verified(e, body)
  <1>1. Size(e) \in Nat \ {0, 1} /\ 1 \in 1 .. Size(e)
    BY SizesAre
  <1>2. /\ DOMAIN body = 1 .. Size(e) /\ Len(body) = Size(e) /\ body \in Seq(Cells)
        /\ \A i \in 1 .. Size(e) : body[i] = cells[c + i]
    BY BodyIs
  <1>3. body[1] \in Cells
    BY <1>1, <1>2, ElementOfSeq
  <1>4. body[1].n \in 0 .. MaxEnvelopes /\ 0 \in 0 .. MaxEnvelopes
    BY <1>3 DEF Cells, LinkProtocolAssumption
  <1>5. n \in {body[1].n, 0}
    <2> HIDE DEF body, e
    <2> QED BY DEF Verified
  <1>6. n # 0 => \A i \in 1 .. Size(e) : body[i].n = n /\ body[i].i = i
    <2> HIDE DEF body, e
    <2> QED BY <1>2 DEF Verified
  <1>7. n # 0 => \A i \in 1 .. Size(e) : cells[c + i].n = n /\ cells[c + i].i = i
    <2> HIDE DEF n, body, e
    <2> QED BY <1>2, <1>6
  <1> HIDE DEF n
  <1>8. n \in 0 .. MaxEnvelopes
    BY <1>4, <1>5
  <1> QED
    BY <1>7, <1>8 DEF n

\* An envelope that has arrived whole is verified.
LEMMA WholeIsVerified ==
    ASSUME LinkProtocolAssumption, NEW cells, Genuine(cells), NEW c \in 1 .. Len(cells),
           c + Size(cells[c].look) <= Len(cells),
           cells[c].n # 0, cells[c].i = 0, BodyAt(cells, c)
    PROVE  Verified(cells[c].look, Body(cells, c)) = cells[c].n
  <1> DEFINE e == cells[c].look
             body == Body(cells, c)
             L == Len(cells)
  <1>1. cells \in Seq(Cells) /\ DOMAIN cells = 1 .. L /\ L \in Nat
    BY DEF Genuine
  <1>2. Size(e) \in Nat \ {0, 1} /\ c + Size(e) <= L /\ c \in 1 .. L /\ L \in Nat
    BY SizesAre
  <1>3. /\ DOMAIN body = 1 .. Size(e)
        /\ \A i \in 1 .. Size(e) : body[i] = cells[c + i]
    BY <1>1, BodyIs
  <1>4. cells[c].of = e
    BY <1>1 DEF Genuine, WellFormed
  <1> HIDE DEF body, L
  <1>5. ASSUME NEW i \in 1 .. Size(e)
        PROVE  body[i].n = cells[c].n /\ body[i].i = i /\ body[i].of = e
    <2> HIDE DEF e
    <2>1. i \in 0 .. Size(e) /\ c < c + i /\ c + i \in 1 .. L
      BY <1>2
    <2>2. cells[c + i].n = cells[c].n /\ cells[c + i].i = i
      BY <1>4, <2>1 DEF BodyAt
    <2>3. After(cells[c], cells[c + i])
      BY <1>1, <2>1 DEF Genuine, InOrder
    <2>4. cells[c].n \in Nat
      <3>1. cells[c] \in Cells
        BY <1>1
      <3> QED
        BY <3>1 DEF Cells
    <2>5. cells[c + i].of = e
      BY <1>4, <2>2, <2>3, <2>4 DEF After
    <2> QED
      BY <1>3, <2>2, <2>5
  <1>6. 1 \in 1 .. Size(e)
    BY <1>2
  <1> HIDE DEF e
  <1>7. Verified(e, body) = cells[c].n
    BY <1>3, <1>5, <1>6 DEF Verified
  <1> QED
    BY <1>7 DEF e, body

\* No envelope begins in what the decoder takes for a body: a verified one is of
\* another envelope, and with nothing damaged before it the prefix of an
\* encrypted one is not false.
LEMMA NoneBeginsInBody ==
    ASSUME LinkProtocolAssumption, NEW cells, Genuine(cells), NEW c \in 1 .. Len(cells),
           c + Size(cells[c].look) <= Len(cells),
           Accepts(cells[c].look, Body(cells, c)),
           NEW p \in c + 1 .. c + Size(cells[c].look),
           cells[p].n # 0, cells[p].i = 0, IntactBefore(cells, p)
    PROVE  FALSE
  <1> DEFINE e == cells[c].look
             s == Size(e)
             L == Len(cells)
             x == cells[c]
  <1>1. cells \in Seq(Cells) /\ DOMAIN cells = 1 .. L /\ L \in Nat
    BY DEF Genuine
  <1>2. /\ s \in Nat \ {0, 1} /\ c + s <= L
        /\ L \in Nat /\ c \in 1 .. L /\ p \in c + 1 .. c + s
    BY SizesAre
  <1>3. \A q \in 1 .. L : WellFormed(cells[q]) /\ cells[q] \in Cells
    BY <1>1 DEF Genuine, WellFormed
  <1> HIDE DEF L
  <1>4. CASE e \notin EncryptedEnvelopes
    <2>1. Verified(e, Body(cells, c)) # 0
      BY <1>4 DEF Accepts
    <2>2. \A i \in 1 .. s : cells[c + i].i = i
      BY <1>1, <2>1, VerifiedIs DEF L
    <2> HIDE DEF s
    <2>3. p - c \in 1 .. s /\ c + (p - c) = p /\ p - c # 0
      BY <1>2
    <2> QED
      BY <2>2, <2>3
  <1>5. CASE e \in EncryptedEnvelopes
    <2>1. s = EncryptedSize /\ Reach = EncryptedSize
      BY <1>5, SizesAre
    <2> HIDE DEF s
    <2>2. \A q \in c .. p - 1 : Intact(cells, q)
      <3>1. \A q \in c .. p - 1 : q \in 1 .. L /\ q < p /\ q >= p - Reach
        BY <1>2, <2>1
      <3> QED
        BY <1>1, <3>1 DEF IntactBefore
    <2>3. x.n # 0 /\ x.i = 0 /\ x.of = e /\ x.n \in Nat
      <3>1. c \in c .. p - 1 /\ c + 1 \in 1 .. L
        BY <1>2
      <3>2. Intact(cells, c) /\ WellFormed(x) /\ WellFormed(cells[c + 1])
        BY <1>2, <1>3, <2>2, <3>1
      <3>3. x \in Cells /\ cells[c + 1] \in Cells
        BY <1>2, <1>3, <3>1
      <3>4. x.n \in Nat /\ x.i \in Nat /\ cells[c + 1].n \in Nat /\ cells[c + 1].i \in Nat
        BY <3>3 DEF Cells
      <3>5. Size(x.of) \in Nat \ {0, 1}
        BY SizesAre
      <3>6. x.n # 0
        BY <3>2, <3>4, <3>5 DEF Intact, WellFormed
      <3>7. x.i = 0
        BY <1>5, <3>2, <3>6 DEF WellFormed, LinkProtocolAssumption
      <3> QED
        BY <3>2, <3>4, <3>6, <3>7 DEF WellFormed
    <2> HIDE DEF e, x
    <2> DEFINE T == {j \in Nat : j <= p - c => cells[c + j].n = x.n /\ cells[c + j].i = j}
    <2>4. 0 \in T
      <3>1. c + 0 = c
        BY <1>2
      <3> QED
        BY <2>3, <3>1 DEF x
    <2>5. ASSUME NEW j \in Nat, j \in T
          PROVE  j + 1 \in T
      <3> SUFFICES ASSUME j + 1 <= p - c
                   PROVE  cells[c + (j + 1)].n = x.n /\ cells[c + (j + 1)].i = j + 1
        OBVIOUS
      <3>1. /\ c + j \in c .. p - 1 /\ c + (j + 1) = (c + j) + 1 /\ c + j \in 1 .. L
            /\ j <= p - c /\ j # s
        BY <1>2
      <3>2. cells[c + j].n = x.n /\ cells[c + j].i = j
        BY <2>5, <3>1
      <3>3. cells[c + j].of = e
        <4>1. CASE j = 0
          <5>1. c + j = c
            BY <1>2, <4>1
          <5> QED
            BY <2>3, <5>1 DEF x
        <4>2. CASE j # 0
          <5>1. c < c + j
            BY <1>2, <4>2
          <5>2. After(cells[c], cells[c + j])
            BY <1>1, <1>2, <3>1, <5>1 DEF Genuine, InOrder, L
          <5> QED
            BY <2>3, <3>2, <5>2 DEF After, x
        <4> QED
          BY <4>1, <4>2
      <3>4. Intact(cells, c + j)
        BY <2>2, <3>1
      <3>5. cells[c + j].i # Size(cells[c + j].of)
        BY <3>1, <3>2, <3>3 DEF s
      <3> QED
        BY <3>1, <3>2, <3>4, <3>5 DEF Intact
    <2>6. Nat \subseteq T
      <3> HIDE DEF T
      <3> QED BY <2>4, <2>5, NaturalsByInduction
    <2>7. p - c \in Nat /\ p - c <= p - c /\ c + (p - c) = p /\ p - c # 0
      BY <1>2
    <2>8. cells[c + (p - c)].i = p - c
      BY <2>6, <2>7
    <2> QED
      BY <2>7, <2>8
  <1> QED
    BY <1>4, <1>5

\* Taking a body.
LEMMA AcceptTakes ==
    ASSUME LinkProtocolAssumption, NEW cells, Genuine(cells), NEW c \in 1 .. Len(cells),
           NEW f \in Seq(0 .. MaxEnvelopes), Taken(cells, c, f), ~Waits(cells, c),
           Accepts(cells[c].look, Body(cells, c))
    PROVE  LET e == cells[c].look IN
           Taken(cells, c + PrefixSize + Size(e), f \o <<Verified(e, Body(cells, c))>>)
  <1> DEFINE e == cells[c].look
             n == Verified(e, Body(cells, c))
             g == f \o <<n>>
             s == Size(e)
             L == Len(cells)
  <1>1. /\ cells \in Seq(Cells) /\ DOMAIN cells = 1 .. L /\ L \in Nat
        /\ c \in 1 .. L /\ c \in 1 .. L + 1
    BY DEF Genuine
  <1>2. e \in AllEnvelopes
    BY DEF Accepts, AllEnvelopes
  <1>3. c + s <= L /\ s \in Nat \ {0, 1} /\ PrefixSize = 1
    BY <1>1, <1>2, DoesNotWait, SizesAre
  <1>4. /\ n \in 0 .. MaxEnvelopes
        /\ n # 0 => \A i \in 1 .. s : cells[c + i].n = n /\ cells[c + i].i = i
    BY <1>1, <1>3, VerifiedIs
  <1>5. \A p \in c + 1 .. c + s : ~(cells[p].n # 0 /\ cells[p].i = 0 /\ IntactBefore(cells, p))
    BY <1>1, <1>3, NoneBeginsInBody
  <1>6. /\ cells[c].n # 0 /\ cells[c].i = 0 => cells[c].of = e
        /\ cells[c].n # 0 /\ cells[c].i = 0 /\ BodyAt(cells, c) => n = cells[c].n
    BY <1>1, <1>3, WholeIsVerified DEF Genuine, WellFormed
  <1>7. \A q, r \in 1 .. L : q < r => After(cells[q], cells[r])
    BY <1>1 DEF Genuine, InOrder
  <1> HIDE DEF n, e, L
  <1>8. /\ Len(f) \in Nat /\ DOMAIN f = 1 .. Len(f)
        /\ \A k \in 1 .. Len(f) : f[k] \in 0 .. MaxEnvelopes
    OBVIOUS
  <1>9. /\ DOMAIN g = 1 .. Len(f) + 1
        /\ \A k \in 1 .. Len(f) : g[k] = f[k]
        /\ g[Len(f) + 1] = n
    <2>1. <<n>> \in Seq(0 .. MaxEnvelopes) /\ Len(<<n>>) = 1 /\ <<n>>[1] = n
      BY <1>4
    <2>2. /\ g \in Seq(0 .. MaxEnvelopes) /\ Len(g) = Len(f) + 1
          /\ \A k \in 1 .. Len(f) + 1 : g[k] = IF k <= Len(f) THEN f[k] ELSE <<n>>[k - Len(f)]
      BY <2>1, ConcatProperties
    <2>3. Len(f) + 1 - Len(f) = 1 /\ ~(Len(f) + 1 <= Len(f))
      BY <1>8
    <2> HIDE DEF g
    <2>4. DOMAIN g = 1 .. Len(f) + 1
      BY <2>2
    <2>5. g[Len(f) + 1] = n
      BY <1>8, <2>1, <2>2, <2>3
    <2>6. \A k \in 1 .. Len(f) : g[k] = f[k]
      BY <1>8, <2>2
    <2> QED
      BY <2>4, <2>5, <2>6
  <1>10. \A k \in DOMAIN f : k \in DOMAIN g /\ g[k] = f[k]
    BY <1>8, <1>9
  <1> HIDE DEF g, s
  <1>11. NoneIsMissed(cells, c + 1 + s, g)
    <2> SUFFICES ASSUME NEW p \in 1 .. (c + 1 + s) - 1,
                        cells[p].n # 0, cells[p].i = 0, IntactBefore(cells, p)
                 PROVE  /\ p + Size(cells[p].of) <= L
                        /\ BodyAt(cells, p) => \E k \in DOMAIN g : g[k] = cells[p].n
      BY DEF NoneIsMissed, L
    <2>1. CASE p < c
      <3>1. p \in 1 .. c - 1
        BY <1>1, <2>1
      <3>2. /\ p + Size(cells[p].of) <= L
            /\ BodyAt(cells, p) => \E k \in DOMAIN f : f[k] = cells[p].n
        BY <3>1 DEF Taken, NoneIsMissed, L
      <3> QED
        BY <3>2, <1>10
    <2>2. CASE p = c
      <3>1. p + Size(cells[p].of) <= L
        BY <1>3, <1>6, <2>2 DEF s
      <3>2. BodyAt(cells, p) => g[Len(f) + 1] = cells[p].n
        BY <1>6, <1>9, <2>2
      <3>3. Len(f) + 1 \in DOMAIN g
        BY <1>8, <1>9
      <3> QED
        BY <3>1, <3>2, <3>3
    <2>3. CASE p > c
      <3>1. p \in c + 1 .. c + s
        BY <1>1, <1>3, <2>3
      <3> QED
        BY <1>5, <3>1
    <2> QED
      BY <1>1, <2>1, <2>2, <2>3
  <1>12. n # 0 => cells[c + 1].n = n /\ cells[c + 1].i = 1
    <2>1. 1 \in 1 .. s
      BY <1>3
    <2> QED
      BY <1>4, <2>1
  <1>13. EachIsThere(cells, c + 1 + s, g)
    <2> SUFFICES ASSUME NEW k \in 1 .. Len(f) + 1, g[k] # 0
                 PROVE  \E w \in 1 .. (c + 1 + s) - 1 : cells[w].n = g[k] /\ cells[w].i = 1
      BY <1>9 DEF EachIsThere
    <2>1. CASE k <= Len(f)
      <3>1. k \in 1 .. Len(f)
        BY <1>8, <2>1
      <3>2. PICK w \in 1 .. c - 1 : cells[w].n = f[k] /\ cells[w].i = 1
        BY <1>8, <1>9, <3>1 DEF Taken, EachIsThere
      <3>3. w \in 1 .. (c + 1 + s) - 1
        BY <1>1, <1>3
      <3> QED
        BY <1>9, <3>1, <3>2, <3>3
    <2>2. CASE ~(k <= Len(f))
      <3>1. g[k] = n
        <4>1. k = Len(f) + 1
          BY <1>8, <2>2
        <4> QED
          BY <1>9, <4>1
      <3>2. c + 1 \in 1 .. (c + 1 + s) - 1
        BY <1>1, <1>3
      <3> QED
        BY <1>12, <3>1, <3>2
    <2> QED
      BY <2>1, <2>2
  <1>14. n # 0 => \A k \in 1 .. Len(f) : f[k] # n
    <2> SUFFICES ASSUME n # 0, NEW k \in 1 .. Len(f), f[k] = n
                 PROVE  FALSE
      OBVIOUS
    <2>1. PICK w \in 1 .. c - 1 : cells[w].n = n /\ cells[w].i = 1
      BY <1>8 DEF Taken, EachIsThere
    <2>2. w \in 1 .. L /\ c + 1 \in 1 .. L /\ w < c + 1
      BY <1>1, <1>3
    <2>3. After(cells[w], cells[c + 1])
      BY <1>7, <2>2
    <2>4. n \in Nat
      BY <1>4 DEF LinkProtocolAssumption
    <2> QED
      BY <1>12, <2>1, <2>3, <2>4 DEF After
  <1>15. NoneIsTwice(g)
    <2> SUFFICES ASSUME NEW j \in 1 .. Len(f) + 1, NEW k \in 1 .. Len(f) + 1,
                        g[j] = g[k], g[j] # 0
                 PROVE  j = k
      BY <1>9 DEF NoneIsTwice
    <2>1. \A i \in 1 .. Len(f) + 1 : i \in 1 .. Len(f) \/ i = Len(f) + 1
      BY <1>8
    <2>2. CASE j \in 1 .. Len(f) /\ k \in 1 .. Len(f)
      <3>1. NoneIsTwice(f)
        BY DEF Taken
      <3> QED
        BY <1>8, <1>9, <2>2, <3>1 DEF NoneIsTwice
    <2>3. CASE j \in 1 .. Len(f) /\ k = Len(f) + 1
      BY <1>9, <1>14, <2>3
    <2>4. CASE j = Len(f) + 1 /\ k \in 1 .. Len(f)
      BY <1>9, <1>14, <2>4
    <2> QED
      BY <2>1, <2>2, <2>3, <2>4
  <1>16. c + PrefixSize + s = c + 1 + s
    BY <1>3
  <1>17. Taken(cells, c + PrefixSize + s, g)
    BY <1>11, <1>13, <1>15, <1>16 DEF Taken
  <1> QED
    BY <1>17 DEF g, s, n, e

\* Going on to the next place.
LEMMA SkipTakes ==
    ASSUME LinkProtocolAssumption, NEW cells, Genuine(cells), NEW c \in 1 .. Len(cells),
           NEW f \in Seq(0 .. MaxEnvelopes), Taken(cells, c, f), ~Waits(cells, c),
           ~Accepts(cells[c].look, Body(cells, c))
    PROVE  Taken(cells, c + 1, f)
  <1> DEFINE e == cells[c].look
             L == Len(cells)
  <1>1. /\ cells \in Seq(Cells) /\ DOMAIN cells = 1 .. L /\ L \in Nat
        /\ c \in 1 .. L /\ c \in 1 .. L + 1
    BY DEF Genuine
  <1>2. e \in AllEnvelopes => c + Size(e) <= L
    BY <1>1, DoesNotWait
  <1>3. WellFormed(cells[c])
    BY <1>1 DEF Genuine
  <1>4. cells[c].n # 0 /\ cells[c].i = 0 =>
            /\ cells[c].of = e
            /\ e \in SignedEnvelopes
            /\ c + Size(e) <= L
            /\ Verified(e, Body(cells, c)) = 0
    BY <1>2, <1>3 DEF WellFormed, Accepts, AllEnvelopes
  <1>5. cells[c].n # 0 /\ cells[c].i = 0 => ~BodyAt(cells, c)
    BY <1>4, WholeIsVerified
  <1> HIDE DEF L, e
  <1>6. NoneIsMissed(cells, c + 1, f)
    <2> SUFFICES ASSUME NEW p \in 1 .. (c + 1) - 1,
                        cells[p].n # 0, cells[p].i = 0, IntactBefore(cells, p)
                 PROVE  /\ p + Size(cells[p].of) <= L
                        /\ BodyAt(cells, p) => \E k \in DOMAIN f : f[k] = cells[p].n
      BY DEF NoneIsMissed, L
    <2>1. p = c \/ p \in 1 .. c - 1
      BY <1>1
    <2>2. CASE p = c
      BY <1>4, <1>5, <2>2
    <2>3. CASE p \in 1 .. c - 1
      BY <2>3 DEF Taken, NoneIsMissed, L
    <2> QED
      BY <2>1, <2>2, <2>3
  <1>7. EachIsThere(cells, c + 1, f)
    <2>1. \A w \in 1 .. c - 1 : w \in 1 .. (c + 1) - 1
      BY <1>1
    <2> QED
      BY <2>1 DEF Taken, EachIsThere
  <1> QED
    BY <1>6, <1>7 DEF Taken

-----------------------------------------------------------------------------
(***************************************************************************)
(* LinkProtocol::consume() as a whole, on what is left of the cells that    *)
(* have arrived.                                                           *)
(***************************************************************************)
IsRest(blob, cells, o) ==
    /\ blob \in Seq(Cells)
    /\ o \in Nat
    /\ Len(blob) = Len(cells) - o
    /\ \A b \in 1 .. Len(blob) : blob[b] = cells[o + b]

LEMMA RestIs ==
    ASSUME LinkProtocolAssumption, NEW cells \in Seq(Cells), NEW o, NEW blob,
           IsRest(blob, cells, o), NEW b \in 1 .. Len(blob) + 1
    PROVE  /\ o + b \in 1 .. Len(cells) + 1
           /\ Waits(blob, b) <=> Waits(cells, o + b)
           /\ ~Waits(blob, b) =>
                /\ b \in 1 .. Len(blob) /\ o + b \in 1 .. Len(cells)
                /\ blob[b] = cells[o + b]
                /\ b + 1 \in 1 .. Len(blob) + 1
                /\ blob[b].look \in AllEnvelopes =>
                    /\ b + PrefixSize + Size(blob[b].look) \in b + 1 .. Len(blob) + 1
                    /\ Body(blob, b) = Body(cells, o + b)
  <1> DEFINE L == Len(cells)
             M == Len(blob)
             s == Size(blob[b].look)
  <1>1. L \in Nat /\ M \in Nat /\ o \in Nat /\ M = L - o /\ blob \in Seq(Cells)
    BY DEF IsRest
  <1>2. \A i \in 1 .. M : blob[i] = cells[o + i]
    BY DEF IsRest
  <1>3. PrefixSize = 1 /\ s \in Nat \ {0, 1}
    BY SizesAre
  <1>4. ~Waits(blob, b) => b + 2 <= M /\ (blob[b].look \in AllEnvelopes => b + s <= M)
    BY <1>1, DoesNotWait
  <1> HIDE DEF L, M, s
  <1>5. b \in 1 .. M + 1
    BY DEF M
  <1>6. o + b \in 1 .. L + 1 /\ M + 1 - b = L + 1 - (o + b)
    BY <1>1, <1>5
  <1>7. Waits(blob, b) <=> Waits(cells, o + b)
    <2>1. CASE b \in 1 .. M
      <3>1. blob[b] = cells[o + b]
        BY <1>2, <2>1
      <3> QED
        BY <1>6, <3>1 DEF Waits, L, M
    <2>2. CASE b \notin 1 .. M
      <3>1. M + 1 - b <= PrefixSize + 1
        BY <1>1, <1>3, <1>5, <2>2
      <3> QED
        BY <1>6, <3>1 DEF Waits, L, M
    <2> QED
      BY <2>1, <2>2
  <1>8. ASSUME ~Waits(blob, b)
        PROVE  /\ b \in 1 .. M /\ o + b \in 1 .. L
               /\ blob[b] = cells[o + b]
               /\ b + 1 \in 1 .. M + 1
               /\ blob[b].look \in AllEnvelopes =>
                    /\ b + PrefixSize + s \in b + 1 .. M + 1
                    /\ Body(blob, b) = Body(cells, o + b)
    <2>1. /\ b \in 1 .. M /\ o + b \in 1 .. L
          /\ b + 1 \in 1 .. M + 1
      BY <1>1, <1>4, <1>5, <1>8
    <2>2. blob[b] = cells[o + b]
      BY <1>2, <2>1
    <2>3. ASSUME blob[b].look \in AllEnvelopes
          PROVE  b + 1 + s \in b + 1 .. M + 1 /\ Body(blob, b) = Body(cells, o + b)
      <3>1. b + s <= M /\ (o + b) + s <= L
        BY <1>1, <1>3, <1>4, <1>5, <1>8, <2>3
      <3>2. s = Size(cells[o + b].look)
        BY <2>2 DEF s
      <3>3. /\ Body(blob, b) \in Seq(Cells) /\ Len(Body(blob, b)) = s
            /\ \A i \in 1 .. s : Body(blob, b)[i] = blob[b + i]
        BY <1>1, <2>1, <3>1, BodyIs DEF s, M
      <3>4. /\ Body(cells, o + b) \in Seq(Cells) /\ Len(Body(cells, o + b)) = s
            /\ \A i \in 1 .. s : Body(cells, o + b)[i] = cells[(o + b) + i]
        BY <2>1, <3>1, <3>2, BodyIs DEF L
      <3>5. \A i \in 1 .. s : b + i \in 1 .. M /\ o + (b + i) = (o + b) + i
        BY <1>1, <1>3, <1>5, <3>1
      <3>6. \A i \in 1 .. s : blob[b + i] = cells[(o + b) + i]
        BY <1>2, <3>5
      <3>7. Body(blob, b) = Body(cells, o + b)
        <4>1. \A i \in 1 .. Len(Body(blob, b)) : Body(blob, b)[i] = Body(cells, o + b)[i]
          BY <3>3, <3>4, <3>6
        <4>2. Len(Body(blob, b)) = Len(Body(cells, o + b))
          BY <3>3, <3>4
        <4> QED
          BY <3>3, <3>4, <4>1, <4>2, SeqEqual, Zenon
      <3>8. b + 1 + s \in b + 1 .. M + 1
        BY <1>1, <1>3, <1>5, <3>1
      <3> QED
        BY <3>7, <3>8
    <2> QED
      BY <1>3, <2>1, <2>2, <2>3
  <1> QED
    BY <1>6, <1>7, <1>8 DEF L, M, s

\* What consume() does from place b on, for whatever was found before.
Takes(cells, o, blob, b, r) ==
    \A f \in Seq(0 .. MaxEnvelopes) :
        Taken(cells, o + b, f) =>
            /\ r = [end |-> r.end, found |-> r.found]
            /\ r.end \in 1 .. Len(blob) + 1
            /\ r.found \in Seq(0 .. MaxEnvelopes)
            /\ Taken(cells, o + r.end, f \o r.found)
            /\ Waits(blob, r.end)

LEMMA ConsumeAtTakes ==
    ASSUME LinkProtocolAssumption, NEW cells, Genuine(cells), NEW o, NEW blob,
           IsRest(blob, cells, o), NEW b \in 1 .. Len(blob) + 1, NEW from,
           \A c \in b + 1 .. Len(blob) + 1 :
               from[c] = ConsumeAt(blob, c, from) /\ Takes(cells, o, blob, c, from[c])
    PROVE  Takes(cells, o, blob, b, ConsumeAt(blob, b, from))
  <1> DEFINE M == Len(blob)
             e == blob[b].look
             r == ConsumeAt(blob, b, from)
             next == b + PrefixSize + Size(e)
             n == Verified(e, Body(blob, b))
  <1>1. cells \in Seq(Cells)
    BY DEF Genuine
  <1>2. o \in Nat /\ b \in Nat /\ M \in Nat /\ b + 1 \in Nat /\ PrefixSize = 1 /\ Size(e) \in Nat
    BY SizesAre DEF IsRest
  <1> SUFFICES ASSUME NEW f \in Seq(0 .. MaxEnvelopes), Taken(cells, o + b, f)
               PROVE  /\ r = [end |-> r.end, found |-> r.found]
                      /\ r.end \in 1 .. M + 1
                      /\ r.found \in Seq(0 .. MaxEnvelopes)
                      /\ Taken(cells, o + r.end, f \o r.found)
                      /\ Waits(blob, r.end)
    BY DEF Takes
  <1>3. CASE Waits(blob, b)
    <2>1. r = [end |-> b, found |-> <<>>]
      BY <1>3 DEF ConsumeAt, Waits
    <2>2. f \o <<>> = f /\ <<>> \in Seq(0 .. MaxEnvelopes)
      OBVIOUS
    <2> QED
      BY <1>3, <2>1, <2>2
  <1>4. CASE ~Waits(blob, b) /\ Accepts(e, Body(blob, b))
    <2>1. e \in AllEnvelopes
      BY <1>4 DEF Accepts, AllEnvelopes
    <2>2. /\ o + b \in 1 .. Len(cells) /\ ~Waits(cells, o + b)
          /\ blob[b] = cells[o + b] /\ Body(blob, b) = Body(cells, o + b)
          /\ next \in b + 1 .. M + 1 /\ next \in 1 .. M + 1
      <3>1. /\ o + b \in 1 .. Len(cells) /\ ~Waits(cells, o + b)
            /\ blob[b] = cells[o + b] /\ Body(blob, b) = Body(cells, o + b)
            /\ next \in b + 1 .. M + 1
        BY <1>1, <1>4, <2>1, RestIs
      <3> HIDE DEF next
      <3>2. next \in 1 .. M + 1
        BY <1>2, <3>1
      <3> QED
        BY <3>1, <3>2
    <2>3. e = cells[o + b].look /\ Accepts(cells[o + b].look, Body(cells, o + b))
      BY <1>4, <2>2
    <2>4. Taken(cells, (o + b) + PrefixSize + Size(e), f \o <<n>>)
      BY <2>2, <2>3, AcceptTakes
    <2>5. (o + b) + PrefixSize + Size(e) = o + next
      <3> HIDE DEF e
      <3> QED BY <1>2
    <2>6. n \in 0 .. MaxEnvelopes
      <3>1. (o + b) + Size(e) <= Len(cells)
        <4>1. cells[o + b].look \in AllEnvelopes => (o + b) + Size(cells[o + b].look) <= Len(cells)
          <5>1. o + b \in 1 .. Len(cells) + 1
            BY <1>1, RestIs
          <5> QED
            BY <1>1, <2>2, <5>1, DoesNotWait
        <4> QED
          BY <2>1, <2>3, <4>1
      <3> QED
        BY <1>1, <2>2, <2>3, <3>1, VerifiedIs
    <2>7. r = [from[next] EXCEPT !.found = <<n>> \o @]
      BY <1>4 DEF ConsumeAt, Waits, Body
    <2> HIDE DEF n, e, next, r
    <2>9. <<n>> \in Seq(0 .. MaxEnvelopes) /\ f \o <<n>> \in Seq(0 .. MaxEnvelopes)
      BY <2>6
    <2>10. Takes(cells, o, blob, next, from[next])
      BY <2>2 DEF M
    <2>11. Taken(cells, o + next, f \o <<n>>)
      BY <2>4, <2>5
    <2>12. /\ from[next] = [end |-> from[next].end, found |-> from[next].found]
           /\ from[next].end \in 1 .. M + 1
           /\ from[next].found \in Seq(0 .. MaxEnvelopes)
           /\ Taken(cells, o + from[next].end, (f \o <<n>>) \o from[next].found)
           /\ Waits(blob, from[next].end)
      BY <2>9, <2>10, <2>11 DEF Takes, M
    <2>13. (f \o <<n>>) \o from[next].found = f \o (<<n>> \o from[next].found)
      <3> DEFINE g == from[next].found
                 one == <<n>>
      <3>1. g \in Seq(0 .. MaxEnvelopes) /\ one \in Seq(0 .. MaxEnvelopes)
        BY <2>9, <2>12
      <3> HIDE DEF g, one
      <3>2. (f \o one) \o g = f \o (one \o g)
        <4> DEFINE S == 0 .. MaxEnvelopes
        <4>1. f \in Seq(S) /\ one \in Seq(S) /\ g \in Seq(S)
          BY <3>1
        <4> HIDE DEF S
        <4> QED
          BY <4>1, ConcatAssociative
      <3> QED
        BY <3>2 DEF g, one
    <2>14. <<n>> \o from[next].found \in Seq(0 .. MaxEnvelopes)
      BY <2>9, <2>12
    <2>15. r = [end |-> from[next].end, found |-> <<n>> \o from[next].found]
      BY <2>7, <2>12
    <2> QED
      BY <2>12, <2>13, <2>14, <2>15
  <1>5. CASE ~Waits(blob, b) /\ ~Accepts(e, Body(blob, b))
    <2>1. /\ o + b \in 1 .. Len(cells) /\ ~Waits(cells, o + b) /\ blob[b] = cells[o + b]
          /\ b + 1 \in 1 .. M + 1
          /\ e \in AllEnvelopes => Body(blob, b) = Body(cells, o + b)
      BY <1>1, <1>5, RestIs
    <2>2. ~Accepts(cells[o + b].look, Body(cells, o + b))
      BY <1>5, <2>1 DEF Accepts, AllEnvelopes
    <2>3. Taken(cells, (o + b) + 1, f)
      BY <2>1, <2>2, SkipTakes
    <2>4. r = from[b + 1]
      BY <1>5 DEF ConsumeAt, Waits, Body
    <2> HIDE DEF r, e
    <2>5. (o + b) + 1 = o + (b + 1) /\ b + 1 \in b + 1 .. M + 1
      BY <1>2, <2>1
    <2>6. Takes(cells, o, blob, b + 1, from[b + 1])
      BY <2>5 DEF M
    <2> QED
      BY <2>3, <2>4, <2>5, <2>6 DEF Takes, M
  <1> QED
    BY <1>3, <1>4, <1>5

LEMMA ConsumeTakes ==
    ASSUME LinkProtocolAssumption, NEW cells, Genuine(cells), NEW o, NEW blob,
           IsRest(blob, cells, o)
    PROVE  Takes(cells, o, blob, 1, Consume(blob))
  <1> DEFINE M == Len(blob)
  <1>1. blob \in Seq(Cells) /\ M \in Nat
    BY DEF IsRest
  <1>2. PICK from : /\ Consume(blob) = from[1]
                    /\ \A b \in 1 .. M + 1 : from[b] = ConsumeAt(blob, b, from)
    BY <1>1, ConsumeIs
  <1> HIDE DEF M
  <1> DEFINE T == {b \in 1 .. M + 1 : Takes(cells, o, blob, b, from[b])}
  <1>3. ASSUME NEW b \in 1 .. M + 1, \A c \in b + 1 .. M + 1 : c \in T
        PROVE  b \in T
    <2>1. \A c \in b + 1 .. M + 1 :
              from[c] = ConsumeAt(blob, c, from) /\ Takes(cells, o, blob, c, from[c])
      BY <1>2, <1>3
    <2>2. Takes(cells, o, blob, b, ConsumeAt(blob, b, from))
      BY <2>1, ConsumeAtTakes DEF M
    <2> QED
      BY <1>2, <2>2
  <1>4. 1 .. M + 1 \subseteq T
    <2> HIDE DEF T
    <2> QED BY <1>1, <1>3, FromTheEnd
  <1>5. 1 \in 1 .. M + 1
    BY <1>1
  <1> QED
    BY <1>2, <1>4, <1>5

-----------------------------------------------------------------------------
\* What a concatenation is made of.
LEMMA ConcatIs ==
    ASSUME NEW S, NEW s \in Seq(S), NEW t \in Seq(S),
           NEW m, Len(s) = m, NEW n, Len(t) = n
    PROVE  /\ s \o t \in Seq(S)
           /\ Len(s \o t) = m + n
           /\ DOMAIN (s \o t) = 1 .. m + n
           /\ \A k \in 1 .. m + n : (s \o t)[k] = IF k <= m THEN s[k] ELSE t[k - m]
  <1>1. s \o t \in Seq(S) /\ Len(s \o t) = m + n
    BY ConcatProperties
  <1>2. \A k \in 1 .. m + n : (s \o t)[k] = IF k <= m THEN s[k] ELSE t[k - m]
    BY ConcatProperties
  <1>3. DOMAIN (s \o t) = 1 .. m + n
    <2> DEFINE c == s \o t
    <2>1. c \in Seq(S) /\ Len(c) = m + n
      BY <1>1
    <2> HIDE DEF c
    <2>2. DOMAIN c = 1 .. m + n
      BY <2>1
    <2> QED
      BY <2>2 DEF c
  <1> QED
    BY <1>1, <1>2, <1>3

-----------------------------------------------------------------------------
\* Initially, nothing is under way and nothing has arrived.
LEMMA DecoderInit == ASSUME LinkProtocolAssumption, ProtocolInit PROVE DecoderInv
  <1> USE DEF ProtocolInit
  <1>1. ProtocolTypeOK
    BY DEF ProtocolTypeOK, LinkProtocolAssumption
  <1>2. Len(<<>>) = 0 /\ DOMAIN <<>> = {}
    OBVIOUS
  <1>3. StreamInOrder
    BY <1>2 DEF StreamInOrder, Made, InOrder
  <1>4. Rest = 0 /\ BlobIsRest
    BY <1>2 DEF Rest, BlobIsRest
  <1>5. Taken(arrived, Rest + 1, found)
    <2>1. 1 .. (Rest + 1) - 1 = {}
      BY <1>4
    <2> QED
      BY <1>2, <2>1 DEF Taken, NoneIsMissed, EachIsThere, NoneIsTwice
  <1>6. Waits(arrived, Rest + 1)
    BY <1>2, <1>4, SizesAre DEF Waits
  <1> QED
    BY <1>1, <1>3, <1>4, <1>5, <1>6 DEF DecoderInv

\* An envelope as Envelope::produce_append() makes it.
Envelope(e, n, looks) ==
    <<Cell(e, e, n, 0)>> \o [i \in 1 .. Size(e) |-> Cell(looks[i], e, n, i)]

LEMMA EnvelopeIs ==
    ASSUME LinkProtocolAssumption, NEW e \in AllEnvelopes, NEW n \in 1 .. MaxEnvelopes,
           NEW looks \in [1 .. Size(e) -> Contents]
    PROVE  LET envelope == Envelope(e, n, looks) IN
           /\ envelope \in Seq(Cells)
           /\ Len(envelope) = Size(e) + 1
           /\ \A k \in 1 .. Size(e) + 1 :
                /\ WellFormed(envelope[k])
                /\ envelope[k].n = n /\ envelope[k].of = e /\ envelope[k].i = k - 1
  <1> DEFINE first == <<Cell(e, e, n, 0)>>
             body == [i \in 1 .. Size(e) |-> Cell(looks[i], e, n, i)]
             envelope == Envelope(e, n, looks)
  <1>0. envelope = first \o body
    BY DEF Envelope
  <1>1. Size(e) \in Nat \ {0, 1} /\ Size(e) <= Longer /\ Longer \in Nat
    BY SizesAre
  <1>2. n \in 0 .. MaxEnvelopes /\ n # 0 /\ e \in Looks
    BY DEF LinkProtocolAssumption, Looks
  <1>3. ASSUME NEW i \in 0 .. Size(e), NEW look, IF i = 0 THEN look = e ELSE look \in Contents
        PROVE  /\ WellFormed(Cell(look, e, n, i))
               /\ Cell(look, e, n, i) \in Cells
               /\ Cell(look, e, n, i).n = n
               /\ Cell(look, e, n, i).of = e
               /\ Cell(look, e, n, i).i = i
    <2>1. look \in Looks
      BY <1>2, <1>3 DEF Looks
    <2>2. i \in 0 .. Longer /\ i <= Size(e)
      BY <1>1
    <2>3. Cell(look, e, n, i) \in Cells
      BY <1>2, <2>1, <2>2 DEF Cell, Cells
    <2> QED
      BY <1>2, <1>3, <2>2, <2>3 DEF WellFormed, Cell
  <1>4. Cell(e, e, n, 0) \in Cells
    BY <1>1, <1>3
  <1>5. \A i \in 1 .. Size(e) : i \in 0 .. Size(e) /\ i # 0 /\ looks[i] \in Contents
    BY <1>1
  <1>6. first \in Seq(Cells) /\ Len(first) = 1 /\ first[1] = Cell(e, e, n, 0)
    BY <1>4
  <1>7. \A i \in 1 .. Size(e) : Cell(looks[i], e, n, i) \in Cells
    BY <1>3, <1>5
  <1>8. body \in Seq(Cells) /\ Len(body) = Size(e)
    BY <1>1, <1>7
  <1>9. \A i \in 1 .. Size(e) : body[i] = Cell(looks[i], e, n, i)
    OBVIOUS
  <1> HIDE DEF first, body, envelope
  <1>10. /\ envelope \in Seq(Cells)
         /\ Len(envelope) = Size(e) + 1
         /\ \A k \in 1 .. Size(e) + 1 : envelope[k] = IF k <= 1 THEN first[k] ELSE body[k - 1]
    <2>1. /\ envelope \in Seq(Cells) /\ Len(envelope) = 1 + Size(e)
          /\ \A k \in 1 .. 1 + Size(e) : envelope[k] = IF k <= 1 THEN first[k] ELSE body[k - 1]
      <3>1. /\ envelope \in Seq(Cells) /\ Len(envelope) = Len(first) + Len(body)
            /\ \A k \in 1 .. Len(first) + Len(body) :
                  envelope[k] = IF k <= Len(first) THEN first[k] ELSE body[k - Len(first)]
        BY <1>6, <1>8, <1>0, ConcatProperties
      <3> QED
        BY <1>6, <1>8, <3>1
    <2> QED
      BY <1>1, <2>1
  <1>11. ASSUME NEW k \in 1 .. Size(e) + 1
         PROVE  /\ WellFormed(envelope[k])
                /\ envelope[k].n = n /\ envelope[k].of = e /\ envelope[k].i = k - 1
    <2>1. CASE k = 1
      <3>1. envelope[k] = Cell(e, e, n, 0)
        BY <1>6, <1>10, <2>1
      <3>2. 0 \in 0 .. Size(e) /\ k - 1 = 0
        BY <1>1, <2>1
      <3> QED
        BY <1>3, <3>1, <3>2
    <2>2. CASE k # 1
      <3>1. k - 1 \in 1 .. Size(e) /\ ~(k <= 1)
        BY <1>1, <2>2
      <3>2. envelope[k] = Cell(looks[k - 1], e, n, k - 1)
        BY <1>9, <1>10, <3>1
      <3> QED
        BY <1>3, <1>5, <3>1, <3>2
    <2> QED
      BY <2>1, <2>2
  <1> QED
    BY <1>10, <1>11 DEF envelope

LEMMA SendEnvelopeStep ==
    ASSUME LinkProtocolAssumption, DecoderInv, NEW e \in AllEnvelopes, SendEnvelope(e)
    PROVE  DecoderInv'
  <1> DEFINE n == produced + 1
  <1>1. PICK looks \in [1 .. Size(e) -> Contents] :
            /\ produced < MaxEnvelopes
            /\ produced' = n
            /\ air' = air \o (<<Cell(e, e, n, 0)>> \o
                              [i \in 1 .. Size(e) |-> Cell(looks[i], e, n, i)])
            /\ UNCHANGED <<inputBlob, found, arrived, damages>>
    BY DEF SendEnvelope
  <1> DEFINE envelope == Envelope(e, n, looks)
             A == Len(air)
             s == Size(e)
  <1>2. /\ produced \in 0 .. MaxEnvelopes /\ MaxEnvelopes \in Nat
        /\ air \in Seq(Cells) /\ arrived \in Seq(Cells)
    BY DEF DecoderInv, ProtocolTypeOK, LinkProtocolAssumption
  <1>3. n \in 1 .. MaxEnvelopes /\ n \in 0 .. MaxEnvelopes /\ produced < n
    BY <1>1, <1>2
  <1>4. /\ envelope \in Seq(Cells)
        /\ Len(envelope) = s + 1
        /\ \A k \in 1 .. s + 1 :
             /\ WellFormed(envelope[k])
             /\ envelope[k].n = n /\ envelope[k].of = e /\ envelope[k].i = k - 1
    <2> HIDE DEF n
    <2> QED BY <1>3, EnvelopeIs
  <1>5. s \in Nat /\ A \in Nat /\ DOMAIN air = 1 .. A
    BY <1>2, SizesAre
  <1>6. air' = air \o envelope
    BY <1>1 DEF Envelope
  <1> HIDE DEF envelope, n, s
  <1>7. /\ air' \in Seq(Cells)
        /\ Len(air') = A + (s + 1)
        /\ \A k \in 1 .. A + (s + 1) : air'[k] = IF k <= A THEN air[k] ELSE envelope[k - A]
    <2>1. /\ air' \in Seq(Cells) /\ Len(air') = Len(air) + Len(envelope)
          /\ \A k \in 1 .. Len(air) + Len(envelope) :
                air'[k] = IF k <= Len(air) THEN air[k] ELSE envelope[k - Len(air)]
      BY <1>2, <1>4, <1>6, ConcatProperties
    <2> QED
      BY <1>4, <2>1
  <1>8. DOMAIN air' = 1 .. A + (s + 1)
    BY <1>7
  <1> HIDE DEF A
  <1>9. \A k \in DOMAIN air' :
           \/ k \in 1 .. A /\ air'[k] = air[k]
           \/ k > A /\ k - A \in 1 .. s + 1 /\ air'[k] = envelope[k - A]
    BY <1>5, <1>7, <1>8
  <1>10. /\ \A k \in 1 .. A : WellFormed(air[k]) /\ air[k].n <= produced /\ air[k].n \in Nat
         /\ \A j, k \in 1 .. A : j < k => After(air[j], air[k])
         /\ \A q \in DOMAIN arrived : /\ WellFormed(arrived[q]) /\ arrived[q].n <= produced
                                      /\ arrived[q].n \in Nat
         /\ \A q \in DOMAIN arrived, k \in 1 .. A : After(arrived[q], air[k])
    BY <1>5 DEF DecoderInv, StreamInOrder, Made, InOrder, WellFormed, Cells
  <1>11. Made(air', n)
    <2> SUFFICES ASSUME NEW k \in DOMAIN air'
                 PROVE  WellFormed(air'[k]) /\ air'[k].n <= n
      BY DEF Made
    <2>1. CASE k \in 1 .. A /\ air'[k] = air[k]
      <3>1. WellFormed(air[k]) /\ air[k].n <= produced /\ air[k].n \in Nat
        BY <1>10, <2>1
      <3> QED
        BY <1>2, <1>3, <2>1, <3>1
    <2>2. CASE k - A \in 1 .. s + 1 /\ air'[k] = envelope[k - A]
      <3>1. WellFormed(envelope[k - A]) /\ envelope[k - A].n = n
        BY <1>4, <2>2
      <3> QED
        BY <1>3, <2>2, <3>1
    <2> QED
      BY <1>9, <2>1, <2>2
  <1>12. Made(arrived, n)
    <2>1. \A q \in DOMAIN arrived : WellFormed(arrived[q]) /\ arrived[q].n <= n
      BY <1>2, <1>3, <1>10
    <2> QED
      BY <2>1 DEF Made
  <1>13. InOrder(air')
    <2> SUFFICES ASSUME NEW j \in DOMAIN air', NEW k \in DOMAIN air', j < k
                 PROVE  After(air'[j], air'[k])
      BY DEF InOrder
    <2>1. CASE k \in 1 .. A /\ air'[k] = air[k]
      <3>1. j \in 1 .. A /\ air'[j] = air[j]
        BY <1>5, <1>8, <1>9, <2>1
      <3> QED
        BY <1>10, <2>1, <3>1
    <2>2. CASE k > A /\ k - A \in 1 .. s + 1 /\ air'[k] = envelope[k - A]
      <3>1. /\ envelope[k - A].n = n /\ envelope[k - A].of = e
            /\ envelope[k - A].i = k - A - 1
        BY <1>4, <2>2
      <3>2. CASE j \in 1 .. A /\ air'[j] = air[j]
        <4>1. air[j].n <= produced /\ air[j].n \in Nat
          BY <1>10, <3>2
        <4>2. air[j].n < n
          BY <1>2, <1>3, <4>1
        <4> QED
          BY <2>2, <3>1, <3>2, <4>2 DEF After
      <3>3. CASE j > A /\ j - A \in 1 .. s + 1 /\ air'[j] = envelope[j - A]
        <4>1. /\ envelope[j - A].n = n /\ envelope[j - A].of = e
              /\ envelope[j - A].i = j - A - 1
          BY <1>4, <3>3
        <4>2. j - A - 1 < k - A - 1
          BY <1>5, <1>8
        <4> QED
          BY <2>2, <3>1, <3>3, <4>1, <4>2 DEF After
      <3> QED
        BY <1>9, <3>2, <3>3
    <2> QED
      BY <1>9, <2>1, <2>2
  <1>14. \A q \in DOMAIN arrived, k \in DOMAIN air' : After(arrived[q], air'[k])
    <2> SUFFICES ASSUME NEW q \in DOMAIN arrived, NEW k \in DOMAIN air'
                 PROVE  After(arrived[q], air'[k])
      OBVIOUS
    <2>1. CASE k \in 1 .. A /\ air'[k] = air[k]
      BY <1>10, <2>1
    <2>2. CASE k - A \in 1 .. s + 1 /\ air'[k] = envelope[k - A]
      <3>1. envelope[k - A].n = n
        BY <1>4, <2>2
      <3>2. arrived[q].n <= produced /\ arrived[q].n \in Nat
        BY <1>10
      <3>3. arrived[q].n < n
        BY <1>2, <1>3, <3>2
      <3> QED
        BY <2>2, <3>1, <3>3 DEF After
    <2> QED
      BY <1>9, <2>1, <2>2
  <1>15. StreamInOrder'
    BY <1>1, <1>10, <1>11, <1>12, <1>13, <1>14 DEF StreamInOrder, DecoderInv, n
  <1>16. ProtocolTypeOK'
    BY <1>1, <1>3, <1>7 DEF DecoderInv, ProtocolTypeOK
  <1> QED
    BY <1>1, <1>15, <1>16 DEF DecoderInv, BlobIsRest, Rest

\* What damage leaves of a stream: noise, and the rest in its order.  at[k] is the
\* place that byte k of what is left had.
LeftOf(s, t, at) ==
    /\ t \in Seq(Cells)
    /\ \A k \in DOMAIN t :
         \/ WellFormed(t[k]) /\ t[k].n = 0
         \/ at[k] \in DOMAIN s /\ t[k] = s[at[k]]
    /\ \A j, k \in DOMAIN t : j < k /\ t[j].n # 0 /\ t[k].n # 0 => at[j] < at[k]

LEMMA DamageKeepsOrder ==
    ASSUME LinkProtocolAssumption, DecoderInv, NEW at, LeftOf(air, air', at),
           damages' \in 0 .. MaxDamages,
           UNCHANGED <<inputBlob, found, arrived, produced>>
    PROVE  DecoderInv'
  <1>1. /\ Made(air, produced) /\ Made(arrived, produced)
        /\ InOrder(air) /\ InOrder(arrived)
        /\ \A q \in DOMAIN arrived, r \in DOMAIN air : After(arrived[q], air[r])
        /\ produced \in Nat
    BY DEF DecoderInv, StreamInOrder, ProtocolTypeOK, LinkProtocolAssumption
  <1>2. ASSUME NEW k \in DOMAIN air'
        PROVE  \/ WellFormed(air'[k]) /\ air'[k].n = 0
               \/ at[k] \in DOMAIN air /\ air'[k] = air[at[k]]
    BY DEF LeftOf
  <1>3. Made(air', produced)
    <2> SUFFICES ASSUME NEW k \in DOMAIN air'
                 PROVE  WellFormed(air'[k]) /\ air'[k].n <= produced
      BY DEF Made
    <2> QED
      BY <1>1, <1>2 DEF Made
  <1>4. InOrder(air')
    <2> SUFFICES ASSUME NEW j \in DOMAIN air', NEW k \in DOMAIN air', j < k
                 PROVE  After(air'[j], air'[k])
      BY DEF InOrder
    <2>1. air'[j].n # 0 /\ air'[k].n # 0 => at[j] < at[k]
      BY DEF LeftOf
    <2>2. CASE air'[j].n = 0 \/ air'[k].n = 0
      BY <2>2 DEF After
    <2>3. CASE air'[j].n # 0 /\ air'[k].n # 0
      <3>1. /\ at[j] \in DOMAIN air /\ air'[j] = air[at[j]]
            /\ at[k] \in DOMAIN air /\ air'[k] = air[at[k]]
        BY <1>2, <2>3
      <3> QED
        BY <1>1, <2>1, <2>3, <3>1 DEF InOrder
    <2> QED
      BY <2>2, <2>3
  <1>5. ASSUME NEW q \in DOMAIN arrived, NEW k \in DOMAIN air'
        PROVE  After(arrived[q], air'[k])
    <2>1. CASE air'[k].n = 0
      BY <2>1 DEF After
    <2>2. CASE air'[k].n # 0
      <3>1. at[k] \in DOMAIN air /\ air'[k] = air[at[k]]
        BY <1>2, <2>2
      <3> QED
        BY <1>1, <3>1
    <2> QED
      BY <2>1, <2>2
  <1>6. StreamInOrder'
    BY <1>1, <1>3, <1>4, <1>5 DEF StreamInOrder
  <1>7. ProtocolTypeOK'
    BY DEF DecoderInv, ProtocolTypeOK, LeftOf
  <1> QED
    BY <1>6, <1>7 DEF DecoderInv, BlobIsRest, Rest

LEMMA NoiseIs ==
    ASSUME LinkProtocolAssumption, NEW look \in Looks
    PROVE  /\ Noise(look) \in Cells
           /\ WellFormed(Noise(look))
           /\ Noise(look).n = 0
  <1>1. 0 \in 0 .. MaxEnvelopes /\ 0 \in 0 .. Longer
    BY SizesAre DEF LinkProtocolAssumption
  <1>2. Noise(look) \in Cells
    BY <1>1 DEF Noise, Cell, Cells
  <1> QED
    BY <1>2 DEF Noise, Cell, WellFormed

LEMMA DamageStep ==
    ASSUME LinkProtocolAssumption, DecoderInv, Damage
    PROVE  DecoderInv'
  <1> DEFINE L == Len(air)
  <1>1. /\ air \in Seq(Cells) /\ L \in Nat /\ DOMAIN air = 1 .. L
        /\ \A k \in 1 .. L : air[k] \in Cells
    BY DEF DecoderInv, ProtocolTypeOK
  <1>2. damages' \in 0 .. MaxDamages /\ UNCHANGED <<inputBlob, found, arrived, produced>>
    <2>1. damages \in 0 .. MaxDamages /\ MaxDamages \in Nat
      BY DEF DecoderInv, ProtocolTypeOK, LinkProtocolAssumption
    <2> QED
      BY <2>1 DEF Damage
  <1>3. PICK i \in DOMAIN air :
            \/ \E j \in i .. Len(air) :
                    air' = SubSeq(air, 1, i - 1) \o SubSeq(air, j + 1, Len(air))
            \/ \E look \in Looks : air' = [air EXCEPT ![i] = Noise(look)]
            \/ \E look \in Looks : air' = InsertAt(air, i, Noise(look))
    BY DEF Damage
  <1>4. i \in 1 .. L
    BY <1>1, <1>3
  <1> HIDE DEF L
  <1>5. /\ SubSeq(air, 1, i - 1) \in Seq(Cells)
        /\ Len(SubSeq(air, 1, i - 1)) = i - 1
        /\ \A k \in 1 .. i - 1 : SubSeq(air, 1, i - 1)[k] = air[k]
    <2>1. \A k \in 1 .. i - 1 : air[k] \in Cells
      BY <1>1, <1>4
    <2>2. 1 \in Int /\ i - 1 \in Int
      BY <1>4
    <2>3. /\ SubSeq(air, 1, i - 1) \in Seq(Cells)
          /\ Len(SubSeq(air, 1, i - 1)) = IF 1 <= i - 1 THEN (i - 1) - 1 + 1 ELSE 0
          /\ \A k \in 1 .. (i - 1) - 1 + 1 : SubSeq(air, 1, i - 1)[k] = air[1 + k - 1]
      BY <2>1, <2>2, SubSeqProperties
    <2>4. (IF 1 <= i - 1 THEN (i - 1) - 1 + 1 ELSE 0) = i - 1 /\ (i - 1) - 1 + 1 = i - 1
          /\ \A k \in 1 .. i - 1 : 1 + k - 1 = k
      BY <1>4
    <2> QED
      BY <2>3, <2>4
  \* The bytes of air from place m on.
  <1>6. ASSUME NEW m \in 1 .. L + 1
        PROVE  /\ SubSeq(air, m, L) \in Seq(Cells)
               /\ Len(SubSeq(air, m, L)) = L + 1 - m
               /\ \A k \in 1 .. L + 1 - m : SubSeq(air, m, L)[k] = air[m + k - 1]
    <2>1. \A k \in m .. L : air[k] \in Cells
      BY <1>1
    <2>2. m \in Int /\ L \in Int
      BY <1>1
    <2>3. /\ SubSeq(air, m, L) \in Seq(Cells)
          /\ Len(SubSeq(air, m, L)) = IF m <= L THEN L - m + 1 ELSE 0
          /\ \A k \in 1 .. L - m + 1 : SubSeq(air, m, L)[k] = air[m + k - 1]
      BY <2>1, <2>2, SubSeqProperties
    <2>4. (IF m <= L THEN L - m + 1 ELSE 0) = L + 1 - m /\ L - m + 1 = L + 1 - m
      BY <1>1
    <2> QED
      BY <2>3, <2>4
  <1>7. ASSUME NEW j \in i .. L,
               air' = SubSeq(air, 1, i - 1) \o SubSeq(air, j + 1, L)
        PROVE  DecoderInv'
    <2> DEFINE N == (i - 1) + (L - j)
               at == [k \in 1 .. N |-> IF k <= i - 1 THEN k ELSE j + 1 + (k - (i - 1)) - 1]
    <2>1. j + 1 \in 1 .. L + 1 /\ L + 1 - (j + 1) = L - j /\ j \in Int
      BY <1>1, <1>4
    <2>2. /\ SubSeq(air, j + 1, L) \in Seq(Cells) /\ Len(SubSeq(air, j + 1, L)) = L - j
          /\ \A k \in 1 .. L - j : SubSeq(air, j + 1, L)[k] = air[j + 1 + k - 1]
      BY <1>6, <2>1
    <2>3. /\ air' \in Seq(Cells) /\ Len(air') = N
          /\ \A k \in 1 .. N : air'[k] = IF k <= i - 1 THEN SubSeq(air, 1, i - 1)[k]
                                         ELSE SubSeq(air, j + 1, L)[k - (i - 1)]
      <3> DEFINE before == SubSeq(air, 1, i - 1)
                 after == SubSeq(air, j + 1, L)
                 m == i - 1
                 n == L - j
      <3>1. before \in Seq(Cells) /\ after \in Seq(Cells) /\ Len(before) = m /\ Len(after) = n
        BY <1>5, <2>2
      <3>2. air' = before \o after
        BY <1>7
      <3> HIDE DEF before, after, m, n
      <3>3. /\ air' \in Seq(Cells) /\ Len(air') = m + n
            /\ \A k \in 1 .. m + n : air'[k] = IF k <= m THEN before[k] ELSE after[k - m]
        BY <3>1, <3>2, ConcatIs
      <3> QED
        BY <3>3 DEF before, after, m, n
    <2>4. DOMAIN air' = 1 .. N
      BY <2>3
    <2>5. ASSUME NEW k \in 1 .. N
          PROVE  at[k] \in 1 .. L /\ air'[k] = air[at[k]]
      <3>1. CASE k <= i - 1
        <4>1. at[k] = k /\ k \in 1 .. i - 1 /\ k \in 1 .. L
          BY <1>1, <1>4, <3>1
        <4> QED
          BY <1>5, <2>3, <3>1, <4>1
      <3>2. CASE ~(k <= i - 1)
        <4>1. /\ at[k] = j + 1 + (k - (i - 1)) - 1
              /\ k - (i - 1) \in 1 .. L - j
              /\ j + 1 + (k - (i - 1)) - 1 \in 1 .. L
          BY <1>1, <1>4, <3>2
        <4> HIDE DEF at
        <4> QED
          BY <2>2, <2>3, <3>2, <4>1
      <3> QED
        BY <3>1, <3>2
    <2>6. \A m, k \in 1 .. N : m < k => at[m] < at[k]
      BY <1>1, <1>4
    <2> HIDE DEF at, N
    <2>7. LeftOf(air, air', at)
      BY <1>1, <2>3, <2>4, <2>5, <2>6 DEF LeftOf
    <2> QED
      BY <1>2, <2>7, DamageKeepsOrder
  <1>8. ASSUME NEW look \in Looks, air' = [air EXCEPT ![i] = Noise(look)]
        PROVE  DecoderInv'
    <2> DEFINE at == [k \in 1 .. L |-> k]
    <2>1. air' \in Seq(Cells) /\ DOMAIN air' = 1 .. L
          /\ \A k \in 1 .. L : air'[k] = IF k = i THEN Noise(look) ELSE air[k]
      BY <1>1, <1>4, <1>8, NoiseIs
    <2>2. LeftOf(air, air', at)
      BY <1>1, <2>1, NoiseIs DEF LeftOf
    <2> HIDE DEF at
    <2> QED
      BY <1>2, <2>2, DamageKeepsOrder
  <1>9. ASSUME NEW look \in Looks, air' = InsertAt(air, i, Noise(look))
        PROVE  DecoderInv'
    <2> DEFINE noise == <<Noise(look)>>
               front == SubSeq(air, 1, i - 1) \o noise
               N == L + 1
               at == [k \in 1 .. N |-> IF k < i THEN k ELSE k - 1]
    <2>1. noise \in Seq(Cells) /\ Len(noise) = 1 /\ noise[1] = Noise(look)
      BY NoiseIs
    <2> HIDE DEF noise
    <2>2. /\ front \in Seq(Cells) /\ Len(front) = i
          /\ \A k \in 1 .. i : front[k] = IF k < i THEN air[k] ELSE Noise(look)
      <3>1. /\ front \in Seq(Cells) /\ Len(front) = (i - 1) + 1
            /\ \A k \in 1 .. (i - 1) + 1 :
                  front[k] = IF k <= i - 1 THEN SubSeq(air, 1, i - 1)[k] ELSE noise[k - (i - 1)]
        <4> DEFINE before == SubSeq(air, 1, i - 1)
                   m == i - 1
                   n == 1
        <4>1. before \in Seq(Cells) /\ Len(before) = m /\ Len(noise) = n
          BY <1>5, <2>1
        <4>2. front = before \o noise
          OBVIOUS
        <4> HIDE DEF before, m, n, front
        <4>3. /\ front \in Seq(Cells) /\ Len(front) = m + n
              /\ \A k \in 1 .. m + n : front[k] = IF k <= m THEN before[k] ELSE noise[k - m]
          BY <2>1, <4>1, <4>2, ConcatIs
        <4> QED
          BY <4>3 DEF before, m, n
      <3> HIDE DEF front
      <3>2. Len(front) = i /\ (i - 1) + 1 = i
        BY <1>4, <3>1
      <3>3. ASSUME NEW k \in 1 .. i
            PROVE  front[k] = IF k < i THEN air[k] ELSE Noise(look)
        <4>1. CASE k < i
          <5>1. k \in 1 .. i - 1 /\ k <= i - 1
            BY <1>4, <4>1
          <5> QED
            BY <1>5, <3>1, <3>2, <4>1, <5>1
        <4>2. CASE ~(k < i)
          <5>1. k - (i - 1) = 1 /\ ~(k <= i - 1)
            BY <1>4, <4>2
          <5> QED
            BY <2>1, <3>1, <3>2, <4>2, <5>1
        <4> QED
          BY <4>1, <4>2
      <3> QED
        BY <3>1, <3>2, <3>3
    <2>3. /\ SubSeq(air, i, L) \in Seq(Cells) /\ Len(SubSeq(air, i, L)) = L + 1 - i
          /\ \A k \in 1 .. L + 1 - i : SubSeq(air, i, L)[k] = air[i + k - 1]
      <3>1. i \in 1 .. L + 1
        BY <1>1, <1>4
      <3> QED
        BY <1>6, <3>1
    <2>4. air' = front \o SubSeq(air, i, L)
      BY <1>9 DEF InsertAt, L, noise
    <2> HIDE DEF front
    <2>5. /\ air' \in Seq(Cells) /\ Len(air') = i + (L + 1 - i)
          /\ \A k \in 1 .. i + (L + 1 - i) :
                air'[k] = IF k <= i THEN front[k] ELSE SubSeq(air, i, L)[k - i]
      <3> DEFINE after == SubSeq(air, i, L)
                 n == L + 1 - i
      <3>1. after \in Seq(Cells) /\ Len(after) = n
        BY <2>3
      <3>2. air' = front \o after
        BY <2>4
      <3> HIDE DEF after, n
      <3>3. /\ air' \in Seq(Cells) /\ Len(air') = i + n
            /\ \A k \in 1 .. i + n : air'[k] = IF k <= i THEN front[k] ELSE after[k - i]
        BY <2>2, <3>1, <3>2, ConcatIs
      <3> QED
        BY <3>3 DEF after, n
    <2>6. N \in Nat /\ i + (L + 1 - i) = N /\ DOMAIN air' = 1 .. N
      <3>1. N \in Nat /\ i + (L + 1 - i) = N
        BY <1>1, <1>4
      <3> QED
        BY <2>5, <3>1
    <2>7. ASSUME NEW k \in 1 .. N
          PROVE  \/ k = i /\ air'[k] = Noise(look)
                 \/ k # i /\ at[k] \in 1 .. L /\ air'[k] = air[at[k]]
      <3>1. CASE k < i
        <4>1. k \in 1 .. i /\ k \in 1 .. L /\ k <= i /\ k # i
          BY <1>1, <1>4, <3>1
        <4>2. air'[k] = air[k]
          BY <2>2, <2>5, <2>6, <3>1, <4>1
        <4> QED
          BY <3>1, <4>1, <4>2
      <3>2. CASE k = i
        <4>1. k \in 1 .. i /\ k <= i /\ ~(k < i)
          BY <1>4, <3>2
        <4> QED
          BY <2>2, <2>5, <2>6, <3>2, <4>1
      <3>3. CASE k > i
        <4>1. /\ k - i \in 1 .. L + 1 - i /\ i + (k - i) - 1 = k - 1 /\ k - 1 \in 1 .. L
              /\ ~(k <= i) /\ ~(k < i) /\ k # i
          BY <1>1, <1>4, <2>6, <3>3
        <4>2. air'[k] = air[k - 1]
          BY <2>3, <2>5, <2>6, <4>1
        <4> QED
          BY <4>1, <4>2
      <3> QED
        BY <1>4, <3>1, <3>2, <3>3
    <2>8. \A m, k \in 1 .. N : m < k /\ m # i /\ k # i => at[m] < at[k]
      BY <1>1, <1>4
    <2> HIDE DEF at, N
    <2>9. LeftOf(air, air', at)
      <3>1. WellFormed(Noise(look)) /\ Noise(look).n = 0
        BY NoiseIs
      <3>2. \A k \in 1 .. N : \/ WellFormed(air'[k]) /\ air'[k].n = 0
                              \/ at[k] \in DOMAIN air /\ air'[k] = air[at[k]]
        BY <1>1, <2>7, <3>1
      <3>3. \A m, k \in 1 .. N : m < k /\ air'[m].n # 0 /\ air'[k].n # 0 => at[m] < at[k]
        BY <2>7, <2>8, <3>1
      <3> QED
        BY <2>5, <2>6, <3>2, <3>3 DEF LeftOf
    <2> QED
      BY <1>2, <2>9, DamageKeepsOrder
  <1> QED
    BY <1>3, <1>7, <1>8, <1>9 DEF L

\* More bytes change nothing of what has been found before them.
LEMMA MoreArrives ==
    ASSUME LinkProtocolAssumption, NEW old \in Seq(Cells), NEW new \in Seq(Cells),
           Len(old) <= Len(new), \A q \in 1 .. Len(old) : new[q] = old[q],
           NEW c \in 1 .. Len(old) + 1, NEW f, Taken(old, c, f)
    PROVE  Taken(new, c, f)
  <1> DEFINE L == Len(old)
             M == Len(new)
  <1>1. L \in Nat /\ M \in Nat /\ L <= M /\ DOMAIN old = 1 .. L /\ DOMAIN new = 1 .. M
    OBVIOUS
  <1>2. \A q \in 1 .. L : new[q] = old[q]
    OBVIOUS
  <1> HIDE DEF L, M
  <1>3. c \in 1 .. L + 1
    BY DEF L
  <1>4. NoneIsMissed(new, c, f)
    <2> SUFFICES ASSUME NEW p \in 1 .. c - 1,
                        new[p].n # 0, new[p].i = 0, IntactBefore(new, p)
                 PROVE  /\ p + Size(new[p].of) <= M
                        /\ BodyAt(new, p) => \E k \in DOMAIN f : f[k] = new[p].n
      BY DEF NoneIsMissed, M
    <2> DEFINE s == Size(old[p].of)
    <2>1. p \in 1 .. L /\ new[p] = old[p] /\ s \in Nat
      BY <1>1, <1>2, <1>3, SizesAre
    <2>2. IntactBefore(old, p)
      <3>1. ASSUME NEW q \in 1 .. L, q < p, q >= p - Reach
            PROVE  Intact(old, q)
        <4>1. q \in 1 .. M /\ q + 1 \in 1 .. L
          BY <1>1, <2>1, <3>1
        <4>2. Intact(new, q)
          BY <1>1, <3>1, <4>1 DEF IntactBefore
        <4>3. new[q] = old[q] /\ new[q + 1] = old[q + 1]
          BY <1>2, <4>1
        <4> QED
          BY <4>2, <4>3 DEF Intact
      <3> QED
        BY <1>1, <3>1 DEF IntactBefore
    <2>3. /\ p + s <= L
          /\ BodyAt(old, p) => \E k \in DOMAIN f : f[k] = old[p].n
      BY <2>1, <2>2 DEF Taken, NoneIsMissed, L
    <2>4. BodyAt(new, p) => BodyAt(old, p)
      <3> SUFFICES ASSUME BodyAt(new, p), NEW i \in 0 .. s
                   PROVE  old[p + i].n = old[p].n /\ old[p + i].i = i
        BY DEF BodyAt
      <3>1. new[p + i].n = new[p].n /\ new[p + i].i = i
        BY <2>1 DEF BodyAt
      <3> HIDE DEF s
      <3>2. p + i \in 1 .. L
        BY <1>1, <2>1, <2>3
      <3> QED
        BY <1>2, <2>1, <3>1, <3>2
    <2>5. p + s <= M
      <3> HIDE DEF s
      <3> QED BY <1>1, <2>1, <2>3
    <2> QED
      BY <2>1, <2>3, <2>4, <2>5
  <1>5. EachIsThere(new, c, f)
    <2> SUFFICES ASSUME NEW k \in DOMAIN f, f[k] # 0
                 PROVE  \E w \in 1 .. c - 1 : new[w].n = f[k] /\ new[w].i = 1
      BY DEF EachIsThere
    <2>1. PICK w \in 1 .. c - 1 : old[w].n = f[k] /\ old[w].i = 1
      BY DEF Taken, EachIsThere
    <2>2. w \in 1 .. L
      BY <1>1, <1>3
    <2> QED
      BY <1>2, <2>1, <2>2
  <1> QED
    BY <1>4, <1>5 DEF Taken

LEMMA ProcessBytesStep ==
    ASSUME LinkProtocolAssumption, DecoderInv, NEW n \in DOMAIN air, ProcessBytes(n)
    PROVE  DecoderInv'
  <1> DEFINE A == Len(arrived)
             B == Len(air)
             I == Len(inputBlob)
             new == SubSeq(air, 1, n)
             blob == inputBlob \o new
             r == Consume(blob)
  <1>1. /\ air \in Seq(Cells) /\ arrived \in Seq(Cells) /\ inputBlob \in Seq(Cells)
        /\ A \in Nat /\ B \in Nat /\ I \in Nat
        /\ DOMAIN arrived = 1 .. A /\ DOMAIN air = 1 .. B /\ DOMAIN inputBlob = 1 .. I
        /\ \A k \in 1 .. B : air[k] \in Cells
        /\ found \in Seq(0 .. MaxEnvelopes)
    BY DEF DecoderInv, ProtocolTypeOK
  <1>2. /\ inputBlob' = SubSeq(blob, r.end, Len(blob))
        /\ found' = found \o r.found
        /\ air' = SubSeq(air, n + 1, B)
        /\ arrived' = arrived \o new
        /\ UNCHANGED <<produced, damages>>
    BY DEF ProcessBytes
  <1>3. /\ Rest \in Nat /\ Rest = A - I
        /\ \A b \in 1 .. I : inputBlob[b] = arrived[Rest + b]
    BY <1>1 DEF DecoderInv, BlobIsRest, Rest
  <1>4. n \in 1 .. B
    BY <1>1
  <1> HIDE DEF A, B, I
  <1>5. /\ new \in Seq(Cells) /\ Len(new) = n
        /\ \A k \in 1 .. n : new[k] = air[k]
    <2>1. \A k \in 1 .. n : air[k] \in Cells
      BY <1>1, <1>4
    <2>2. 1 \in Int /\ n \in Int
      BY <1>4
    <2>3. /\ new \in Seq(Cells) /\ Len(new) = IF 1 <= n THEN n - 1 + 1 ELSE 0
          /\ \A k \in 1 .. n - 1 + 1 : new[k] = air[1 + k - 1]
      BY <2>1, <2>2, SubSeqProperties
    <2>4. (IF 1 <= n THEN n - 1 + 1 ELSE 0) = n /\ n - 1 + 1 = n
          /\ \A k \in 1 .. n : 1 + k - 1 = k
      BY <1>4
    <2> HIDE DEF new
    <2> QED
      BY <2>3, <2>4
  <1> HIDE DEF new
  <1>6. /\ arrived' \in Seq(Cells) /\ Len(arrived') = A + n /\ DOMAIN arrived' = 1 .. A + n
        /\ \A k \in 1 .. A + n : arrived'[k] = IF k <= A THEN arrived[k] ELSE new[k - A]
    BY <1>1, <1>2, <1>5, ConcatIs DEF A
  <1>7. /\ blob \in Seq(Cells) /\ Len(blob) = I + n
        /\ \A k \in 1 .. I + n : blob[k] = IF k <= I THEN inputBlob[k] ELSE new[k - I]
    BY <1>1, <1>5, ConcatIs DEF I
  <1> HIDE DEF blob
  <1>8. /\ air' \in Seq(Cells) /\ DOMAIN air' = 1 .. B - n
        /\ \A k \in 1 .. B - n : air'[k] = air[n + k]
    <2>1. \A k \in n + 1 .. B : air[k] \in Cells
      BY <1>1, <1>4
    <2>2. n + 1 \in Int /\ B \in Int
      BY <1>1, <1>4
    <2>3. /\ air' \in Seq(Cells) /\ Len(air') = IF n + 1 <= B THEN B - (n + 1) + 1 ELSE 0
          /\ \A k \in 1 .. B - (n + 1) + 1 : air'[k] = air[n + 1 + k - 1]
      BY <1>2, <2>1, <2>2, SubSeqProperties
    <2>4. (IF n + 1 <= B THEN B - (n + 1) + 1 ELSE 0) = B - n /\ B - (n + 1) + 1 = B - n
          /\ \A k \in 1 .. B - n : n + 1 + k - 1 = n + k
      BY <1>1, <1>4
    <2> QED
      BY <2>3, <2>4
  <1>9. StreamInOrder'
    <2>1. /\ \A q \in 1 .. A : WellFormed(arrived[q]) /\ arrived[q].n <= produced
          /\ \A q \in 1 .. B : WellFormed(air[q]) /\ air[q].n <= produced
          /\ \A p, q \in 1 .. A : p < q => After(arrived[p], arrived[q])
          /\ \A p, q \in 1 .. B : p < q => After(air[p], air[q])
          /\ \A p \in 1 .. A, q \in 1 .. B : After(arrived[p], air[q])
      BY <1>1 DEF DecoderInv, StreamInOrder, Made, InOrder
    <2>2. ASSUME NEW q \in DOMAIN arrived'
          PROVE  \/ q \in 1 .. A /\ arrived'[q] = arrived[q]
                 \/ q > A /\ q - A \in 1 .. n /\ q - A \in 1 .. B /\ arrived'[q] = air[q - A]
      <3>1. CASE q <= A
        BY <1>6, <3>1
      <3>2. CASE ~(q <= A)
        <4>1. q > A /\ q - A \in 1 .. n /\ q - A \in 1 .. B
          BY <1>1, <1>4, <1>6, <3>2
        <4> QED
          BY <1>5, <1>6, <3>2, <4>1
      <3> QED
        BY <3>1, <3>2
    <2>3. ASSUME NEW q \in DOMAIN air'
          PROVE  n + q \in 1 .. B /\ n + q > n /\ air'[q] = air[n + q]
      BY <1>1, <1>4, <1>8
    <2>4. Made(arrived', produced)
      BY <2>1, <2>2 DEF Made
    <2>5. Made(air', produced)
      BY <2>1, <2>3 DEF Made
    <2>6. InOrder(arrived')
      <3> SUFFICES ASSUME NEW p \in DOMAIN arrived', NEW q \in DOMAIN arrived', p < q
                   PROVE  After(arrived'[p], arrived'[q])
        BY DEF InOrder
      <3>1. CASE q \in 1 .. A /\ arrived'[q] = arrived[q]
        <4>1. p \in 1 .. A /\ arrived'[p] = arrived[p]
          BY <1>1, <1>6, <2>2, <3>1
        <4> QED
          BY <2>1, <3>1, <4>1
      <3>2. CASE q > A /\ q - A \in 1 .. B /\ arrived'[q] = air[q - A]
        <4>1. CASE p \in 1 .. A /\ arrived'[p] = arrived[p]
          BY <2>1, <3>2, <4>1
        <4>2. CASE p > A /\ p - A \in 1 .. B /\ arrived'[p] = air[p - A]
          <5>1. p - A < q - A
            BY <1>1, <1>6
          <5> QED
            BY <2>1, <3>2, <4>2, <5>1
        <4> QED
          BY <2>2, <4>1, <4>2
      <3> QED
        BY <2>2, <3>1, <3>2
    <2>7. InOrder(air')
      <3> SUFFICES ASSUME NEW p \in DOMAIN air', NEW q \in DOMAIN air', p < q
                   PROVE  After(air'[p], air'[q])
        BY DEF InOrder
      <3>1. n + p < n + q
        BY <1>4, <1>8
      <3> QED
        BY <2>1, <2>3, <3>1
    <2>8. ASSUME NEW p \in DOMAIN arrived', NEW q \in DOMAIN air'
          PROVE  After(arrived'[p], air'[q])
      <3>1. CASE p \in 1 .. A /\ arrived'[p] = arrived[p]
        BY <2>1, <2>3, <3>1
      <3>2. CASE p - A \in 1 .. n /\ p - A \in 1 .. B /\ arrived'[p] = air[p - A]
        <4>1. p - A < n + q
          BY <1>1, <1>4, <1>6, <1>8, <3>2
        <4> QED
          BY <2>1, <2>3, <3>2, <4>1
      <3> QED
        BY <2>2, <3>1, <3>2
    <2> QED
      BY <1>2, <2>4, <2>5, <2>6, <2>7, <2>8 DEF StreamInOrder
  <1>10. Genuine(arrived')
    BY <1>6, <1>9 DEF Genuine, StreamInOrder, Made
  <1>11. IsRest(blob, arrived', Rest)
    <2>1. I + n = (A + n) - Rest
      BY <1>1, <1>3, <1>4
    <2>2. ASSUME NEW b \in 1 .. I + n
          PROVE  blob[b] = arrived'[Rest + b]
      <3>1. CASE b <= I
        <4>1. b \in 1 .. I /\ Rest + b \in 1 .. A + n /\ Rest + b <= A
          BY <1>1, <1>3, <1>4, <3>1
        <4> QED
          BY <1>3, <1>6, <1>7, <3>1, <4>1
      <3>2. CASE ~(b <= I)
        <4>1. Rest + b \in 1 .. A + n /\ ~(Rest + b <= A) /\ (Rest + b) - A = b - I
          BY <1>1, <1>3, <1>4, <3>2
        <4> QED
          BY <1>6, <1>7, <3>2, <4>1
      <3> QED
        BY <3>1, <3>2
    <2> QED
      <3>1. Len(blob) = Len(arrived') - Rest
        BY <1>6, <1>7, <2>1
      <3>2. \A b \in 1 .. Len(blob) : blob[b] = arrived'[Rest + b]
        BY <1>7, <2>2
      <3> QED
        BY <1>3, <1>7, <3>1, <3>2 DEF IsRest
  <1>12. Taken(arrived', Rest + 1, found)
    <2>1. A <= A + n /\ Rest + 1 \in 1 .. A + 1
      BY <1>1, <1>3, <1>4
    <2>2. \A q \in 1 .. A : arrived'[q] = arrived[q]
      <3>1. \A q \in 1 .. A : q \in 1 .. A + n /\ q <= A
        BY <1>1, <1>4
      <3> QED
        BY <1>6, <3>1
    <2>3. Taken(arrived, Rest + 1, found)
      BY DEF DecoderInv
    <2> QED
      BY <1>1, <1>6, <2>1, <2>2, <2>3, MoreArrives DEF A
  <1>13. /\ r.end \in 1 .. I + n + 1
         /\ r.found \in Seq(0 .. MaxEnvelopes)
         /\ Taken(arrived', Rest + r.end, found')
         /\ Waits(blob, r.end)
    BY <1>1, <1>2, <1>7, <1>10, <1>11, <1>12, ConsumeTakes DEF Takes
  <1>14. Waits(arrived', Rest + r.end)
    BY <1>6, <1>7, <1>11, <1>13, RestIs
  <1> DEFINE e == r.end
  <1>15. inputBlob' = SubSeq(blob, e, I + n)
    BY <1>2, <1>7
  <1> HIDE DEF r, e
  <1>16. e \in 1 .. I + n + 1
    BY <1>13 DEF e
  <1>17. /\ inputBlob' \in Seq(Cells) /\ Len(inputBlob') = I + n + 1 - e
         /\ \A b \in 1 .. I + n + 1 - e : inputBlob'[b] = blob[e + b - 1]
    <2> DEFINE N == I + n
    <2>1. N \in Int /\ e \in Int /\ e \in 1 .. N + 1
      BY <1>1, <1>4, <1>16
    <2>2. \A k \in 1 .. N : blob[k] \in Cells
      BY <1>7
    <2>3. inputBlob' = SubSeq(blob, e, N)
      BY <1>15
    <2> HIDE DEF N
    <2>4. \A k \in e .. N : blob[k] \in Cells
      BY <2>1, <2>2
    <2>5. /\ inputBlob' \in Seq(Cells) /\ Len(inputBlob') = IF e <= N THEN N - e + 1 ELSE 0
          /\ \A b \in 1 .. N - e + 1 : inputBlob'[b] = blob[e + b - 1]
      BY <2>1, <2>3, <2>4, SubSeqProperties
    <2>6. (IF e <= N THEN N - e + 1 ELSE 0) = N + 1 - e /\ N - e + 1 = N + 1 - e
      BY <2>1
    <2>7. /\ inputBlob' \in Seq(Cells) /\ Len(inputBlob') = N + 1 - e
          /\ \A b \in 1 .. N + 1 - e : inputBlob'[b] = blob[e + b - 1]
      BY <2>5, <2>6
    <2> QED
      BY <2>7 DEF N
  <1>18. Rest' = Rest + e - 1 /\ Rest' + 1 = Rest + e /\ Rest' \in Nat
    <2>1. Rest' = (A + n) - (I + n + 1 - e)
      BY <1>6, <1>17 DEF Rest
    <2> QED
      BY <1>1, <1>3, <1>4, <1>16, <2>1
  <1>19. BlobIsRest'
    <2> SUFFICES ASSUME NEW b \in DOMAIN inputBlob'
                 PROVE  inputBlob'[b] = arrived'[Rest' + b]
      BY <1>18 DEF BlobIsRest
    <2>1. b \in 1 .. I + n + 1 - e
      BY <1>17
    <2>2. e + b - 1 \in 1 .. I + n /\ Rest + (e + b - 1) = Rest' + b
      BY <1>1, <1>3, <1>4, <1>16, <1>18, <2>1
    <2>3. blob[e + b - 1] = arrived'[Rest + (e + b - 1)]
      BY <1>7, <1>11, <2>2 DEF IsRest
    <2> QED
      BY <1>17, <2>1, <2>2, <2>3
  <1>20. ProtocolTypeOK'
    <2>1. found' \in Seq(0 .. MaxEnvelopes)
      BY <1>1, <1>2, <1>13 DEF r
    <2> QED
      BY <1>2, <1>6, <1>8, <1>17, <2>1 DEF DecoderInv, ProtocolTypeOK
  <1> QED
    BY <1>9, <1>13, <1>14, <1>18, <1>19, <1>20 DEF DecoderInv, e

LEMMA DecoderNext ==
    ASSUME LinkProtocolAssumption, DecoderInv, [ProtocolNext]_protocolVars
    PROVE  DecoderInv'
  <1>1. CASE \E e \in AllEnvelopes : SendEnvelope(e)
    BY <1>1, SendEnvelopeStep
  <1>2. CASE Damage
    BY <1>2, DamageStep
  <1>3. CASE \E n \in DOMAIN air : ProcessBytes(n)
    BY <1>3, ProcessBytesStep
  <1>4. CASE UNCHANGED protocolVars
    BY <1>4 DEF protocolVars, DecoderInv, ProtocolTypeOK, StreamInOrder, BlobIsRest, Rest
  <1> QED
    BY <1>1, <1>2, <1>3, <1>4 DEF ProtocolNext

LEMMA DecoderInvariance ==
    ASSUME LinkProtocolAssumption
    PROVE  ProtocolSpec => []DecoderInv
  <1>1. ProtocolInit => DecoderInv
    BY DecoderInit
  <1>2. DecoderInv /\ [ProtocolNext]_protocolVars => DecoderInv'
    BY DecoderNext
  <1> QED
    BY <1>1, <1>2, PTL DEF ProtocolSpec

-----------------------------------------------------------------------------
\* Type correctness of the bytes under way and of what the decoder keeps: that
\* LinkProtocol::consume() ends within its input, whatever that is.
THEOREM ProtocolTypeCorrect ==
    ASSUME LinkProtocolAssumption
    PROVE  ProtocolSpec => []ProtocolTypeOK
  <1>1. DecoderInv => ProtocolTypeOK
    BY DEF DecoderInv
  <1> QED
    BY <1>1, DecoderInvariance, PTL

\* LinkProtocol::consume() finds every envelope that damage neither hits nor just
\* precedes, and none twice, however the bytes are cut.  It has been past the
\* envelope, because it does not wait at or before one that is there with enough
\* behind its beginning.
THEOREM DamageStaysLocal ==
    ASSUME LinkProtocolAssumption
    PROVE  ProtocolSpec => []DamageIsLocal
  <1>1. DecoderInv => DamageIsLocal
    <2> SUFFICES ASSUME DecoderInv PROVE DamageIsLocal
      OBVIOUS
    <2> DEFINE A == Len(arrived)
    <2>1. /\ arrived \in Seq(Cells) /\ A \in Nat /\ DOMAIN arrived = 1 .. A
          /\ Rest \in Nat /\ Taken(arrived, Rest + 1, found) /\ Waits(arrived, Rest + 1)
      BY DEF DecoderInv, ProtocolTypeOK, BlobIsRest
    <2> HIDE DEF A
    <2>2. ASSUME NEW p \in DOMAIN arrived, WholeAt(arrived, p), IntactBefore(arrived, p)
          PROVE  \E k \in DOMAIN found : found[k] = arrived[p].n
      <3>1. p \in 1 .. A /\ p + Longer <= A /\ Longer \in Nat /\ Longer >= 2
        <4>1. p + PrefixSize + Longer - 1 <= A
          BY <2>2 DEF WholeAt, A
        <4>2. PrefixSize = 1 /\ Longer \in Nat /\ Longer >= 2
          BY DEF PrefixSize, Longer, LinkProtocolAssumption
        <4> QED
          BY <2>1, <4>1, <4>2
      <3>2. p < Rest + 1
        <4> SUFFICES ASSUME Rest + 1 <= p PROVE FALSE
          BY <2>1, <3>1
        <4> DEFINE e == arrived[Rest + 1].look
        <4>1. /\ Size(e) \in Nat /\ Size(e) <= Longer /\ PrefixSize = 1
          BY SizesAre
        <4>2. \/ A + 1 - (Rest + 1) <= PrefixSize + 1
              \/ (A + 1 - (Rest + 1)) - PrefixSize < Size(e)
          BY <2>1 DEF Waits, A
        <4> HIDE DEF e
        <4> QED
          BY <2>1, <3>1, <4>1, <4>2
      <3>3. p \in 1 .. (Rest + 1) - 1
        BY <2>1, <3>1, <3>2
      <3>4. arrived[p].n # 0 /\ arrived[p].i = 0 /\ BodyAt(arrived, p)
        <4>1. arrived[p].n # 0 /\ BodyAt(arrived, p)
          BY <2>2 DEF WholeAt
        <4>2. 0 \in 0 .. Size(arrived[p].of) /\ p + 0 = p
          BY <3>1, SizesAre
        <4>3. arrived[p + 0].i = 0
          BY <4>1, <4>2 DEF BodyAt
        <4> QED
          BY <4>1, <4>2, <4>3
      <3> QED
        BY <2>1, <2>2, <3>3, <3>4 DEF Taken, NoneIsMissed
    <2>3. \A j, k \in DOMAIN found : found[j] = found[k] /\ found[j] # 0 => j = k
      BY <2>1 DEF Taken, NoneIsTwice
    <2> QED
      BY <2>2, <2>3 DEF DamageIsLocal
  <1> QED
    BY <1>1, DecoderInvariance, PTL

-----------------------------------------------------------------------------
(***************************************************************************)
(* The cuts in the stream do not matter: what the decoder has found and what *)
(* it holds are what LinkProtocol::consume() makes of all bytes at once.     *)
(***************************************************************************)
IsFrom(f, cells) == \A b \in 1 .. Len(cells) + 1 : f[b] = ConsumeAt(cells, b, f)
Following(cells, b) == b + PrefixSize + Size(cells[b].look)
Number(cells, b) == Verified(cells[b].look, Body(cells, b))
TakesBody(cells, b) == Accepts(cells[b].look, Body(cells, b))
With(n, r) == [r EXCEPT !.found = <<n>> \o @]

\* The three things consume() does at a place: it waits, it goes on to the next
\* place, or it takes a body.
LEMMA ConsumeWaits ==
    ASSUME LinkProtocolAssumption, NEW cells \in Seq(Cells), NEW f, IsFrom(f, cells),
           NEW b \in 1 .. Len(cells) + 1, Waits(cells, b)
    PROVE  f[b] = [end |-> b, found |-> <<>>]
  <1>1. f[b] = ConsumeAt(cells, b, f)
    BY DEF IsFrom
  <1> QED
    BY <1>1 DEF ConsumeAt, Waits

LEMMA ConsumeSkips ==
    ASSUME LinkProtocolAssumption, NEW cells \in Seq(Cells), NEW f, IsFrom(f, cells),
           NEW b \in 1 .. Len(cells) + 1, ~Waits(cells, b), ~TakesBody(cells, b)
    PROVE  /\ b + 1 \in b + 1 .. Len(cells) + 1
           /\ f[b] = f[b + 1]
  <1>1. f[b] = ConsumeAt(cells, b, f)
    BY DEF IsFrom
  <1>2. f[b] = f[b + 1]
    BY <1>1 DEF ConsumeAt, Waits, TakesBody, Body
  <1>3. b + 2 <= Len(cells)
    BY DoesNotWait
  <1> QED
    BY <1>2, <1>3

LEMMA ConsumeAccepts ==
    ASSUME LinkProtocolAssumption, NEW cells \in Seq(Cells), NEW f, IsFrom(f, cells),
           NEW b \in 1 .. Len(cells) + 1, ~Waits(cells, b), TakesBody(cells, b)
    PROVE  /\ cells[b].look \in AllEnvelopes
           /\ Following(cells, b) \in b + 1 .. Len(cells) + 1
           /\ Number(cells, b) \in 0 .. MaxEnvelopes
           /\ f[b] = With(Number(cells, b), f[Following(cells, b)])
  <1> DEFINE L == Len(cells)
             s == Size(cells[b].look)
  <1>1. /\ L \in Nat /\ s \in Nat \ {0, 1} /\ PrefixSize = 1 /\ b \in 1 .. L + 1
    BY SizesAre
  <1>2. f[b] = ConsumeAt(cells, b, f)
    BY DEF IsFrom
  <1>3. cells[b].look \in AllEnvelopes
    BY DEF TakesBody, Accepts, AllEnvelopes
  <1>4. b + 2 <= L /\ b + s <= L
    BY <1>3, DoesNotWait
  <1>5. f[b] = With(Number(cells, b), f[Following(cells, b)])
    BY <1>2 DEF ConsumeAt, Waits, TakesBody, Body, Following, Number, With
  <1>6. Following(cells, b) = b + 1 + s
    BY <1>1 DEF Following
  <1>7. b \in 1 .. L
    <2> HIDE DEF L
    <2> QED BY <1>1, <1>4
  <1>8. Number(cells, b) \in 0 .. MaxEnvelopes
    BY <1>4, <1>7, VerifiedIs DEF Number
  <1> HIDE DEF L, s
  <1>9. b + 1 + s \in b + 1 .. L + 1
    BY <1>1, <1>4
  <1> QED
    BY <1>3, <1>5, <1>6, <1>8, <1>9 DEF L

\* What consume() makes of the cells from a place on.
Result(r, cells, b) ==
    /\ r = [end |-> r.end, found |-> r.found]
    /\ r.end \in b .. Len(cells) + 1
    /\ r.found \in Seq(0 .. MaxEnvelopes)

LEMMA ConsumeTyped ==
    ASSUME LinkProtocolAssumption, NEW cells \in Seq(Cells), NEW f, IsFrom(f, cells)
    PROVE  \A b \in 1 .. Len(cells) + 1 : Result(f[b], cells, b)
  <1> DEFINE M == Len(cells)
             T == {b \in 1 .. M + 1 : Result(f[b], cells, b)}
  <1>1. M \in Nat
    OBVIOUS
  <1>2. ASSUME NEW b \in 1 .. M + 1, \A c \in b + 1 .. M + 1 : c \in T
        PROVE  b \in T
    <2> SUFFICES Result(f[b], cells, b)
      OBVIOUS
    <2>1. \A c \in b + 1 .. M + 1 :
              /\ f[c] = [end |-> f[c].end, found |-> f[c].found]
              /\ f[c].end \in b .. M + 1
              /\ f[c].found \in Seq(0 .. MaxEnvelopes)
      <3>1. \A c \in b + 1 .. M + 1 : Result(f[c], cells, c)
        BY <1>2
      <3>2. \A c \in b + 1 .. M + 1 : c .. M + 1 \subseteq b .. M + 1
        BY <1>1
      <3> HIDE DEF T
      <3> QED BY <3>1, <3>2 DEF Result, M
    <2>2. CASE Waits(cells, b)
      <3>1. f[b] = [end |-> b, found |-> <<>>]
        BY <2>2, ConsumeWaits
      <3>2. <<>> \in Seq(0 .. MaxEnvelopes) /\ b \in b .. M + 1
        BY <1>1
      <3> QED
        BY <3>1, <3>2 DEF Result, M
    <2>3. CASE ~Waits(cells, b) /\ ~TakesBody(cells, b)
      <3>1. b + 1 \in b + 1 .. M + 1 /\ f[b] = f[b + 1]
        BY <2>3, ConsumeSkips
      <3> QED
        BY <2>1, <3>1 DEF Result, M
    <2>4. CASE ~Waits(cells, b) /\ TakesBody(cells, b)
      <3> DEFINE c == Following(cells, b)
                 n == Number(cells, b)
      <3>1. /\ c \in b + 1 .. M + 1 /\ n \in 0 .. MaxEnvelopes
            /\ f[b] = With(n, f[c])
        BY <2>4, ConsumeAccepts
      <3> HIDE DEF c, n
      <3>2. /\ f[c] = [end |-> f[c].end, found |-> f[c].found]
            /\ f[c].end \in b .. M + 1 /\ f[c].found \in Seq(0 .. MaxEnvelopes)
        BY <2>1, <3>1
      <3>3. f[b] = [end |-> f[c].end, found |-> <<n>> \o f[c].found]
        BY <3>1, <3>2 DEF With
      <3>4. <<n>> \o f[c].found \in Seq(0 .. MaxEnvelopes)
        BY <3>1, <3>2
      <3> QED
        BY <3>2, <3>3, <3>4 DEF Result, M
    <2> QED
      BY <2>2, <2>3, <2>4
  <1>3. 1 .. M + 1 \subseteq T
    <2> HIDE DEF T, M
    <2> QED BY <1>1, <1>2, FromTheEnd
  <1> QED
    BY <1>3

\* Behind old bytes there may be new ones: consume() goes on where it waited.
Continues(new, old) ==
    /\ Len(old) <= Len(new)
    /\ \A q \in 1 .. Len(old) : new[q] = old[q]

GoesOn(g, f, b) ==
    /\ g[b].end = g[f[b].end].end
    /\ g[b].found = f[b].found \o g[f[b].end].found

LEMMA ConsumeGoesOn ==
    ASSUME LinkProtocolAssumption, NEW old \in Seq(Cells), NEW new \in Seq(Cells),
           Continues(new, old),
           NEW f, IsFrom(f, old), NEW g, IsFrom(g, new)
    PROVE  \A b \in 1 .. Len(old) + 1 : GoesOn(g, f, b)
  <1> DEFINE L == Len(old)
             M == Len(new)
             T == {b \in 1 .. L + 1 : GoesOn(g, f, b)}
  <1>1. L \in Nat /\ M \in Nat /\ L <= M
    BY DEF Continues
  <1>2. \A q \in 1 .. L : new[q] = old[q]
    BY DEF Continues
  <1>3. /\ \A b \in 1 .. L + 1 : Result(f[b], old, b)
        /\ \A b \in 1 .. M + 1 : Result(g[b], new, b)
    BY ConsumeTyped
  <1>4. ASSUME NEW b \in 1 .. L + 1, \A c \in b + 1 .. L + 1 : c \in T
        PROVE  b \in T
    <2> SUFFICES GoesOn(g, f, b)
      OBVIOUS
    <2>1. \A c \in b + 1 .. L + 1 : GoesOn(g, f, c)
      BY <1>4
    <2>2. b \in 1 .. M + 1
      BY <1>1
    <2>3. CASE Waits(old, b)
      <3>1. f[b] = [end |-> b, found |-> <<>>]
        BY <2>3, ConsumeWaits
      <3>2. g[b].found \in Seq(0 .. MaxEnvelopes)
        BY <1>3, <2>2 DEF Result
      <3>3. <<>> \o g[b].found = g[b].found
        BY <3>2, ConcatEmptySeq
      <3>4. f[b].end = b /\ f[b].found = <<>>
        BY <3>1
      <3> QED
        BY <3>3, <3>4, Zenon DEF GoesOn
    <2>4. CASE ~Waits(old, b)
      <3> DEFINE s == Size(old[b].look)
                 c == Following(old, b)
                 n == Number(old, b)
      <3>1. b \in 1 .. L /\ b \in 1 .. M /\ new[b] = old[b]
        <4>1. b \in 1 .. L
          BY <2>4, DoesNotWait
        <4> QED
          BY <1>1, <1>2, <4>1
      <3>2. ~Waits(new, b)
        <4>1. ~(L + 1 - b <= PrefixSize + 1)
          BY <2>4 DEF Waits
        <4>2. old[b].look \in AllEnvelopes => ~((L + 1 - b) - PrefixSize < s)
          BY <2>4 DEF Waits
        <4>3. s \in Nat /\ PrefixSize = 1
          BY SizesAre
        <4> HIDE DEF L, M, s
        <4>4. L + 1 - b <= M + 1 - b /\ b \in Int
          BY <1>1, <3>1
        <4>5. ~(M + 1 - b <= PrefixSize + 1)
          BY <1>1, <4>1, <4>3, <4>4
        <4>6. old[b].look \in AllEnvelopes => ~((M + 1 - b) - PrefixSize < s)
          BY <1>1, <4>2, <4>3, <4>4
        <4> QED
          BY <3>1, <4>5, <4>6 DEF Waits, M, s
      <3>3. old[b].look \in AllEnvelopes => Body(new, b) = Body(old, b)
        <4> SUFFICES ASSUME old[b].look \in AllEnvelopes PROVE Body(new, b) = Body(old, b)
          OBVIOUS
        <4>1. b + s <= L
          BY <2>4, DoesNotWait
        <4>2. s \in Nat /\ s = Size(new[b].look)
          BY <3>1, SizesAre
        <4>3. /\ Body(old, b) \in Seq(Cells) /\ Len(Body(old, b)) = s
              /\ \A i \in 1 .. s : Body(old, b)[i] = old[b + i]
          BY <3>1, <4>1, BodyIs
        <4>4. b + s <= M
          <5> HIDE DEF s, L, M
          <5> QED BY <1>1, <3>1, <4>1, <4>2
        <4>5. /\ Body(new, b) \in Seq(Cells) /\ Len(Body(new, b)) = s
              /\ \A i \in 1 .. s : Body(new, b)[i] = new[b + i]
          BY <3>1, <4>2, <4>4, BodyIs
        <4> HIDE DEF s, L, M
        <4>6. \A i \in 1 .. s : b + i \in 1 .. L
          BY <1>1, <3>1, <4>1, <4>2
        <4>7. \A i \in 1 .. s : new[b + i] = old[b + i]
          BY <1>2, <4>6
        <4>8. \A i \in 1 .. Len(Body(new, b)) : Body(new, b)[i] = Body(old, b)[i]
          BY <4>3, <4>5, <4>7
        <4>9. Len(Body(new, b)) = Len(Body(old, b))
          BY <4>3, <4>5
        <4> QED
          BY <4>3, <4>5, <4>8, <4>9, SeqEqual, Zenon
      <3>4. TakesBody(new, b) <=> TakesBody(old, b)
        BY <3>1, <3>3 DEF TakesBody, Accepts, AllEnvelopes
      <3>5. CASE ~TakesBody(old, b)
        <4>1. b + 1 \in b + 1 .. L + 1 /\ f[b] = f[b + 1]
          BY <2>4, <3>5, ConsumeSkips
        <4>2. g[b] = g[b + 1]
          BY <2>2, <3>2, <3>4, <3>5, ConsumeSkips
        <4> QED
          BY <2>1, <4>1, <4>2 DEF GoesOn
      <3>6. CASE TakesBody(old, b)
        <4>1. /\ old[b].look \in AllEnvelopes
              /\ c \in b + 1 .. L + 1 /\ n \in 0 .. MaxEnvelopes
              /\ f[b] = With(n, f[c])
          BY <2>4, <3>6, ConsumeAccepts
        <4>2. Following(new, b) = c /\ Number(new, b) = n
          BY <3>1, <3>3, <4>1 DEF Following, Number
        <4>3. g[b] = With(n, g[c])
          BY <2>2, <3>2, <3>4, <3>6, <4>2, ConsumeAccepts
        <4> HIDE DEF c, n
        <4>4. c \in 1 .. L + 1 /\ c \in 1 .. M + 1
          <5> HIDE DEF L, M
          <5> QED BY <1>1, <4>1
        <4>5. Result(f[c], old, c) /\ Result(g[c], new, c)
          BY <1>3, <4>4
        <4>6. f[b] = [end |-> f[c].end, found |-> <<n>> \o f[c].found]
          BY <4>1, <4>5 DEF Result, With
        <4>7. g[b] = [end |-> g[c].end, found |-> <<n>> \o g[c].found]
          BY <4>3, <4>5 DEF Result, With
        <4> DEFINE d == f[c].end
                   h == f[c].found
                   i == g[d].found
        <4>8. g[c].end = g[d].end /\ g[c].found = h \o i
          BY <2>1, <4>1 DEF GoesOn
        <4>9. /\ h \in Seq(0 .. MaxEnvelopes) /\ i \in Seq(0 .. MaxEnvelopes)
              /\ <<n>> \in Seq(0 .. MaxEnvelopes)
          <5>1. d \in c .. L + 1
            BY <4>5 DEF Result
          <5>2. d \in 1 .. M + 1
            <6> HIDE DEF d, L, M
            <6> QED BY <1>1, <4>4, <5>1
          <5>3. Result(g[d], new, d)
            BY <1>3, <5>2
          <5> QED
            BY <4>1, <4>5, <5>3 DEF Result
        <4>10. f[b].end = d /\ f[b].found = <<n>> \o h
          BY <4>6
        <4>11. g[b].end = g[d].end /\ g[b].found = <<n>> \o (h \o i)
          <5>1. g[b].end = g[c].end /\ g[b].found = <<n>> \o g[c].found
            BY <4>7
          <5> HIDE DEF d, h, i
          <5> QED
            BY <4>8, <5>1
        <4> DEFINE one == <<n>>
        <4> HIDE DEF d, h, i, one
        <4>12. one \o (h \o i) = (one \o h) \o i
          <5>1. one \in Seq(0 .. MaxEnvelopes)
            BY <4>9 DEF one
          <5> QED
            <6> DEFINE S == 0 .. MaxEnvelopes
            <6>1. one \in Seq(S) /\ h \in Seq(S) /\ i \in Seq(S)
              BY <4>9, <5>1
            <6> HIDE DEF S
            <6>2. (one \o h) \o i = one \o (h \o i)
              BY <6>1, ConcatAssociative
            <6> QED
              BY <6>2
        <4> QED
          BY <4>10, <4>11, <4>12 DEF one, i, GoesOn
      <3> QED
        BY <3>5, <3>6
    <2> QED
      BY <2>3, <2>4
  <1>5. 1 .. L + 1 \subseteq T
    <2> HIDE DEF T, L
    <2> QED BY <1>1, <1>4, FromTheEnd
  <1> QED
    BY <1>5

\* On the rest of the bytes, consume() does what it does on all of them.
LEMMA ConsumeOfRest ==
    ASSUME LinkProtocolAssumption, NEW cells \in Seq(Cells), NEW o, NEW blob,
           IsRest(blob, cells, o),
           NEW f, IsFrom(f, blob), NEW g, IsFrom(g, cells)
    PROVE  \A b \in 1 .. Len(blob) + 1 :
               /\ g[o + b].end = o + f[b].end
               /\ g[o + b].found = f[b].found
  <1> DEFINE L == Len(cells)
             M == Len(blob)
             Same(b) == g[o + b].end = o + f[b].end /\ g[o + b].found = f[b].found
             T == {b \in 1 .. M + 1 : Same(b)}
  <1>1. blob \in Seq(Cells) /\ L \in Nat /\ M \in Nat /\ o \in Nat
    BY DEF IsRest
  <1>2. /\ \A b \in 1 .. M + 1 : Result(f[b], blob, b)
        /\ \A b \in 1 .. L + 1 : Result(g[b], cells, b)
    BY <1>1, ConsumeTyped
  <1>3. ASSUME NEW b \in 1 .. M + 1, \A c \in b + 1 .. M + 1 : c \in T
        PROVE  b \in T
    <2> SUFFICES Same(b)
      OBVIOUS
    <2>1. \A c \in b + 1 .. M + 1 : Same(c)
      BY <1>3
    <2>2. o + b \in 1 .. L + 1 /\ (Waits(blob, b) <=> Waits(cells, o + b))
      BY <1>1, RestIs
    <2>3. CASE Waits(blob, b)
      <3>1. f[b] = [end |-> b, found |-> <<>>]
        BY <1>1, <2>3, ConsumeWaits
      <3>2. g[o + b] = [end |-> o + b, found |-> <<>>]
        BY <2>2, <2>3, ConsumeWaits
      <3> QED
        BY <3>1, <3>2
    <2>4. CASE ~Waits(blob, b)
      <3>1. /\ blob[b] = cells[o + b]
            /\ blob[b].look \in AllEnvelopes => Body(blob, b) = Body(cells, o + b)
        BY <1>1, <2>4, RestIs
      <3>2. TakesBody(blob, b) <=> TakesBody(cells, o + b)
        BY <3>1 DEF TakesBody, Accepts, AllEnvelopes
      <3>3. CASE ~TakesBody(blob, b)
        <4>1. b + 1 \in b + 1 .. M + 1 /\ f[b] = f[b + 1]
          BY <1>1, <2>4, <3>3, ConsumeSkips
        <4>2. g[o + b] = g[(o + b) + 1]
          BY <2>2, <2>4, <3>2, <3>3, ConsumeSkips
        <4>3. (o + b) + 1 = o + (b + 1)
          BY <1>1
        <4> QED
          BY <2>1, <4>1, <4>2, <4>3
      <3>4. CASE TakesBody(blob, b)
        <4> DEFINE c == Following(blob, b)
                   n == Number(blob, b)
        <4>1. /\ blob[b].look \in AllEnvelopes
              /\ c \in b + 1 .. M + 1
              /\ f[b] = With(n, f[c])
          BY <1>1, <2>4, <3>4, ConsumeAccepts
        <4>2. Following(cells, o + b) = o + c /\ Number(cells, o + b) = n
          <5>1. Number(cells, o + b) = n
            BY <3>1, <4>1 DEF Number
          <5>2. PrefixSize \in Nat /\ Size(blob[b].look) \in Nat
            BY SizesAre
          <5>3. Following(cells, o + b) = (o + b) + PrefixSize + Size(blob[b].look)
            BY <3>1 DEF Following
          <5> QED
            BY <1>1, <5>1, <5>2, <5>3 DEF Following
        <4>3. /\ g[o + b] = With(n, g[o + c])
              /\ o + c \in (o + b) + 1 .. L + 1
          BY <2>2, <2>4, <3>2, <3>4, <4>2, ConsumeAccepts
        <4> HIDE DEF c, n, L, M
        <4>4. c \in 1 .. M + 1 /\ o + c \in 1 .. L + 1
          BY <1>1, <4>1, <4>3
        <4>5. Result(f[c], blob, c) /\ Result(g[o + c], cells, o + c)
          BY <1>2, <4>4
        <4>6. f[b] = [end |-> f[c].end, found |-> <<n>> \o f[c].found]
          BY <4>1, <4>5 DEF Result, With
        <4>7. g[o + b] = [end |-> g[o + c].end, found |-> <<n>> \o g[o + c].found]
          BY <4>3, <4>5 DEF Result, With
        <4>8. g[o + c].end = o + f[c].end /\ g[o + c].found = f[c].found
          BY <2>1, <4>1
        <4> QED
          BY <4>6, <4>7, <4>8
      <3> QED
        BY <3>3, <3>4
    <2> QED
      BY <2>3, <2>4
  <1>4. 1 .. M + 1 \subseteq T
    <2> HIDE DEF T, M
    <2> QED BY <1>1, <1>3, FromTheEnd
  <1> QED
    BY <1>4

\* One piece more is consumed like all that has arrived.
LEMMA ConsumeInPieces ==
    ASSUME LinkProtocolAssumption, NEW old \in Seq(Cells), NEW new \in Seq(Cells),
           Continues(new, old),
           NEW blob, IsRest(blob, new, Consume(old).end - 1)
    PROVE  /\ Consume(new).end = (Consume(old).end - 1) + Consume(blob).end
           /\ Consume(new).found = Consume(old).found \o Consume(blob).found
  <1> DEFINE o == Consume(old).end - 1
  <1>1. blob \in Seq(Cells) /\ o \in Nat /\ Len(blob) \in Nat /\ Len(old) \in Nat
    BY DEF IsRest
  <1>2. PICK f : Consume(old) = f[1] /\ IsFrom(f, old)
    BY ConsumeIs DEF IsFrom
  <1>3. PICK g : Consume(new) = g[1] /\ IsFrom(g, new)
    BY ConsumeIs DEF IsFrom
  <1>4. PICK h : Consume(blob) = h[1] /\ IsFrom(h, blob)
    BY <1>1, ConsumeIs DEF IsFrom
  <1>5. 1 \in 1 .. Len(old) + 1 /\ 1 \in 1 .. Len(blob) + 1
    BY <1>1
  <1>6. /\ g[1].end = g[f[1].end].end
        /\ g[1].found = f[1].found \o g[f[1].end].found
    <2>1. GoesOn(g, f, 1)
      BY <1>2, <1>3, <1>5, ConsumeGoesOn
    <2> QED
      BY <2>1 DEF GoesOn
  <1>7. /\ g[o + 1].end = o + h[1].end
        /\ g[o + 1].found = h[1].found
    BY <1>3, <1>4, <1>5, ConsumeOfRest
  <1>8. f[1].end \in Nat
    <2>1. Result(f[1], old, 1)
      BY <1>2, <1>5, ConsumeTyped
    <2> QED
      BY <2>1 DEF Result
  <1>9. o + 1 = f[1].end
    BY <1>2, <1>8
  <1> QED
    BY <1>2, <1>3, <1>4, <1>6, <1>7, <1>9

LEMMA RestGrows ==
    ASSUME NEW cells \in Seq(Cells), NEW o, NEW blob, IsRest(blob, cells, o),
           NEW t \in Seq(Cells)
    PROVE  IsRest(blob \o t, cells \o t, o)
  <1> DEFINE L == Len(cells)
             M == Len(blob)
             N == Len(t)
             b == blob \o t
             c == cells \o t
  <1>1. /\ L \in Nat /\ M \in Nat /\ N \in Nat /\ o \in Nat /\ M = L - o
        /\ blob \in Seq(Cells)
        /\ \A k \in 1 .. M : blob[k] = cells[o + k]
    BY DEF IsRest
  <1>0. Len(blob) = M /\ Len(t) = N /\ Len(cells) = L /\ blob \in Seq(Cells)
    BY DEF IsRest
  <1> HIDE DEF L, M, N
  <1>2. /\ b \in Seq(Cells) /\ Len(b) = M + N
        /\ \A k \in 1 .. M + N : b[k] = IF k <= M THEN blob[k] ELSE t[k - M]
    BY <1>0, ConcatIs
  <1>3. /\ c \in Seq(Cells) /\ Len(c) = L + N
        /\ \A k \in 1 .. L + N : c[k] = IF k <= L THEN cells[k] ELSE t[k - L]
    BY <1>1, ConcatIs DEF L, N
  <1> HIDE DEF b, c
  <1>4. Len(b) = Len(c) - o
    BY <1>1, <1>2, <1>3
  <1>5. ASSUME NEW k \in 1 .. M + N
        PROVE  b[k] = c[o + k]
    <2>1. CASE k <= M
      <3>1. k \in 1 .. M /\ o + k \in 1 .. L + N /\ o + k <= L
        BY <1>1, <2>1
      <3> QED
        BY <1>1, <1>2, <1>3, <2>1, <3>1
    <2>2. CASE ~(k <= M)
      <3>1. o + k \in 1 .. L + N /\ ~(o + k <= L) /\ (o + k) - L = k - M
        BY <1>1, <2>2
      <3> QED
        BY <1>2, <1>3, <2>2, <3>1
    <2> QED
      BY <2>1, <2>2
  <1>6. IsRest(b, c, o)
    BY <1>1, <1>2, <1>4, <1>5 DEF IsRest
  <1> QED
    BY <1>6 DEF b, c

RestFrom(cells, b) == SubSeq(cells, b, Len(cells))

LEMMA RestOfRest ==
    ASSUME NEW cells \in Seq(Cells), NEW o, NEW blob, IsRest(blob, cells, o),
           NEW e \in 1 .. Len(blob) + 1
    PROVE  RestFrom(blob, e) = RestFrom(cells, o + e)
  <1> DEFINE L == Len(cells)
             M == Len(blob)
             s == SubSeq(blob, e, M)
             t == SubSeq(cells, o + e, L)
  <1>1. /\ L \in Nat /\ M \in Nat /\ o \in Nat /\ M = L - o
        /\ \A k \in 1 .. M : blob[k] = cells[o + k] /\ blob[k] \in Cells
        /\ \A k \in 1 .. L : cells[k] \in Cells
    BY DEF IsRest
  <1>2. e \in 1 .. M + 1
    OBVIOUS
  <1> HIDE DEF L, M
  <1>3. /\ e \in Int /\ M \in Int /\ o + e \in Int /\ L \in Int
        /\ \A k \in e .. M : k \in 1 .. M
        /\ \A k \in o + e .. L : k \in 1 .. L
    BY <1>1, <1>2
  <1>4. /\ s \in Seq(Cells) /\ Len(s) = IF e <= M THEN M - e + 1 ELSE 0
        /\ \A k \in 1 .. M - e + 1 : s[k] = blob[e + k - 1]
    BY <1>1, <1>3, SubSeqProperties
  <1>5. /\ t \in Seq(Cells) /\ Len(t) = IF o + e <= L THEN L - (o + e) + 1 ELSE 0
        /\ \A k \in 1 .. L - (o + e) + 1 : t[k] = cells[(o + e) + k - 1]
    BY <1>1, <1>3, SubSeqProperties
  <1>6. /\ (IF e <= M THEN M - e + 1 ELSE 0) = M - e + 1
        /\ (IF o + e <= L THEN L - (o + e) + 1 ELSE 0) = M - e + 1
        /\ L - (o + e) + 1 = M - e + 1
    BY <1>1, <1>2
  <1>7. \A k \in 1 .. M - e + 1 : e + k - 1 \in 1 .. M /\ o + (e + k - 1) = (o + e) + k - 1
    BY <1>1, <1>2
  <1> HIDE DEF s, t
  <1>8. Len(s) = Len(t) /\ \A k \in 1 .. Len(s) : s[k] = t[k]
    BY <1>1, <1>4, <1>5, <1>6, <1>7
  <1>9. s = t
    BY <1>4, <1>5, <1>8, SeqEqual
  <1> QED
    BY <1>9 DEF s, t, L, M, RestFrom

\* The decoder has got as far as consume() gets with all bytes at once.
ConsumedAtOnce ==
    /\ found = Consume(arrived).found
    /\ inputBlob = SubSeq(arrived, Consume(arrived).end, Len(arrived))

LEMMA OnceInit == ASSUME LinkProtocolAssumption, ProtocolInit PROVE ConsumedAtOnce
  <1> DEFINE none == <<>>
  <1>1. Len(none) = 0 /\ none \in Seq(Cells) /\ none = <<>>
    OBVIOUS
  <1>2. SubSeq(none, 1, 0) = none
    OBVIOUS
  <1>3. none \o none = none
    OBVIOUS
  <1>4. arrived = none /\ inputBlob = none /\ found = none
    BY DEF ProtocolInit
  <1> HIDE DEF none
  <1>5. 1 \in 1 .. Len(none) + 1
    BY <1>1
  <1>6. PICK f : Consume(none) = f[1] /\ IsFrom(f, none)
    BY <1>1, ConsumeIs DEF IsFrom
  <1>7. Waits(none, 1)
    BY <1>1, SizesAre DEF Waits
  <1>8. f[1] = [end |-> 1, found |-> <<>>]
    <2> DEFINE b == 1
    <2>1. b \in 1 .. Len(none) + 1 /\ Waits(none, b)
      BY <1>5, <1>7
    <2> HIDE DEF b
    <2>2. f[b] = [end |-> b, found |-> <<>>]
      BY <1>1, <1>6, <2>1, ConsumeWaits
    <2> QED
      BY <2>2 DEF b
  <1>9. Consume(none).end = 1 /\ Consume(none).found = none
    BY <1>1, <1>6, <1>8
  <1> QED
    BY <1>1, <1>2, <1>4, <1>9 DEF ConsumedAtOnce

LEMMA OnceProcess ==
    ASSUME LinkProtocolAssumption, DecoderInv, ConsumedAtOnce,
           NEW n \in DOMAIN air, ProcessBytes(n)
    PROVE  ConsumedAtOnce'
  <1> DEFINE new == SubSeq(air, 1, n)
             blob == inputBlob \o new
             all == Consume(arrived)
             o == all.end - 1
             r == Consume(blob)
  <1>1. /\ air \in Seq(Cells) /\ arrived \in Seq(Cells) /\ inputBlob \in Seq(Cells)
        /\ Len(arrived) \in Nat /\ Len(inputBlob) \in Nat
        /\ \A b \in 1 .. Len(inputBlob) : inputBlob[b] = arrived[Rest + b]
        /\ Rest \in Nat /\ Rest = Len(arrived) - Len(inputBlob)
    BY DEF DecoderInv, ProtocolTypeOK, BlobIsRest, Rest
  <1>2. /\ inputBlob' = SubSeq(blob, r.end, Len(blob))
        /\ found' = found \o r.found
        /\ arrived' = arrived \o new
    BY DEF ProcessBytes
  <1>3. new \in Seq(Cells)
    <2>1. \A k \in 1 .. n : air[k] \in Cells
      BY <1>1
    <2>2. 1 \in Int /\ n \in Int
      BY <1>1
    <2> QED
      BY <2>1, <2>2, SubSeqProperties
  <1> HIDE DEF new
  <1>4. PICK f : all = f[1] /\ IsFrom(f, arrived)
    BY <1>1, ConsumeIs DEF IsFrom
  <1>5. all.end \in 1 .. Len(arrived) + 1
    <2>1. Result(f[1], arrived, 1)
      BY <1>1, <1>4, ConsumeTyped
    <2> QED
      BY <1>4, <2>1 DEF Result
  <1>6. Rest = o
    <2> DEFINE e == all.end
               L == Len(arrived)
    <2>1. inputBlob = SubSeq(arrived, e, L)
      BY DEF ConsumedAtOnce
    <2>2. e \in 1 .. L + 1 /\ L \in Nat /\ \A k \in 1 .. L : arrived[k] \in Cells
      BY <1>1, <1>5
    <2>3. Rest = L - Len(inputBlob)
      BY <1>1
    <2> HIDE DEF e, L, all
    <2>4. e \in Int /\ L \in Int /\ \A k \in e .. L : arrived[k] \in Cells
      BY <2>2
    <2>5. Len(inputBlob) = IF e <= L THEN L - e + 1 ELSE 0
      BY <2>1, <2>4, SubSeqProperties
    <2>6. Rest = e - 1
      BY <2>2, <2>3, <2>5
    <2> QED
      BY <2>6 DEF e
  <1>7. IsRest(inputBlob, arrived, o)
    <2>1. IsRest(inputBlob, arrived, Rest)
      <3>1. Len(inputBlob) = Len(arrived) - Rest
        BY <1>1
      <3> QED
        BY <1>1, <3>1 DEF IsRest
    <2> HIDE DEF o
    <2> QED
      BY <1>6, <2>1
  <1> HIDE DEF all, o
  <1>8. IsRest(blob, arrived', o)
    BY <1>1, <1>2, <1>3, <1>7, RestGrows
  <1>9. arrived' \in Seq(Cells) /\ Continues(arrived', arrived)
    <2> DEFINE L == Len(arrived)
               M == Len(new)
    <2>1. L \in Nat /\ M \in Nat
      BY <1>1, <1>3
    <2>2. /\ arrived' \in Seq(Cells) /\ Len(arrived') = L + M
          /\ \A k \in 1 .. L + M : arrived'[k] = IF k <= L THEN arrived[k] ELSE new[k - L]
      BY <1>1, <1>2, <1>3, ConcatIs
    <2> HIDE DEF L, M
    <2>3. L <= L + M /\ \A k \in 1 .. L : k \in 1 .. L + M /\ k <= L
      BY <2>1
    <2>4. L <= Len(arrived') /\ \A k \in 1 .. L : arrived'[k] = arrived[k]
      BY <2>2, <2>3
    <2> QED
      BY <2>2, <2>4 DEF Continues, L
  <1>10. /\ Consume(arrived').end = o + r.end
         /\ Consume(arrived').found = all.found \o r.found
    <2> HIDE DEF blob
    <2>1. IsRest(blob, arrived', Consume(arrived).end - 1)
      BY <1>8 DEF o, all
    <2>2. /\ Consume(arrived').end = (Consume(arrived).end - 1) + Consume(blob).end
          /\ Consume(arrived').found = Consume(arrived).found \o Consume(blob).found
      <3>1. arrived \in Seq(Cells)
        BY <1>1
      <3> QED
        BY <1>9, <2>1, <3>1, ConsumeInPieces
    <2> QED
      BY <2>2 DEF o, all
  <1>11. r.end \in 1 .. Len(blob) + 1
    <2>1. blob \in Seq(Cells)
      BY <1>8 DEF IsRest
    <2> HIDE DEF blob
    <2>2. PICK h : r = h[1] /\ IsFrom(h, blob)
      BY <2>1, ConsumeIs DEF IsFrom
    <2>3. Result(h[1], blob, 1)
      BY <2>1, <2>2, ConsumeTyped
    <2> QED
      BY <2>2, <2>3 DEF Result
  <1>12. inputBlob' = SubSeq(arrived', o + r.end, Len(arrived'))
    <2> DEFINE e == r.end
    <2>1. e \in 1 .. Len(blob) + 1 /\ inputBlob' = RestFrom(blob, e)
      BY <1>2, <1>11 DEF RestFrom
    <2> HIDE DEF blob, e
    <2>2. RestFrom(blob, e) = RestFrom(arrived', o + e)
      BY <1>8, <1>9, <2>1, RestOfRest
    <2> QED
      BY <2>1, <2>2 DEF e, RestFrom
  <1>13. found = all.found
    BY DEF ConsumedAtOnce, all
  <1> QED
    BY <1>2, <1>10, <1>12, <1>13 DEF ConsumedAtOnce

\* However the bytes are cut into pieces: LinkDecoder::process() has found what
\* LinkProtocol::consume() finds in all of them at once, and holds what that
\* leaves.  So what it says of one blob holds of the stream.
THEOREM CutsDoNotMatter ==
    ASSUME LinkProtocolAssumption
    PROVE  ProtocolSpec => []ConsumedAtOnce
  <1>1. ProtocolInit => ConsumedAtOnce
    BY OnceInit
  <1>2. DecoderInv /\ ConsumedAtOnce /\ [ProtocolNext]_protocolVars => ConsumedAtOnce'
    <2> SUFFICES ASSUME DecoderInv, ConsumedAtOnce, [ProtocolNext]_protocolVars
                 PROVE  ConsumedAtOnce'
      OBVIOUS
    <2>1. CASE \E n \in DOMAIN air : ProcessBytes(n)
      BY <2>1, OnceProcess
    <2>2. CASE (\E e \in AllEnvelopes : SendEnvelope(e)) \/ Damage \/ UNCHANGED protocolVars
      <3>1. UNCHANGED <<inputBlob, found, arrived>>
        BY <2>2 DEF SendEnvelope, Damage, protocolVars
      <3> QED
        BY <3>1 DEF ConsumedAtOnce
    <2> QED
      BY <2>1, <2>2 DEF ProtocolNext
  <1> QED
    BY <1>1, <1>2, DecoderInvariance, PTL DEF ProtocolSpec
================================================================================
