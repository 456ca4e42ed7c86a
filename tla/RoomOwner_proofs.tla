-------------------------- MODULE RoomOwner_proofs --------------------------
(***************************************************************************)
(* RoomOwner implements OwnerLine, for every set of members.               *)
(*                                                                         *)
(* All links ever signed are one line, and a chain is a walk along it: it  *)
(* starts with a link of the founder, and each link is later than the one  *)
(* before it and signed by the owner that one names.  It need not be the   *)
(* beginning of the line.  If the room returns to somebody that owned it   *)
(* before, the same signer signs twice, and a member without a chain takes *)
(* the second link for the first.  So what counts is the date of the last  *)
(* link: whoever has signed a link holds one as late, and so cannot take   *)
(* itself for the owner by an earlier one.                                 *)
(***************************************************************************)
EXTENDS RoomOwner, TLAPS, FiniteSetTheorems, SequenceTheorems

-----------------------------------------------------------------------------
(* The invariant *)

\* The line: each link handed over by the owner before it.
LineGood ==
    /\ links \in Seq(Link)
    /\ \A i \in 1..Len(links) :
        /\ links[i].at = i /\ links[i].root = Founder /\ links[i].by # links[i].new
        /\ links[i].by = IF i = 1 THEN Founder ELSE links[i - 1].new
    /\ early \subseteq {links[i] : i \in DOMAIN links}
    /\ codes \in Code

\* c is a walk along the line, no longer than the cap.
Walk(c) ==
    /\ c \in Seq(Link) /\ Len(c) <= Limit
    /\ \A i \in 1..Len(c) :
        /\ c[i].at \in 1..Len(links) /\ c[i] = links[c[i].at]
        /\ i = 1 => c[i].by = Founder
        /\ i > 1 => c[i].by = c[i - 1].new /\ c[i].at > c[i - 1].at

\* An owner's list does not name the owner.
SnapGood(s) == s \in Snap /\ s.by \notin s.bans

FrameGood(f) ==
    \/ f \in Hello /\ Walk(f.chain) /\ f.owner \in Named \union {NoOne} /\ SnapGood(f.snap)
    \/ f \in Transferred /\ SnapGood(f.snap) /\ \E i \in 1..Len(links) : f.link = links[i]
    \/ f \in Rekey /\ f.by # f.target

\* What m holds: a walk along the line, that goes as far as what m has signed itself,
\* and the owner it names.
ChainGood(m, r) ==
    /\ Walk(r.chain)
    /\ r.chain # << >> => r.owner = r.chain[Len(r.chain)].new
    /\ \A i \in 1..Len(r.chain) : r.chain[i] \in early => r.chain[i].by = m
    /\ \A i \in 1..Len(links) : links[i].by = m => i <= TransferAt(r.chain)

\* Whom m believes in, and whom it is pinned to.
OwnerGood(m, r) ==
    /\ r.owner \in Named \union {NoOne}
    /\ m \in Named => r.in /\ r.owner # NoOne
    /\ r.owner = m => TransferAt(r.chain) = Len(links)
    /\ r.pin # NoOne =>
        IF r.chain = << >> THEN r.owner \in {NoOne, r.pin}
        ELSE r.pin = Founder \/ \E i \in 1..Len(r.chain) : r.chain[i].new = r.pin

\* Whom m takes for removed, and whom it is about to remove.
BansGood(m, r) ==
    /\ r.owner \notin r.bans
    /\ r.owner = NoOne => r.bans = {}
    /\ SnapGood(r.snap)
    /\ r.pending # NoOne => r.owner = m /\ r.pending # m /\ codes < MaxCode

Good(m, r) == r \in Room /\ ChainGood(m, r) /\ OwnerGood(m, r) /\ BansGood(m, r)

IInv ==
    /\ LineGood
    /\ room \in [Member -> Room]
    /\ \A m \in Member : Good(m, room[m])
    /\ \A f \in net : FrameGood(f)

-----------------------------------------------------------------------------
(* Chains *)

\* The owners are members, and a link is between two of them.
LEMMA NamedFacts ==
    ASSUME LineGood
    PROVE  /\ Named \subseteq Member /\ Founder \in Named /\ Len(links) \in Nat
           /\ \A i \in 1..Len(links) :
                links[i] \in Link /\ links[i].new \in Named /\ links[i].by \in Named
  <1>1. DOMAIN links = 1..Len(links) /\ Len(links) \in Nat
    BY LenProperties DEF LineGood
  <1>2. \A i \in 1..Len(links) : links[i] \in Link
    BY ElementOfSeq DEF LineGood
  <1>3. \A i \in 1..Len(links) : links[i].new \in Named
    BY <1>1 DEF Named
  <1>4. ASSUME NEW i \in 1..Len(links) PROVE links[i].by \in Named
    <2>1. CASE i = 1
      BY <2>1 DEF LineGood, Named
    <2>2. CASE i # 1
      <3>1. i - 1 \in 1..Len(links) /\ links[i].by = links[i - 1].new
        BY <1>1, <2>2 DEF LineGood
      <3> QED
        BY <3>1, <1>3
    <2> QED
      BY <2>1, <2>2
  <1> QED
    BY <1>1, <1>2, <1>3, <1>4, RoomAssumption DEF Named, Link

\* What the walk along a chain returns is a beginning of it, every link in place.
LEMMA VerifiedFacts ==
    ASSUME NEW m, NEW chain \in Seq(Link)
    PROVE  LET v == Verified(m, chain)
           IN  /\ v \in Seq(Link) /\ Len(v) <= Len(chain)
               /\ \A i \in 1..Len(v) : v[i] = chain[i] /\ InPlace(m, chain, i)
               /\ (\A i \in 1..Len(chain) : InPlace(m, chain, i)) => v = chain
  <1> DEFINE S == {k \in DOMAIN chain : \A i \in 1..k : InPlace(m, chain, i)}
             n == Cardinality(S)
  <1>1. DOMAIN chain = 1..Len(chain) /\ Len(chain) \in Nat
    BY LenProperties
  <1>2. IsFiniteSet(1..Len(chain)) /\ Cardinality(1..Len(chain)) = Len(chain)
    BY <1>1, FS_Interval
  <1>3. n \in Nat /\ n <= Len(chain) /\ IsFiniteSet(S)
    BY <1>1, <1>2, FS_Subset, FS_CardinalityType
  <1>4. ASSUME NEW i \in 1..n
        PROVE  i \in S
    <2> SUFFICES ASSUME i \notin S PROVE FALSE
      OBVIOUS
    <2>1. i \in 1..Len(chain)
      BY <1>3
    <2>2. S \in SUBSET (1..(i - 1))
      <3> SUFFICES ASSUME NEW j \in S, j >= i PROVE FALSE
        BY <1>1, <2>1
      <3> QED
        BY <1>1, <2>1
    <2>3. IsFiniteSet(1..(i - 1)) /\ Cardinality(1..(i - 1)) = i - 1
      <3> DEFINE j == i - 1
      <3>1. j \in Int /\ 1 \in Int /\ (1 > j => j = 0)
        BY <2>1
      <3> HIDE DEF j
      <3>2. IsFiniteSet(1..j) /\ Cardinality(1..j) = IF 1 > j THEN 0 ELSE j - 1 + 1
        BY <3>1, FS_Interval
      <3> QED
        BY <3>1, <3>2 DEF j
    <2> HIDE DEF S
    <2>4. Cardinality(S) <= i - 1
      BY <2>2, <2>3, FS_Subset
    <2> QED
      BY <2>4, <1>3
  <1>5. ASSUME \A i \in 1..Len(chain) : InPlace(m, chain, i)
        PROVE  n = Len(chain)
    <2>1. S = 1..Len(chain)
      BY <1>1, <1>5
    <2> QED
      BY <2>1, <1>2
  <1>6. Verified(m, chain) = SubSeq(chain, 1, n)
    BY DEF Verified
  <1>7. \A i \in 1..n : InPlace(m, chain, i)
    BY <1>4, <1>3
  <1> HIDE DEF S, n
  <1>8. \A i \in 1..n : chain[i] \in Link
    BY <1>1, <1>3, ElementOfSeq
  <1>9. /\ SubSeq(chain, 1, n) \in Seq(Link) /\ Len(SubSeq(chain, 1, n)) = n
        /\ \A i \in 1..n : SubSeq(chain, 1, n)[i] = chain[i]
    <2>1. /\ SubSeq(chain, 1, n) \in Seq(Link)
          /\ Len(SubSeq(chain, 1, n)) = IF 1 <= n THEN n - 1 + 1 ELSE 0
          /\ \A i \in 1..(n - 1 + 1) : SubSeq(chain, 1, n)[i] = chain[1 + i - 1]
      BY <1>3, <1>8, SubSeqProperties
    <2> QED
      BY <2>1, <1>3
  <1>10. n = Len(chain) => SubSeq(chain, 1, n) = chain
    BY SubSeqFull
  <1> QED
    BY <1>3, <1>5, <1>6, <1>7, <1>9, <1>10

\* A walk is dated by its last link, which is one of the line.
LEMMA DateFacts ==
    ASSUME LineGood, NEW c, Walk(c)
    PROVE  /\ TransferAt(c) \in Nat /\ TransferAt(c) <= Len(links)
           /\ Len(c) \in Nat /\ Len(links) \in Nat
           /\ c = << >> => TransferAt(c) = 0
           /\ c # << >> => /\ TransferAt(c) \in 1..Len(links) /\ Len(c) \in 1..Len(c)
                           /\ c[Len(c)] = links[TransferAt(c)]
                           /\ c[1].by = Founder
  <1>1. Len(c) \in Nat /\ Len(links) \in Nat
    BY LenProperties DEF LineGood, Walk
  <1>2. CASE c = << >>
    BY <1>1, <1>2 DEF TransferAt
  <1>3. CASE c # << >>
    <2>1. Len(c) \in 1..Len(c) /\ 1 \in 1..Len(c)
      BY <1>1, <1>3, EmptySeq DEF Walk
    <2> QED
      BY <1>1, <1>3, <2>1 DEF Walk, TransferAt
  <1> QED
    BY <1>2, <1>3

\* Links of the line, each in its place, are a walk.
LEMMA InPlaceWalks ==
    ASSUME LineGood, NEW m, NEW c \in Seq(Link),
           \A i \in 1..Len(c) : InPlace(m, c, i),
           \A i \in 1..Len(c) : c[i].at \in 1..Len(links) /\ c[i] = links[c[i].at]
    PROVE  Walk(c)
  <1>1. Len(c) \in Nat
    BY LenProperties
  <1>2. Len(c) <= Limit
    <2>1. CASE Len(c) = 0
      BY <2>1, RoomAssumption
    <2>2. CASE Len(c) # 0
      <3>1. InPlace(m, c, Len(c))
        BY <1>1, <2>2
      <3> QED
        BY <3>1 DEF InPlace
    <2> QED
      BY <2>1, <2>2
  <1>3. ASSUME NEW i \in 1..Len(c)
        PROVE  /\ i = 1 => c[i].by = Founder
               /\ i > 1 => c[i].by = c[i - 1].new /\ c[i].at > c[i - 1].at
    <2>1. InPlace(m, c, i) /\ c[i].root = Founder
      BY DEF LineGood
    <2> QED
      BY <2>1 DEF InPlace
  <1> QED
    BY <1>2, <1>3 DEF Walk

\* A chain in force has one owner, its last; nothing else of the record changes.
LEMMA WithChainFields ==
    ASSUME NEW r, r \in Room, NEW chain \in Seq(Link), chain # << >>
    PROVE  LET w == WithChain(r, chain)
           IN  /\ w \in Room /\ w.chain = chain /\ w.owner = chain[Len(chain)].new
               /\ w.owner \in Member
               /\ w.in = r.in /\ w.pin = r.pin /\ w.code = r.code /\ w.bans = r.bans
               /\ w.snap = r.snap /\ w.kicked = r.kicked /\ w.pending = r.pending
  <1> DEFINE o == chain[Len(chain)].new
             a == [r EXCEPT !.chain = chain]
             b == [a EXCEPT !.owner = o]
  <1>1. o \in Member
    <2>1. Len(chain) \in 1..Len(chain)
      BY EmptySeq, LenProperties
    <2>2. chain[Len(chain)] \in Link
      BY <2>1, ElementOfSeq
    <2> QED
      BY <2>2 DEF Link
  <1>2. WithChain(r, chain) = b
    BY DEF WithChain, LastOwner, Room
  <1> HIDE DEF o
  <1>3. /\ a \in Room /\ a.chain = chain /\ a.owner = r.owner
        /\ a.in = r.in /\ a.pin = r.pin /\ a.code = r.code /\ a.bans = r.bans
        /\ a.snap = r.snap /\ a.kicked = r.kicked /\ a.pending = r.pending
    BY DEF Room
  <1> HIDE DEF a
  <1>4. /\ b \in Room /\ b.chain = chain /\ b.owner = o
        /\ b.in = r.in /\ b.pin = r.pin /\ b.code = r.code /\ b.bans = r.bans
        /\ b.snap = r.snap /\ b.kicked = r.kicked /\ b.pending = r.pending
    BY <1>1, <1>3 DEF Room, Id
  <1> HIDE DEF b
  <1> QED
    BY <1>1, <1>2, <1>4 DEF o

\* A later chain names no owner that has handed the room on: m would have signed the
\* link after it, and would hold one as late.
LEMMA AdvanceGood ==
    ASSUME LineGood, NEW m \in Member, NEW r, Good(m, r), NEW chain, Walk(chain),
           \A i \in 1..Len(chain) : chain[i] \in early => chain[i].by = m,
           Advances(r, chain), LastOwner(chain) \notin r.bans
    PROVE  /\ Good(m, WithChain(r, chain))
           /\ WithChain(r, chain).chain = chain
           /\ \/ TransferAt(chain) > TransferAt(r.chain) /\ r.owner # m
              \/ TransferAt(chain) = TransferAt(r.chain) /\ WithChain(r, chain).owner = r.owner
  <1> DEFINE w == WithChain(r, chain)
             k == Len(chain)
             d == TransferAt(chain)
             e == TransferAt(r.chain)
  <1>1. /\ r \in Room /\ Walk(r.chain) /\ chain \in Seq(Link) /\ chain # << >>
        /\ d > e \/ (d = e /\ k > Len(r.chain))
    BY DEF Good, ChainGood, Walk, Advances, Anchored
  <1>2. /\ d \in 1..Len(links) /\ e \in Nat /\ e <= Len(links) /\ Len(links) \in Nat
        /\ k \in 1..k /\ k \in Nat /\ chain[k] = links[d] /\ chain[1].by = Founder
    BY <1>1, DateFacts
  <1>3. /\ w \in Room /\ w.chain = chain /\ w.owner = chain[k].new
        /\ w.owner \in Member
        /\ w.in = r.in /\ w.pin = r.pin /\ w.bans = r.bans
        /\ w.snap = r.snap /\ w.pending = r.pending
    BY <1>1, WithChainFields
  <1>4. (d > e /\ r.owner # m) \/ (d = e /\ w.owner = r.owner)
    <2>1. CASE d > e
      <3>1. r.owner = m => e = Len(links)
        BY DEF Good, OwnerGood
      <3> HIDE DEF d, e, w
      <3> QED
        BY <2>1, <3>1, <1>2
    <2>2. CASE d = e
      <3>1. r.chain # << >> => r.owner = r.chain[Len(r.chain)].new
        BY DEF Good, ChainGood
      <3>2. /\ r.chain = << >> => e = 0
            /\ r.chain # << >> => r.chain[Len(r.chain)] = links[e]
        BY <1>1, DateFacts
      <3> HIDE DEF d, e, w
      <3> QED
        BY <2>2, <3>1, <3>2, <1>2, <1>3
    <2> QED
      BY <1>1, <2>1, <2>2
  <1>5. w.owner \in Named
    BY <1>2, <1>3, NamedFacts
  <1>6. ASSUME w.owner = m PROVE d = Len(links)
    <2> SUFFICES ASSUME d < Len(links) PROVE FALSE
      BY <1>2
    <2>1. d + 1 \in 1..Len(links) /\ d + 1 # 1 /\ (d + 1) - 1 = d
      BY <1>2
    <2>2. links[d + 1].by = m
      <3>1. links[d + 1].by = links[d].new
        <4> HIDE DEF d
        <4> QED
          BY <2>1 DEF LineGood
      <3> QED
        BY <3>1, <1>2, <1>3, <1>6
    <2>3. d + 1 <= e
      BY <2>1, <2>2 DEF Good, ChainGood
    <2> HIDE DEF d, e, w
    <2> QED
      BY <2>3, <1>2, <1>4
  <1>7. w.pin # NoOne => w.pin = Founder \/ \E i \in 1..k : chain[i].new = w.pin
    BY <1>2, <1>1, <1>3, LenProperties DEF Advances, Anchored
  <1>8. \A i \in 1..Len(links) : links[i].by = m => i <= d
    <2>1. \A i \in 1..Len(links) : links[i].by = m => i <= e
      BY DEF Good, ChainGood
    <2> HIDE DEF d, e, w
    <2> QED
      BY <2>1, <1>2, <1>4
  <1>9. r.pending = NoOne \/ w.owner = r.owner
    BY <1>4 DEF Good, BansGood
  <1> HIDE DEF w
  <1>10. ChainGood(m, w)
    BY <1>3, <1>8 DEF ChainGood
  <1>11. OwnerGood(m, w)
    BY <1>1, <1>3, <1>5, <1>6, <1>7, RoomAssumption DEF Good, OwnerGood
  <1>12. BansGood(m, w)
    BY <1>3, <1>9, RoomAssumption DEF Good, BansGood, LastOwner
  <1> QED
    BY <1>3, <1>4, <1>10, <1>11, <1>12 DEF Good, w

\* Signing the list changes the list only.
LEMMA MintedFacts ==
    ASSUME NEW m \in Member, NEW r, r \in Room, r.owner = m => r.owner \notin r.bans
    PROVE  LET w == Minted(m, r)
           IN  /\ w \in Room /\ w.chain = r.chain /\ w.owner = r.owner /\ w.in = r.in
               /\ w.pin = r.pin /\ w.code = r.code /\ w.bans = r.bans
               /\ w.kicked = r.kicked /\ w.pending = r.pending
               /\ SnapGood(r.snap) \/ r.owner = m => SnapGood(w.snap)
  <1> DEFINE s == [by |-> m, bans |-> r.bans]
             w == [r EXCEPT !.snap = s]
  <1>1. s \in Snap /\ s.by = m /\ s.bans = r.bans
    BY DEF Snap, Id, Room
  <1> HIDE DEF s
  <1>2. /\ w \in Room /\ w.chain = r.chain /\ w.owner = r.owner /\ w.in = r.in
        /\ w.pin = r.pin /\ w.code = r.code /\ w.bans = r.bans
        /\ w.kicked = r.kicked /\ w.pending = r.pending /\ w.snap = s
    BY <1>1 DEF Room
  <1> HIDE DEF w
  <1>3. Minted(m, r) = IF r.owner = m THEN w ELSE r
    BY DEF Minted, w, s
  <1> QED
    BY <1>1, <1>2, <1>3 DEF SnapGood

LEMMA MintedGood ==
    ASSUME NEW m \in Member, NEW r, Good(m, r)
    PROVE  /\ Good(m, Minted(m, r))
           /\ Minted(m, r).chain = r.chain /\ Minted(m, r).owner = r.owner
  <1> DEFINE w == Minted(m, r)
  <1>1. /\ w \in Room /\ w.chain = r.chain /\ w.owner = r.owner /\ w.in = r.in
        /\ w.pin = r.pin /\ w.bans = r.bans /\ w.pending = r.pending /\ SnapGood(w.snap)
    BY MintedFacts DEF Good, BansGood
  <1> HIDE DEF w
  <1>2. Good(m, w)
    BY <1>1 DEF Good, ChainGood, OwnerGood, BansGood
  <1> QED
    BY <1>1, <1>2 DEF w

\* What a member may come to hold: a later part of the line; or no later part of it,
\* and an owner where it knew of none.
Moves(r, w) ==
    \/ TransferAt(w.chain) > TransferAt(r.chain)
    \/ /\ TransferAt(w.chain) = TransferAt(r.chain)
       /\ w.owner = r.owner \/ r.owner = NoOne

\* adoptChain, given a chain of links of the line, in whatever order.
LEMMA AdoptedGood ==
    ASSUME LineGood, NEW m \in Member, NEW r, Good(m, r), NEW raw \in Seq(Link),
           \A i \in 1..Len(raw) : raw[i].at \in 1..Len(links) /\ raw[i] = links[raw[i].at]
    PROVE  /\ Good(m, Adopted(m, r, raw))
           /\ Moves(r, Adopted(m, r, raw))
           /\ Adopted(m, r, raw) = r \/ Adopted(m, r, raw).owner # NoOne
  <1> DEFINE v == Verified(m, raw)
             take == Advances(r, v) /\ LastOwner(v) \notin r.bans
  <1>1. /\ v \in Seq(Link) /\ Len(v) <= Len(raw)
        /\ \A i \in 1..Len(v) : v[i] = raw[i] /\ InPlace(m, raw, i)
    BY VerifiedFacts
  <1>2. Adopted(m, r, raw) = IF take THEN Minted(m, WithChain(r, v)) ELSE r
    BY <1>1 DEF Adopted
  <1>3. CASE take
    <2>1. Len(v) \in Nat /\ Len(raw) \in Nat
      BY <1>1, LenProperties
    <2> HIDE DEF v
    <2>2. \A i \in 1..Len(v) : InPlace(m, v, i)
      <3> TAKE i \in 1..Len(v)
      <3>1. /\ v[1] = raw[1] /\ v[i] = raw[i] /\ InPlace(m, raw, i)
            /\ i > 1 => v[i - 1] = raw[i - 1]
        BY <1>1, <2>1
      <3> QED
        BY <3>1 DEF InPlace
    <2>3. Walk(v)
      <3>1. \A i \in 1..Len(v) : v[i].at \in 1..Len(links) /\ v[i] = links[v[i].at]
        BY <1>1, <2>1
      <3> QED
        BY <1>1, <2>2, <3>1, InPlaceWalks
    <2>4. \A i \in 1..Len(v) : v[i] \in early => v[i].by = m
      BY <2>2 DEF InPlace
    <2>5. /\ Good(m, WithChain(r, v)) /\ WithChain(r, v).chain = v
          /\ \/ TransferAt(v) > TransferAt(r.chain)
             \/ TransferAt(v) = TransferAt(r.chain) /\ WithChain(r, v).owner = r.owner
      BY <2>3, <2>4, <1>3, AdvanceGood
    <2> DEFINE w == Minted(m, WithChain(r, v))
    <2>6. Good(m, w) /\ w.chain = v /\ w.owner = WithChain(r, v).owner
      BY <2>5, MintedGood
    <2> HIDE DEF w
    <2>7. w.owner # NoOne
      <3>1. v # << >>
        BY <1>3 DEF Advances, Anchored
      <3>2. Len(v) \in 1..Len(v)
        BY <1>1, <3>1, EmptySeq, LenProperties
      <3>3. v[Len(v)] \in Link
        BY <3>2, <1>1, ElementOfSeq
      <3>4. w.owner = v[Len(v)].new
        BY <2>6, <3>1 DEF Good, ChainGood
      <3> QED
        BY <3>3, <3>4, RoomAssumption DEF Link
    <2>8. Moves(r, w)
      BY <2>5, <2>6 DEF Moves
    <2> QED
      BY <1>2, <1>3, <2>6, <2>7, <2>8 DEF w
  <1>4. CASE ~take
    BY <1>2, <1>4 DEF Moves
  <1> QED
    BY <1>3, <1>4

\* A claim is believed where there was no belief, and then it is not about m.
LEMMA ClaimedGood ==
    ASSUME LineGood, NEW m \in Member, NEW r, Good(m, r), NEW id \in Named \union {NoOne}
    PROVE  /\ Good(m, Claimed(r, id))
           /\ Claimed(r, id).chain = r.chain
           /\ r.owner # NoOne => Claimed(r, id) = r
  <1> DEFINE w == [r EXCEPT !.owner = id]
             claim == r.owner = NoOne /\ PinAllows(r, id)
  <1>1. Claimed(r, id) = IF claim THEN w ELSE r
    BY DEF Claimed
  <1>2. CASE claim
    <2>1. id \in Id
      BY NamedFacts DEF Id
    <2>2. /\ w \in Room /\ w.owner = id /\ w.chain = r.chain /\ w.in = r.in /\ w.pin = r.pin
          /\ w.bans = r.bans /\ w.snap = r.snap /\ w.pending = r.pending
      BY <2>1 DEF Good, Room
    <2>3. r.chain # << >> => id = NoOne
      BY <1>2 DEF PinAllows
    <2>4. ChainGood(m, w)
      <3>1. CASE r.chain = << >>
        BY <2>2, <3>1 DEF Good, ChainGood
      <3>2. CASE r.chain # << >>
        BY <2>2, <2>3, <1>2 DEF Good, ChainGood
      <3> QED
        BY <3>1, <3>2
    <2>5. r.bans = {} /\ r.pending = NoOne /\ m \notin Named
      BY <1>2, RoomAssumption DEF Good, BansGood, OwnerGood
    <2>6. OwnerGood(m, w)
      <3>1. id # m
        BY <2>5, RoomAssumption
      <3>2. r.chain = << >> => w.pin \in {NoOne, id}
        BY <1>2, <2>2 DEF PinAllows
      <3> HIDE DEF w
      <3> QED
        BY <2>2, <2>5, <3>1, <3>2 DEF Good, OwnerGood
    <2> HIDE DEF w
    <2>7. BansGood(m, w)
      BY <2>2, <2>5 DEF Good, BansGood
    <2> QED
      BY <1>1, <1>2, <2>2, <2>4, <2>6, <2>7 DEF Good
  <1>3. CASE ~claim
    BY <1>1, <1>3
  <1> QED
    BY <1>1, <1>2, <1>3

\* The owner's list adds to the removed, and the owner is not on it.
LEMMA WithSnapGood ==
    ASSUME NEW m \in Member, NEW r, Good(m, r), NEW s, SnapGood(s), SnapAdvances(r, s)
    PROVE  LET w == WithSnap(m, r, s)
           IN  Good(m, w) /\ w.chain = r.chain /\ w.owner = r.owner
  <1> DEFINE b == r.bans \union s.bans
             k == r.kicked \/ m \in s.bans
             x == [r EXCEPT !.snap = s]
             y == [x EXCEPT !.bans = b]
             w == [y EXCEPT !.kicked = k]
  <1>1. b \in SUBSET Member /\ k \in BOOLEAN /\ s \in Snap /\ r.owner \notin b /\ r.owner # NoOne
    BY DEF Good, BansGood, SnapGood, SnapAdvances, Room, Snap
  <1>2. WithSnap(m, r, s) = w
    BY DEF WithSnap, Good, Room
  <1> HIDE DEF b, k
  <1>3. /\ x \in Room /\ x.snap = s /\ x.owner = r.owner /\ x.chain = r.chain /\ x.in = r.in
        /\ x.pin = r.pin /\ x.pending = r.pending
    BY <1>1 DEF Good, Room
  <1> HIDE DEF x
  <1>4. /\ y \in Room /\ y.snap = s /\ y.owner = r.owner /\ y.chain = r.chain /\ y.in = r.in
        /\ y.pin = r.pin /\ y.pending = r.pending /\ y.bans = b
    BY <1>1, <1>3 DEF Room
  <1> HIDE DEF y
  <1>5. /\ w \in Room /\ w.snap = s /\ w.owner = r.owner /\ w.chain = r.chain /\ w.in = r.in
        /\ w.pin = r.pin /\ w.pending = r.pending /\ w.bans = b
    BY <1>1, <1>4 DEF Room
  <1> HIDE DEF w
  <1>6. Good(m, w)
    BY <1>1, <1>5 DEF Good, ChainGood, OwnerGood, BansGood
  <1> QED
    BY <1>2, <1>5, <1>6

-----------------------------------------------------------------------------
(* The handlers *)

\* A greeting: its chain is a walk along the line.
LEMMA HelloGood ==
    ASSUME LineGood, NEW m \in Member, NEW r, Good(m, r), NEW h \in Hello,
           Walk(h.chain), h.owner \in Named \union {NoOne}, SnapGood(h.snap)
    PROVE  Good(m, HelloHeard(m, r, h)) /\ Moves(r, HelloHeard(m, r, h))
  <1> DEFINE a == Adopted(m, r, h.chain)
             c == Claimed(a, h.owner)
             w == WithSnap(m, c, h.snap)
             drop == h.from \in r.bans \/ h.snap.by \in r.bans \/ ~Compatible(r.chain, h.chain)
             more == SnapAdvances(c, h.snap)
  <1>1. TransferAt(r.chain) \in Nat
    BY DateFacts DEF Good, ChainGood
  <1>2. Good(m, a) /\ Moves(r, a) /\ (a = r \/ a.owner # NoOne)
    BY AdoptedGood DEF Walk
  <1>3. /\ Good(m, c) /\ c.chain = a.chain
        /\ a.owner # NoOne => c = a
    <2> HIDE DEF a
    <2> QED
      BY <1>2, ClaimedGood
  <1>4. c \in Room /\ Moves(r, c)
    BY <1>1, <1>2, <1>3 DEF Moves, Good
  <1>5. more => Good(m, w) /\ w.chain = c.chain /\ w.owner = c.owner
    <2> HIDE DEF c
    <2> QED
      BY <1>3, WithSnapGood
  <1>6. HelloHeard(m, r, h) = IF drop THEN r ELSE IF more THEN w ELSE c
    BY <1>4 DEF HelloHeard
  <1> HIDE DEF a, c, w, drop, more
  <1>7. Moves(r, r)
    BY DEF Moves
  <1> QED
    BY <1>3, <1>4, <1>5, <1>6, <1>7 DEF Moves

\* A handover: its list is heard, and then it is put at the end of the chain of m or
\* left aside.
LEMMA TransferGood ==
    ASSUME LineGood, NEW m \in Member, NEW r, Good(m, r), NEW f \in Transferred,
           SnapGood(f.snap), NEW i \in 1..Len(links), f.link = links[i]
    PROVE  Good(m, TransferHeard(m, r, f)) /\ Moves(r, TransferHeard(m, r, f))
  <1> DEFINE c == Claimed(r, f.link.by)
             w == WithSnap(m, c, f.snap)
             raw == Append(w.chain, f.link)
             a == Adopted(m, w, raw)
             drop == RootFor(r, f.link) # f.link.root \/ f.link.by \in r.bans
             aside == \/ c.owner # f.link.by
                      \/ f.link.new \in f.snap.bans \/ ~SnapAdvances(c, f.snap)
  <1>1. f.link.by \in Named /\ f.link \in Link
    BY NamedFacts
  <1>2. /\ Good(m, c) /\ c.chain = r.chain
        /\ r.owner # NoOne => c = r
    BY <1>1, ClaimedGood
  <1>3. Moves(r, r) /\ Moves(r, c) /\ TransferAt(r.chain) \in Nat
    BY <1>2, DateFacts DEF Moves, Good, ChainGood
  <1>4. TransferHeard(m, r, f) = IF drop THEN r ELSE IF aside THEN c
                                 ELSE IF w.kicked THEN w ELSE a
    BY DEF TransferHeard
  <1>5. CASE drop
    BY <1>3, <1>4, <1>5
  <1>6. CASE ~drop /\ aside
    BY <1>2, <1>3, <1>4, <1>6
  <1>7. CASE ~drop /\ ~aside
    <2>1. Good(m, w) /\ w.chain = r.chain /\ w.owner = c.owner
      <3>1. SnapAdvances(c, f.snap)
        BY <1>7
      <3> HIDE DEF c
      <3> QED
        BY <1>2, <3>1, WithSnapGood
    <2>2. Moves(r, w)
      BY <1>3, <2>1, <1>2 DEF Moves
    <2> HIDE DEF w, c, drop, aside
    <2>3. w.chain \in Seq(Link) /\ Walk(w.chain) /\ Len(w.chain) \in Nat
      BY <2>1, LenProperties DEF Good, ChainGood, Walk
    <2>4. /\ raw \in Seq(Link) /\ Len(raw) = Len(w.chain) + 1
          /\ raw[Len(w.chain) + 1] = f.link
          /\ \A j \in 1..Len(w.chain) : raw[j] = w.chain[j]
      BY <1>1, <2>3, AppendProperties
    <2> HIDE DEF raw
    <2>5. \A j \in 1..Len(raw) : raw[j].at \in 1..Len(links) /\ raw[j] = links[raw[j].at]
      <3> TAKE j \in 1..Len(raw)
      <3>1. CASE j \in 1..Len(w.chain)
        BY <2>3, <2>4, <3>1 DEF Walk
      <3>2. CASE j = Len(w.chain) + 1
        BY <2>4, <3>2 DEF LineGood
      <3> QED
        BY <2>3, <2>4, <3>1, <3>2
    <2>6. Good(m, a) /\ Moves(w, a)
      BY <2>1, <2>4, <2>5, AdoptedGood
    <2>7. TransferAt(w.chain) = TransferAt(r.chain) /\ w.owner = c.owner /\ TransferAt(a.chain) \in Nat
      BY <2>1, <2>6, DateFacts DEF Good, ChainGood
    <2> HIDE DEF a
    <2> QED
      BY <1>2, <1>3, <1>4, <1>7, <2>1, <2>2, <2>6, <2>7 DEF Moves
  <1> QED
    BY <1>5, <1>6, <1>7

\* A new code: the removed is not the owner that removes it.
LEMMA RekeyGood ==
    ASSUME NEW m \in Member, NEW r, Good(m, r), NEW f \in Rekey, f.by # f.target
    PROVE  Good(m, RekeyHeard(m, r, f)) /\ Moves(r, RekeyHeard(m, r, f))
  <1> DEFINE b == r.bans \union {f.target}
             x == [r EXCEPT !.code = f.new]
             y == [x EXCEPT !.bans = b]
             w == [y EXCEPT !.snap = NoSnap]
             take == f.target # m /\ r.owner = f.by /\ f.by \notin r.bans
  <1>1. RekeyHeard(m, r, f) = IF take THEN w ELSE r
    BY DEF RekeyHeard, Good, Room
  <1>2. b \in SUBSET Member /\ NoSnap \in Snap /\ SnapGood(NoSnap) /\ f.new \in Code
        /\ f.by \in Member
    BY DEF Good, Room, Rekey, NoSnap, Snap, SnapGood, Id
  <1>3. take => r.owner \notin b /\ r.owner # NoOne
    BY <1>2, RoomAssumption
  <1> HIDE DEF b, take
  <1>4. /\ x \in Room /\ x.snap = r.snap /\ x.owner = r.owner /\ x.chain = r.chain /\ x.in = r.in
        /\ x.pin = r.pin /\ x.pending = r.pending
    BY <1>2 DEF Good, Room
  <1> HIDE DEF x
  <1>5. /\ y \in Room /\ y.owner = r.owner /\ y.chain = r.chain /\ y.in = r.in
        /\ y.pin = r.pin /\ y.pending = r.pending /\ y.bans = b
    BY <1>2, <1>4 DEF Room
  <1> HIDE DEF y
  <1>6. /\ w \in Room /\ w.snap = NoSnap /\ w.owner = r.owner /\ w.chain = r.chain /\ w.in = r.in
        /\ w.pin = r.pin /\ w.pending = r.pending /\ w.bans = b
    BY <1>2, <1>5 DEF Room
  <1> HIDE DEF w
  <1>7. take => Good(m, w)
    BY <1>2, <1>3, <1>6 DEF Good, ChainGood, OwnerGood, BansGood
  <1> QED
    BY <1>1, <1>6, <1>7 DEF Moves

LEMMA FrameHeardGood ==
    ASSUME LineGood, NEW m \in Member, NEW r, Good(m, r), NEW f, FrameGood(f)
    PROVE  Good(m, FrameHeard(m, r, f)) /\ Moves(r, FrameHeard(m, r, f))
  <1>1. CASE f \in Hello /\ Walk(f.chain) /\ f.owner \in Named \union {NoOne} /\ SnapGood(f.snap)
    <2>1. FrameHeard(m, r, f) = HelloHeard(m, r, f)
      BY <1>1 DEF FrameHeard, Hello
    <2> QED
      BY <1>1, <2>1, HelloGood
  <1>2. CASE f \in Transferred /\ SnapGood(f.snap) /\ \E i \in 1..Len(links) : f.link = links[i]
    <2>1. FrameHeard(m, r, f) = TransferHeard(m, r, f)
      BY <1>2 DEF FrameHeard, Transferred
    <2> QED
      BY <1>2, <2>1, TransferGood
  <1>3. CASE f \in Rekey /\ f.by # f.target
    <2>1. FrameHeard(m, r, f) = RekeyHeard(m, r, f)
      BY <1>3 DEF FrameHeard, Rekey
    <2> QED
      BY <1>3, <2>1, RekeyGood
  <1> QED
    BY <1>1, <1>2, <1>3 DEF FrameGood

\* A member that starts again believes what it believed: the chain it kept is in
\* place still, and is anchored in the pin.
LEMMA RestartedGood ==
    ASSUME LineGood, NEW m \in Member, NEW r, Good(m, r)
    PROVE  Good(m, Restarted(m, r)) /\ Moves(r, Restarted(m, r))
  <1> DEFINE o == IF r.pin # NoOne /\ r.owner # r.pin THEN NoOne ELSE r.owner
             b1 == [r EXCEPT !.owner = o]
             b2 == [b1 EXCEPT !.chain = << >>]
             b3 == [b2 EXCEPT !.snap = NoSnap]
             b4 == [b3 EXCEPT !.kicked = FALSE]
             bare == [b4 EXCEPT !.pending = NoOne]
             none == [bare EXCEPT !.owner = NoOne]
             chain == Verified(m, r.chain)
             back == IF Advances(none, chain) THEN WithChain(bare, chain) ELSE bare
             told == IF SnapAdvances(back, r.snap) THEN WithSnap(m, back, r.snap) ELSE back
             mint == Minted(m, told)
             gone == m \in told.bans
             w == [mint EXCEPT !.kicked = gone]
  <1>1. /\ r \in Room /\ Walk(r.chain) /\ r.chain \in Seq(Link)
        /\ Len(r.chain) \in Nat /\ Len(links) \in Nat /\ SnapGood(r.snap)
    BY NamedFacts, LenProperties DEF Good, ChainGood, BansGood, Walk
  <1>2. Restarted(m, r) = w
    BY <1>1 DEF Restarted, Room
  <1>3. o \in Id /\ NoSnap \in Snap /\ SnapGood(NoSnap) /\ << >> \in Seq(Link)
    BY <1>1, EmptySeq DEF Room, Id, NoSnap, Snap, SnapGood
  <1>4. r.chain = << >> => o = r.owner
    BY DEF Good, OwnerGood
  <1> HIDE DEF o
  <1>5. b1 \in Room /\ b1.pin = r.pin /\ b1.owner = o /\ b1.in = r.in /\ b1.bans = r.bans
    BY <1>1, <1>3 DEF Room
  <1> HIDE DEF b1
  <1>6. /\ b2 \in Room /\ b2.pin = r.pin /\ b2.owner = o /\ b2.in = r.in /\ b2.bans = r.bans
        /\ b2.chain = << >>
    BY <1>3, <1>5 DEF Room
  <1> HIDE DEF b2
  <1>7. /\ b3 \in Room /\ b3.pin = r.pin /\ b3.owner = o /\ b3.in = r.in /\ b3.bans = r.bans
        /\ b3.chain = << >> /\ b3.snap = NoSnap
    BY <1>3, <1>6 DEF Room
  <1> HIDE DEF b3
  <1>8. /\ b4 \in Room /\ b4.pin = r.pin /\ b4.owner = o /\ b4.in = r.in /\ b4.bans = r.bans
        /\ b4.chain = << >> /\ b4.snap = NoSnap
    BY <1>7 DEF Room
  <1> HIDE DEF b4
  <1>9. /\ bare \in Room /\ bare.pin = r.pin /\ bare.owner = o /\ bare.in = r.in
        /\ bare.bans = r.bans /\ bare.chain = << >> /\ bare.snap = NoSnap
        /\ bare.pending = NoOne
    BY <1>8 DEF Room, Id
  <1> HIDE DEF bare
  <1>10. none.pin = r.pin /\ none.owner = NoOne /\ none.chain = << >>
    BY <1>9 DEF Room
  <1> HIDE DEF none
  <1>11. chain = r.chain
    <2>1. ASSUME NEW i \in 1..Len(r.chain) PROVE InPlace(m, r.chain, i)
      <3>1. /\ i <= Limit
            /\ r.chain[i].at \in 1..Len(links) /\ r.chain[i] = links[r.chain[i].at]
            /\ i > 1 => r.chain[i].by = r.chain[i - 1].new /\ r.chain[i].at > r.chain[i - 1].at
        BY <1>1, RoomAssumption DEF Walk
      <3>3. r.chain[i].by # r.chain[i].new /\ r.chain[i].root = Founder
        BY <3>1 DEF LineGood
      <3>4. r.chain[1].by = Founder
        BY <1>1 DEF Walk
      <3>2. r.chain[i] \in early => r.chain[i].by = m
        BY DEF Good, ChainGood
      <3> QED
        BY <3>1, <3>2, <3>3, <3>4 DEF InPlace
    <2> QED
      BY <1>1, <2>1, VerifiedFacts
  <1>12. r.chain # << >> => Advances(none, r.chain)
    <2> SUFFICES ASSUME r.chain # << >> PROVE Advances(none, r.chain)
      OBVIOUS
    <2>1. TransferAt(r.chain) > 0 /\ Len(r.chain) > 0 /\ TransferAt(<< >>) = 0
      <3>1. TransferAt(r.chain) \in 1..Len(links) /\ Len(r.chain) \in 1..Len(r.chain)
        BY <1>1, DateFacts
      <3> QED
        BY <3>1, <1>1 DEF TransferAt
    <2>2. r.chain[1].by = Founder
      BY <1>1, DateFacts
    <2>3. r.pin # NoOne => r.pin = Founder \/ \E i \in DOMAIN r.chain : r.chain[i].new = r.pin
      BY <1>1, LenProperties DEF Good, OwnerGood
    <2>4. Compatible(<< >>, r.chain) /\ Len(<< >>) = 0
      BY EmptySeq DEF Compatible
    <2> QED
      BY <1>1, <1>10, <2>1, <2>2, <2>3, <2>4 DEF Advances, Anchored, KnownOwner
  <1>13. r.chain = << >> => ~Advances(none, r.chain)
    BY DEF Advances, Anchored
  <1>14. /\ back \in Room /\ back.pin = r.pin /\ back.owner = r.owner /\ back.in = r.in
         /\ back.bans = r.bans /\ back.chain = r.chain /\ back.snap = NoSnap
         /\ back.pending = NoOne
    <2>1. CASE r.chain = << >>
      BY <2>1, <1>4, <1>9, <1>11, <1>13
    <2>2. CASE r.chain # << >>
      <3>1. back = WithChain(bare, r.chain)
        BY <2>2, <1>11, <1>12
      <3>2. r.owner = r.chain[Len(r.chain)].new
        BY <2>2 DEF Good, ChainGood
      <3> HIDE DEF back
      <3> QED
        BY <3>1, <3>2, <2>2, <1>1, <1>9, WithChainFields
    <2> QED
      BY <2>1, <2>2
  <1> HIDE DEF back
  <1>15. Good(m, back)
    BY <1>3, <1>14 DEF Good, ChainGood, OwnerGood, BansGood
  <1>16. Good(m, told) /\ told.chain = r.chain /\ told.owner = r.owner
    BY <1>1, <1>14, <1>15, WithSnapGood
  <1>17. gone \in BOOLEAN
    OBVIOUS
  <1> HIDE DEF told, gone
  <1>18. Good(m, mint) /\ mint.chain = r.chain /\ mint.owner = r.owner
    BY <1>16, MintedGood
  <1> HIDE DEF mint
  <1>19. /\ w \in Room /\ w.chain = mint.chain /\ w.owner = mint.owner /\ w.in = mint.in
         /\ w.pin = mint.pin /\ w.bans = mint.bans /\ w.snap = mint.snap
         /\ w.pending = mint.pending
    BY <1>18, <1>17 DEF Good, Room
  <1> HIDE DEF w
  <1>20. Good(m, w)
    BY <1>18, <1>19 DEF Good, ChainGood, OwnerGood, BansGood
  <1> QED
    BY <1>1, <1>2, <1>18, <1>19, <1>20 DEF Moves

-----------------------------------------------------------------------------
(* The steps *)

\* A step at one member, that extends no line: it hears something, or, never having
\* owned the room, forgets all.
StepOf(m) ==
    /\ links' = links
    /\ \A n \in Member \ {m} : room'[n].owner = room[n].owner /\ room'[n].chain = room[n].chain
    /\ \/ Moves(room[m], room'[m])
       \/ m \notin Named /\ room'[m].owner = NoOne /\ room'[m].chain = << >>

\* Two owners would both hold the last link of the line, and it names one.
LEMMA OwnerIsHolder ==
    ASSUME IInv, NEW m \in Member, room[m].owner = m
    PROVE  m = Holder /\ TransferAt(room[m].chain) = Len(links)
  <1> DEFINE c == room[m].chain
  <1>1. /\ Walk(c) /\ TransferAt(c) = Len(links) /\ LineGood
        /\ c # << >> => m = c[Len(c)].new
        /\ m \in Named \union {NoOne}
    BY DEF IInv, Good, ChainGood, OwnerGood
  <1> HIDE DEF c
  <1>2. /\ Len(links) \in Nat
        /\ c = << >> => Len(links) = 0
        /\ c # << >> => TransferAt(c) \in 1..Len(links) /\ c[Len(c)] = links[TransferAt(c)]
    BY <1>1, DateFacts
  <1>3. links = << >> <=> Len(links) = 0
    BY <1>1, EmptySeq DEF LineGood
  <1>4. CASE links = << >>
    <2>1. Named = {Founder}
      BY <1>4 DEF Named
    <2> QED
      BY <2>1, <1>1, <1>4, RoomAssumption DEF Holder, c
  <1>5. CASE links # << >>
    BY <1>1, <1>2, <1>3, <1>5 DEF Holder, c
  <1> QED
    BY <1>4, <1>5

LEMMA SoleOwnerHolds == IInv => SoleOwner
  BY OwnerIsHolder DEF SoleOwner

\* A frame is as good as it was while no handover is signed.
LEMMA FramesStay ==
    ASSUME links' = links, NEW F, \A f \in F : FrameGood(f)
    PROVE  \A f \in F : FrameGood(f)'
  <1> SUFFICES ASSUME NEW f \in F
               PROVE  FrameGood(f)'
    OBVIOUS
  <1>1. Walk(f.chain)' <=> Walk(f.chain)
    BY DEF Walk
  <1>2. Named' = Named
    BY DEF Named
  <1>3. (\E i \in 1..Len(links) : f.link = links[i])' <=> \E i \in 1..Len(links) : f.link = links[i]
    OBVIOUS
  <1>4. FrameGood(f)
    OBVIOUS
  <1>5. CASE f \in Hello /\ Walk(f.chain) /\ f.owner \in Named \union {NoOne} /\ SnapGood(f.snap)
    BY <1>1, <1>2, <1>5 DEF FrameGood
  <1>6. CASE f \in Transferred /\ SnapGood(f.snap) /\ \E i \in 1..Len(links) : f.link = links[i]
    BY <1>3, <1>6 DEF FrameGood
  <1>7. CASE f \in Rekey /\ f.by # f.target
    BY <1>7 DEF FrameGood
  <1> QED
    BY <1>4, <1>5, <1>6, <1>7 DEF FrameGood

\* So is what a member holds, while nothing it removes or signs is left behind.
LEMMA RoomStays ==
    ASSUME links' = links, early' \subseteq early, NEW n \in Member, Good(n, room'[n]),
           codes' = codes \/ room'[n].pending = NoOne
    PROVE  Good(n, room[n])'
  <1>1. ChainGood(n, room[n])'
    BY DEF Good, ChainGood, Walk
  <1>2. OwnerGood(n, room[n])'
    BY DEF Good, OwnerGood, Named
  <1>3. BansGood(n, room[n])'
    BY DEF Good, BansGood
  <1>4. (room[n] \in Room)'
    BY DEF Good
  <1> QED
    BY <1>1, <1>2, <1>3, <1>4 DEF Good

\* One member comes to hold something that is good, and the frames are good.
LEMMA OneMember ==
    ASSUME IInv, NEW m \in Member, NEW r, Good(m, r), room' = [room EXCEPT ![m] = r],
           UNCHANGED <<codes, early, links>>, \A f \in net' : FrameGood(f)
    PROVE  IInv'
  <1>1. /\ room' \in [Member -> Room] /\ room'[m] = r
        /\ \A n \in Member : n # m => room'[n] = room[n]
    BY DEF IInv, Good
  <1>2. \A n \in Member : Good(n, room'[n])
    BY <1>1 DEF IInv
  <1>3. LineGood'
    BY DEF IInv, LineGood
  <1>4. \A n \in Member : Good(n, room[n])'
    BY <1>2, RoomStays
  <1>5. \A f \in net' : FrameGood(f)'
    BY FramesStay
  <1> QED
    BY <1>1, <1>3, <1>4, <1>5 DEF IInv

\* The frames on their way are the old ones and perhaps a new one.
LEMMA SentFacts == \A frames, f : \A g \in Sent(frames, f) : g \in frames \/ g = f
  BY DEF Sent

LEMMA HelloOfGood ==
    ASSUME IInv, NEW m \in Member
    PROVE  LET h == HelloOf(m)
           IN  /\ FrameGood(h) /\ h \in Hello /\ Walk(h.chain)
               /\ h.owner \in Named \union {NoOne} /\ SnapGood(h.snap)
  <1> DEFINE r == room[m]
             s == IF r.snap.by = r.owner THEN r.snap ELSE NoSnap
             h == [kind |-> "hello", code |-> r.code, from |-> m, owner |-> r.owner,
                   chain |-> r.chain, snap |-> s]
  <1>1. /\ r \in Room /\ Walk(r.chain) /\ r.owner \in Named \union {NoOne}
        /\ SnapGood(r.snap)
    BY DEF IInv, Good, ChainGood, OwnerGood, BansGood
  <1>2. HelloOf(m) = h
    BY DEF HelloOf
  <1> HIDE DEF r
  <1>3. SnapGood(s) /\ s \in Snap
    BY <1>1 DEF SnapGood, NoSnap, Snap, Id
  <1> HIDE DEF s
  <1>4. h \in Hello
    BY <1>1, <1>3 DEF Room, Hello
  <1> QED
    BY <1>1, <1>2, <1>3, <1>4 DEF FrameGood

\* At first the founder knows itself for the owner, and nobody else knows anything.
LEMMA InitGood ==
    ASSUME Init
    PROVE  /\ IInv /\ links = << >>
           /\ \A m \in Member : /\ room[m].chain = << >>
                                /\ room[m].owner = IF m = Founder THEN Founder ELSE NoOne
  <1>1. links = << >> /\ Len(links) = 0 /\ Named = {Founder} /\ net = {} /\ early = {} /\ codes = 1
    BY EmptySeq DEF Init, Named
  <1>2. LineGood
    BY <1>1, RoomAssumption, EmptySeq DEF LineGood, Code
  <1>3. << >> \in Seq(Link) /\ Len(<< >>) = 0 /\ Walk(<< >>)
    BY <1>1, EmptySeq, RoomAssumption DEF Walk
  <1> DEFINE fresh == Fresh(NoOne, 1)
             made == [fresh EXCEPT !.owner = Founder]
  <1>4. /\ fresh \in Room /\ fresh.in /\ fresh.pin = NoOne /\ fresh.chain = << >> /\ fresh.bans = {}
        /\ fresh.snap = NoSnap /\ fresh.pending = NoOne /\ fresh.owner = NoOne
    BY <1>3, RoomAssumption DEF Fresh, Room, Id, Code, NoSnap, Snap
  <1>5. SnapGood(NoSnap)
    BY DEF SnapGood, NoSnap, Snap, Id
  <1>6. Outside = [fresh EXCEPT !.in = FALSE]
    BY DEF Outside
  <1> HIDE DEF fresh
  <1>7. /\ made \in Room /\ made.in /\ made.pin = NoOne /\ made.chain = << >> /\ made.bans = {}
        /\ made.snap = NoSnap /\ made.pending = NoOne /\ made.owner = Founder
    BY <1>4, RoomAssumption DEF Room, Id
  <1>8. /\ Outside \in Room /\ Outside.pin = NoOne /\ Outside.chain = << >>
        /\ Outside.bans = {} /\ Outside.snap = NoSnap /\ Outside.pending = NoOne
        /\ Outside.owner = NoOne
    BY <1>4, <1>6 DEF Room
  <1>9. room = [m \in Member |-> IF m = Founder THEN Minted(m, made) ELSE Outside]
    BY DEF Init, fresh
  <1> HIDE DEF made
  <1>10. Good(Founder, made)
    BY <1>1, <1>3, <1>5, <1>7, RoomAssumption DEF Good, ChainGood, OwnerGood, BansGood, TransferAt
  <1>11. Good(Founder, Minted(Founder, made))
    BY <1>10, MintedGood, RoomAssumption
  <1>12. \A m \in Member : m # Founder => Good(m, Outside)
    BY <1>1, <1>3, <1>5, <1>8, RoomAssumption DEF Good, ChainGood, OwnerGood, BansGood
  <1>13. \A m \in Member : Good(m, room[m])
    BY <1>9, <1>11, <1>12
  <1>14. room \in [Member -> Room]
    <2>1. \A m \in Member : room[m] \in Room
      BY <1>13 DEF Good
    <2> QED
      BY <2>1, <1>9
  <1>15. Minted(Founder, made).chain = << >> /\ Minted(Founder, made).owner = Founder
    BY <1>7, <1>10, MintedGood, RoomAssumption
  <1> QED
    BY <1>1, <1>2, <1>8, <1>9, <1>13, <1>14, <1>15 DEF IInv

\* What m hears is good, and moves it along the line.
LEMMA HearsGood ==
    ASSUME IInv, NEW m \in Member, NEW r, Good(m, r), Moves(room[m], r), Hears(m, r)
    PROVE  IInv' /\ StepOf(m)
  <1>1. /\ room' = [room EXCEPT ![m] = r] /\ UNCHANGED <<codes, net, early, links>>
    BY DEF Hears
  <1>2. IInv'
    BY <1>1, OneMember DEF IInv
  <1>3. room'[m] = r /\ \A n \in Member \ {m} : room'[n] = room[n]
    BY <1>1 DEF IInv
  <1> QED
    BY <1>1, <1>2, <1>3 DEF StepOf

LEMMA GreetGood ==
    ASSUME IInv, NEW m \in Member, NEW n \in Member, Greet(m, n)
    PROVE  IInv' /\ StepOf(n)
  <1> DEFINE r == HelloHeard(n, room[n], HelloOf(m))
  <1>1. Hears(n, r)
    BY DEF Greet
  <1>2. Good(n, r) /\ Moves(room[n], r)
    BY HelloOfGood, HelloGood DEF IInv
  <1> HIDE DEF r
  <1> QED
    BY <1>1, <1>2, HearsGood

LEMMA PingGood ==
    ASSUME IInv, NEW m \in Member, NEW n \in Member, Ping(m, n)
    PROVE  IInv' /\ StepOf(n)
  <1> DEFINE r == Claimed(room[n], room[m].owner)
  <1>1. Hears(n, r)
    BY DEF Ping
  <1>2. room[m].owner \in Named \union {NoOne}
    BY DEF IInv, Good, OwnerGood
  <1>3. /\ Good(n, r) /\ r.chain = room[n].chain
        /\ room[n].owner # NoOne => r = room[n]
    BY <1>2, ClaimedGood DEF IInv
  <1> HIDE DEF r
  <1> QED
    BY <1>1, <1>3, HearsGood DEF Moves

LEMMA DeliverGood ==
    ASSUME IInv, NEW n \in Member, NEW f \in net, Deliver(n, f)
    PROVE  IInv' /\ StepOf(n)
  <1> DEFINE r == FrameHeard(n, room[n], f)
  <1>1. Hears(n, r)
    BY DEF Deliver
  <1>2. Good(n, r) /\ Moves(room[n], r)
    BY FrameHeardGood DEF IInv
  <1> HIDE DEF r
  <1> QED
    BY <1>1, <1>2, HearsGood

\* The frames and the clocks, and no member.
LEMMA QuietGood ==
    ASSUME IInv, UNCHANGED <<room, codes, links>>, early' \subseteq early,
           \A f \in net' : FrameGood(f)
    PROVE  IInv'
  <1>1. LineGood'
    BY DEF IInv, LineGood
  <1>2. \A m \in Member : Good(m, room[m])'
    <2>1. \A m \in Member : Good(m, room'[m])
      BY DEF IInv
    <2> QED
      BY <2>1, RoomStays
  <1>3. \A f \in net' : FrameGood(f)'
    BY FramesStay
  <1> QED
    BY <1>1, <1>2, <1>3 DEF IInv

LEMMA LingerGood ==
    ASSUME IInv, NEW m \in Member, Linger(m)
    PROVE  IInv'
  <1>1. \A f \in net' : f \in net \/ f = HelloOf(m)
    BY DEF Linger
  <1>2. \A f \in net' : FrameGood(f)
    BY <1>1, HelloOfGood DEF IInv
  <1> QED
    BY <1>2, QuietGood DEF Linger

LEMMA DropGood ==
    ASSUME IInv, NEW f, Drop(f)
    PROVE  IInv'
  BY QuietGood DEF Drop, IInv

LEMMA TimePassesGood ==
    ASSUME IInv, TimePasses
    PROVE  IInv'
  BY QuietGood DEF TimePasses, IInv

\* Who joins knows nothing, and has never owned the room: it has signed nothing.
LEMMA JoinGood ==
    ASSUME IInv, NEW m \in Member, NEW i \in Member, NEW pin \in Id, Join(m, i, pin)
    PROVE  IInv' /\ StepOf(m)
  <1> DEFINE c == room[i].code
             r == Fresh(pin, c)
  <1>1. /\ room' = [room EXCEPT ![m] = r] /\ UNCHANGED <<codes, net, early, links>>
        /\ m \notin Named
    BY DEF Join
  <1>2. c \in Code
    BY DEF IInv, Room
  <1> HIDE DEF c
  <1>3. << >> \in Seq(Link) /\ Len(<< >>) = 0 /\ Len(links) \in Nat
    BY EmptySeq, NamedFacts DEF IInv
  <1>4. NoSnap \in Snap /\ SnapGood(NoSnap)
    BY DEF SnapGood, NoSnap, Snap, Id
  <1>5. /\ r \in Room /\ r.in /\ r.pin = pin /\ r.chain = << >> /\ r.bans = {} /\ r.snap = NoSnap
        /\ r.pending = NoOne /\ r.owner = NoOne
    BY <1>2, <1>3, <1>4 DEF Fresh, Room, Id
  <1> HIDE DEF r
  <1>6. Good(m, r)
    <2>1. \A j \in 1..Len(links) : links[j].by # m
      BY <1>1, NamedFacts DEF IInv
    <2> QED
      BY <2>1, <1>1, <1>3, <1>4, <1>5, RoomAssumption
      DEF Good, ChainGood, OwnerGood, BansGood, Walk
  <1>7. IInv'
    BY <1>1, <1>6, OneMember DEF IInv
  <1>8. room'[m] = r /\ \A n \in Member \ {m} : room'[n] = room[n]
    BY <1>1 DEF IInv
  <1> QED
    BY <1>1, <1>5, <1>7, <1>8 DEF StepOf

\* A pin is put on an owner that m knows of, or on one that its chain passes.
LEMMA PinInviteGood ==
    ASSUME IInv, NEW m \in Member, NEW i \in Member, PinInvite(m, i)
    PROVE  IInv' /\ StepOf(m)
  <1> DEFINE r == room[m]
             pin == room[i].owner
             w == [r EXCEPT !.pin = pin]
             known == IF r.pin # NoOne THEN r.pin ELSE KnownOwner(r)
             passed == {r.chain[j].by : j \in DOMAIN r.chain}
                       \union {r.chain[j].new : j \in DOMAIN r.chain}
  <1>1. /\ UNCHANGED <<codes, net, early, links>> /\ r.pin = NoOne /\ pin # NoOne
        /\ room' = [room EXCEPT ![m].pin = pin]
        /\ known \in {NoOne, pin} \/ {known, pin} \subseteq passed
    BY DEF PinInvite
  <1>2. room' = [room EXCEPT ![m] = w]
    BY <1>1 DEF IInv
  <1>3. Good(m, r) /\ pin \in Id
    BY DEF IInv, Room
  <1>4. /\ r.chain = << >> => r.owner \in {NoOne, pin}
        /\ r.chain # << >> => pin = Founder \/ \E j \in 1..Len(r.chain) : r.chain[j].new = pin
    <2>1. DOMAIN r.chain = 1..Len(r.chain) /\ Len(r.chain) \in Nat
      BY <1>3, LenProperties DEF Good, ChainGood, Walk
    <2>2. CASE r.chain = << >>
      <3>1. known = r.owner /\ passed = {}
        BY <1>1, <2>2, EmptySeq DEF KnownOwner
      <3> QED
        BY <1>1, <2>2, <3>1
    <2>3. CASE r.chain # << >>
      <3>1. 1 \in 1..Len(r.chain) /\ known = r.chain[1].by
        <4>1. Len(r.chain) # 0
          BY <1>3, <2>3, EmptySeq DEF Good, ChainGood, Walk
        <4>2. known = r.chain[1].by
          BY <1>1, <2>3 DEF KnownOwner
        <4> QED
          BY <2>1, <4>1, <4>2
      <3>2. \A j \in 1..Len(r.chain) :
              /\ j = 1 => r.chain[j].by = Founder
              /\ j > 1 => r.chain[j].by = r.chain[j - 1].new
        BY <1>3 DEF Good, ChainGood, Walk
      <3>3. ASSUME NEW j \in 1..Len(r.chain)
            PROVE  \/ r.chain[j].by = Founder
                   \/ \E k \in 1..Len(r.chain) : r.chain[k].new = r.chain[j].by
        <4>1. CASE j = 1
          BY <3>2, <4>1
        <4>2. CASE j # 1
          BY <2>1, <3>2, <4>2
        <4> QED
          BY <4>1, <4>2
      <3>4. known = pin \/ pin \in passed
        BY <1>1, <3>1, <3>2, RoomAssumption
      <3> HIDE DEF known
      <3> QED
        BY <2>1, <2>3, <3>1, <3>3, <3>4
    <2> QED
      BY <2>2, <2>3
  <1> HIDE DEF pin, known, passed
  <1>5. /\ w \in Room /\ w.pin = pin /\ w.owner = r.owner /\ w.chain = r.chain /\ w.in = r.in
        /\ w.bans = r.bans /\ w.snap = r.snap /\ w.pending = r.pending
    BY <1>3 DEF Good, Room
  <1> HIDE DEF w
  <1>6. Good(m, w)
    BY <1>3, <1>4, <1>5 DEF Good, ChainGood, OwnerGood, BansGood
  <1>7. IInv'
    BY <1>1, <1>2, <1>6, OneMember DEF IInv
  <1>8. room'[m] = w /\ \A n \in Member \ {m} : room'[n] = room[n]
    BY <1>2 DEF IInv
  <1> QED
    BY <1>1, <1>5, <1>7, <1>8 DEF StepOf, Moves

LEMMA RestartGood ==
    ASSUME IInv, NEW m \in Member, Restart(m)
    PROVE  IInv' /\ StepOf(m)
  <1> DEFINE r == Restarted(m, room[m])
  <1>1. /\ room' = [room EXCEPT ![m] = r] /\ UNCHANGED <<codes, net, early, links>>
    BY DEF Restart
  <1>2. Good(m, r) /\ Moves(room[m], r)
    BY RestartedGood DEF IInv
  <1> HIDE DEF r
  <1>3. IInv'
    BY <1>1, <1>2, OneMember DEF IInv
  <1>4. room'[m] = r /\ \A n \in Member \ {m} : room'[n] = room[n]
    BY <1>1 DEF IInv
  <1> QED
    BY <1>1, <1>2, <1>3, <1>4 DEF StepOf

\* The owner puts a rotation off; the removed shuts the room if it hears of it.
LEMMA KickGood ==
    ASSUME IInv, NEW m \in Member, NEW x \in Member, NEW heard \in BOOLEAN, Kick(m, x, heard)
    PROVE  IInv' /\ StepOf(m)
  <1> DEFINE r == room[m]
             s == room[x]
             gone == s.kicked \/ heard
             w == [r EXCEPT !.pending = x]
             v == [s EXCEPT !.kicked = gone]
  <1>1. /\ UNCHANGED <<codes, net, early, links>>
        /\ x # m /\ r.owner = m /\ codes < MaxCode
    BY DEF Kick
  <1>2. r \in Room /\ s \in Room /\ Good(m, r) /\ Good(x, s)
    BY DEF IInv
  <1>3. room' = [[room EXCEPT ![m] = w] EXCEPT ![x] = v]
    <2>1. room' = [room EXCEPT ![m].pending = x, ![x].kicked = @ \/ heard]
      BY DEF Kick
    <2> QED
      BY <2>1, <1>1 DEF IInv
  <1>4. gone \in BOOLEAN /\ x \in Id /\ x # NoOne
    BY RoomAssumption DEF Id
  <1> HIDE DEF gone
  <1>5. /\ w \in Room /\ w.pending = x /\ w.owner = r.owner /\ w.chain = r.chain /\ w.in = r.in
        /\ w.bans = r.bans /\ w.snap = r.snap /\ w.pin = r.pin
    BY <1>2, <1>4 DEF Room
  <1>6. /\ v \in Room /\ v.pending = s.pending /\ v.owner = s.owner /\ v.chain = s.chain
        /\ v.in = s.in /\ v.bans = s.bans /\ v.snap = s.snap /\ v.pin = s.pin
    BY <1>2, <1>4 DEF Room
  <1>7. /\ room' \in [Member -> Room] /\ room'[m] = w /\ room'[x] = v
        /\ \A n \in Member : n # m /\ n # x => room'[n] = room[n]
    BY <1>1, <1>3, <1>5, <1>6 DEF IInv
  <1> HIDE DEF w, v
  <1>8. Good(m, w)
    BY <1>1, <1>2, <1>5 DEF Good, ChainGood, OwnerGood, BansGood
  <1>9. Good(x, v)
    BY <1>2, <1>6 DEF Good, ChainGood, OwnerGood, BansGood
  <1>10. \A n \in Member : Good(n, room'[n])
    BY <1>7, <1>8, <1>9 DEF IInv
  <1>11. LineGood' /\ \A f \in net' : FrameGood(f)'
    <2> HIDE DEF r, s
    <2>1. LineGood'
      BY <1>1 DEF IInv, LineGood
    <2>2. \A f \in net' : FrameGood(f)'
      <3>1. net' = net /\ links' = links /\ \A f \in net : FrameGood(f)
        BY <1>1 DEF IInv
      <3> QED
        BY <3>1, FramesStay
    <2> QED
      BY <2>1, <2>2
  <1>12. \A n \in Member : Good(n, room[n])'
    BY <1>1, <1>10, RoomStays
  <1>13. IInv'
    BY <1>7, <1>11, <1>12 DEF IInv
  <1>14. StepOf(m)
    BY <1>1, <1>5, <1>6, <1>7 DEF StepOf, Moves
  <1> QED
    BY <1>13, <1>14

\* The new code comes from the owner, and there is no other rotation due.
LEMMA RotateGood ==
    ASSUME IInv, NEW m \in Member, Rotate(m)
    PROVE  IInv' /\ StepOf(m)
  <1> DEFINE r == room[m]
             b == r.bans \union {r.pending}
             d == codes + 1
             x == [r EXCEPT !.code = d]
             y == [x EXCEPT !.pending = NoOne]
             z == [y EXCEPT !.bans = b]
             v == [z EXCEPT !.snap = NoSnap]
             w == Minted(m, v)
             f == [kind |-> "rekey", code |-> r.code, by |-> m, new |-> d, target |-> r.pending]
  <1>1. /\ r \in Room /\ Good(m, r) /\ r.pending # NoOne
        /\ r.owner = m /\ r.pending # m /\ codes < MaxCode /\ codes \in Code
    BY DEF Rotate, IInv, Good, BansGood, LineGood
  <1>2. d \in Code /\ r.pending \in Member /\ b \in SUBSET Member /\ NoOne \in Id
    BY <1>1, RoomAssumption DEF Code, Room, Id
  <1>3. NoSnap \in Snap /\ SnapGood(NoSnap)
    BY DEF SnapGood, NoSnap, Snap, Id
  <1>4. /\ UNCHANGED <<early, links>> /\ codes' = d
        /\ room' = [room EXCEPT ![m] = w] /\ net' = Sent(net, f)
    BY <1>1 DEF Rotate, Room
  <1>5. r.owner \notin b
    BY <1>1 DEF Good, BansGood
  <1>6. f \in Rekey /\ FrameGood(f)
    BY <1>1, <1>2 DEF Rekey, FrameGood, Room
  <1> HIDE DEF b, f, d
  <1>7. /\ x \in Room /\ x.pending = r.pending /\ x.owner = r.owner /\ x.chain = r.chain
        /\ x.in = r.in /\ x.bans = r.bans /\ x.snap = r.snap /\ x.pin = r.pin
    BY <1>1, <1>2 DEF Room
  <1> HIDE DEF x
  <1>8. /\ y \in Room /\ y.pending = NoOne /\ y.owner = r.owner /\ y.chain = r.chain
        /\ y.in = r.in /\ y.bans = r.bans /\ y.snap = r.snap /\ y.pin = r.pin
    BY <1>2, <1>7 DEF Room
  <1> HIDE DEF y
  <1>9. /\ z \in Room /\ z.pending = NoOne /\ z.owner = r.owner /\ z.chain = r.chain
        /\ z.in = r.in /\ z.bans = b /\ z.snap = r.snap /\ z.pin = r.pin
    BY <1>2, <1>8 DEF Room
  <1> HIDE DEF z
  <1>10. /\ v \in Room /\ v.pending = NoOne /\ v.owner = r.owner /\ v.chain = r.chain
         /\ v.in = r.in /\ v.bans = b /\ v.snap = NoSnap /\ v.pin = r.pin
    BY <1>3, <1>9 DEF Room
  <1> HIDE DEF v
  <1>11. Good(m, v)
    <2>1. r.owner # NoOne
      BY <1>1, RoomAssumption
    <2> QED
      BY <2>1, <1>1, <1>3, <1>5, <1>10 DEF Good, ChainGood, OwnerGood, BansGood
  <1>12. Good(m, w) /\ w.chain = r.chain /\ w.owner = r.owner /\ w \in Room /\ w.pending = NoOne
    BY <1>10, <1>11, MintedGood, MintedFacts DEF BansGood, Good
  <1> HIDE DEF w
  <1>13. /\ room' \in [Member -> Room] /\ room'[m] = w
         /\ \A n \in Member : n # m => room'[n] = room[n]
    BY <1>4, <1>12 DEF IInv
  <1>14. \A n \in Member : Good(n, room'[n]) /\ room'[n].pending = NoOne
    <2> TAKE n \in Member
    <2>1. CASE n = m
      BY <2>1, <1>12, <1>13
    <2>2. CASE n # m
      <3>1. room[n].owner # n
        BY <2>2, <1>1, OwnerIsHolder
      <3>2. Good(n, room[n]) /\ room'[n] = room[n]
        BY <2>2, <1>13 DEF IInv
      <3> QED
        BY <3>1, <3>2 DEF Good, BansGood
    <2> QED
      BY <2>1, <2>2
  <1>15. \A n \in Member : Good(n, room[n])'
    BY <1>4, <1>14, RoomStays
  <1>16. LineGood'
    BY <1>2, <1>4 DEF IInv, LineGood
  <1>17. \A g \in net' : FrameGood(g)'
    <2>1. \A g \in net' : FrameGood(g)
      BY <1>4, <1>6, SentFacts DEF IInv
    <2> QED
      BY <2>1, <1>4, FramesStay
  <1>18. IInv'
    BY <1>13, <1>15, <1>16, <1>17 DEF IInv
  <1>19. StepOf(m)
    BY <1>4, <1>12, <1>13 DEF StepOf, Moves
  <1> QED
    BY <1>18, <1>19

\* The owner's link is the next of the line.
LEMMA LinkToGood ==
    ASSUME IInv, NEW m \in Member, NEW n \in Member, MayGive(m, n)
    PROVE  LET l == LinkTo(m, n)
               k == Len(links)
           IN  /\ l \in Link /\ l.by = m /\ l.new = n /\ l.at = k + 1 /\ l.root = Founder
               /\ k \in Nat /\ m = IF k = 0 THEN Founder ELSE links[k].new
  <1> DEFINE l == LinkTo(m, n)
             k == Len(links)
             c == room[m].chain
             root == IF c = << >> THEN m ELSE c[1].by
  <1>1. /\ LineGood /\ Walk(c) /\ m = Holder /\ TransferAt(c) = k
    BY OwnerIsHolder DEF IInv, Good, ChainGood, MayGive
  <1>2. k \in Nat /\ (links = << >> <=> k = 0)
    BY <1>1, EmptySeq DEF LineGood
  <1>3. m = IF k = 0 THEN Founder ELSE links[k].new
    BY <1>1, <1>2 DEF Holder
  <1>4. root = Founder
    BY <1>1, <1>2, <1>3, DateFacts
  <1>5. l = [by |-> m, new |-> n, at |-> k + 1, root |-> root]
    BY DEF LinkTo
  <1> HIDE DEF root
  <1>6. l \in Link /\ l.by = m /\ l.new = n /\ l.at = k + 1 /\ l.root = Founder
    BY <1>2, <1>4, <1>5, RoomAssumption DEF Link
  <1> QED
    BY <1>2, <1>3, <1>6

\* The line with one more link.
LEMMA LineGrows ==
    ASSUME IInv, NEW l \in Link, links' = Append(links, l)
    PROVE  LET k == Len(links)
           IN  /\ links' \in Seq(Link) /\ Len(links') = k + 1 /\ k \in Nat
               /\ links'[k + 1] = l /\ \A i \in 1..k : links'[i] = links[i]
               /\ \A c : Walk(c) => Walk(c)' /\ Len(c) \in Nat
               /\ Named' = Named \union {l.new}
  <1> DEFINE k == Len(links)
  <1>1. links \in Seq(Link) /\ DOMAIN links = 1..k /\ k \in Nat
    BY LenProperties DEF IInv, LineGood
  <1>2. /\ links' \in Seq(Link) /\ Len(links') = k + 1
        /\ links'[k + 1] = l /\ \A i \in 1..k : links'[i] = links[i]
    BY <1>1, AppendProperties
  <1>3. \A c : Walk(c) => Walk(c)' /\ Len(c) \in Nat
    <2> HIDE DEF k
    <2>1. \A c : Walk(c) => Len(c) \in Nat
      BY LenProperties DEF Walk
    <2>2. \A i \in 1..k : i \in 1..(k + 1)
      BY <1>1
    <2> QED
      BY <2>1, <2>2, <1>1, <1>2 DEF Walk, k
  <1>4. Named' = Named \union {l.new}
    <2>1. DOMAIN links' = 1..(k + 1)
      BY <1>2, LenProperties
    <2>2. {links'[i].new : i \in 1..(k + 1)} = {links[i].new : i \in 1..k} \union {l.new}
      <3> HIDE DEF k
      <3> QED
        BY <1>1, <1>2
    <2> QED
      BY <1>1, <2>1, <2>2 DEF Named
  <1> QED
    BY <1>1, <1>2, <1>3, <1>4

\* The handover: the chain of m ends where the line does, and then where the new line does.
LEMMA TransferStep ==
    ASSUME IInv, NEW m \in Member, NEW n \in Member, NEW ahead \in BOOLEAN,
           Transfer(m, n, ahead)
    PROVE  /\ IInv'
           /\ links' = Append(links, LinkTo(m, n)) /\ m # n
           /\ room[m].owner = m /\ TransferAt(room[m].chain) = Len(links)
           /\ room'[m].owner = n /\ TransferAt(room'[m].chain) = Len(links) + 1
           /\ \A x \in Member \ {m} : room'[x] = room[x]
  <1> DEFINE l == LinkTo(m, n)
             k == Len(links)
             r == Minted(m, room[m])
             chain == Append(r.chain, l)
             w == WithChain(r, chain)
             f == [kind |-> "transfer", code |-> r.code, link |-> l, snap |-> r.snap]
  <1>1. /\ MayGive(m, n) /\ room' = [room EXCEPT ![m] = w] /\ net' = Sent(net, f)
        /\ early' \subseteq early \union {l} /\ links' = Append(links, l) /\ codes' = codes
    BY DEF Transfer
  <1>2. /\ room[m].in /\ room[m].owner = m /\ room[m].pending = NoOne /\ n # m
        /\ room[n].in /\ room[n].owner # NoOne /\ n \notin room[m].bans
        /\ Len(room[m].chain) < Limit
    BY <1>1 DEF MayGive, Alive
  <1>3. /\ l \in Link /\ l.by = m /\ l.new = n /\ l.at = k + 1 /\ l.root = Founder
        /\ k \in Nat /\ m = IF k = 0 THEN Founder ELSE links[k].new
    BY <1>1, LinkToGood
  <1> HIDE DEF l
  <1>4. /\ links' \in Seq(Link) /\ Len(links') = k + 1
        /\ links'[k + 1] = l /\ \A i \in 1..k : links'[i] = links[i]
        /\ \A c : Walk(c) => Walk(c)' /\ Len(c) \in Nat
        /\ Named' = Named \union {n}
    BY <1>1, <1>3, LineGrows
  <1>5. /\ Good(m, r) /\ r \in Room /\ r.chain = room[m].chain /\ r.owner = m
        /\ r.pin = room[m].pin /\ r.in /\ r.pending = NoOne /\ r.bans = room[m].bans
    BY <1>2, MintedGood, MintedFacts DEF IInv, Good, BansGood
  <1>6. f \in Transferred /\ SnapGood(f.snap) /\ f.link = l
    BY <1>3, <1>5 DEF Transferred, Good, BansGood, Room
  <1> HIDE DEF f, r
  <1> DEFINE j == Len(r.chain)
  <1>7. /\ Walk(r.chain) /\ j \in Nat /\ j < Limit /\ TransferAt(r.chain) = k
        /\ r.chain = << >> <=> j = 0
        /\ j # 0 => j \in 1..j /\ r.chain[j].at = k /\ r.chain[j].new = m
    <2>1. Walk(r.chain) /\ j < Limit /\ TransferAt(r.chain) = k
      BY <1>2, <1>5, OwnerIsHolder DEF Good, ChainGood
    <2>2. j \in Nat /\ (r.chain = << >> <=> j = 0)
      BY <2>1, LenProperties, EmptySeq DEF Walk
    <2> QED
      BY <2>1, <2>2, <1>5 DEF Good, ChainGood, TransferAt
  <1>8. /\ chain \in Seq(Link) /\ Len(chain) = j + 1 /\ chain # << >>
        /\ chain[j + 1] = l /\ \A i \in 1..j : chain[i] = r.chain[i]
        /\ TransferAt(chain) = k + 1
    <2>1. /\ chain \in Seq(Link) /\ Len(chain) = j + 1
          /\ chain[j + 1] = l /\ \A i \in 1..j : chain[i] = r.chain[i]
      BY <1>3, <1>7, AppendProperties DEF Walk
    <2>2. chain # << >>
      BY <2>1, <1>7, EmptySeq
    <2> QED
      BY <2>1, <2>2, <1>3 DEF TransferAt
  <1> HIDE DEF chain, j
  <1>9. /\ w \in Room /\ w.chain = chain /\ w.owner = n /\ w.in = r.in /\ w.pin = r.pin
        /\ w.bans = r.bans /\ w.snap = r.snap /\ w.pending = r.pending
    <2>1. /\ w \in Room /\ w.chain = chain /\ w.owner = chain[Len(chain)].new
          /\ w.in = r.in /\ w.pin = r.pin
          /\ w.bans = r.bans /\ w.snap = r.snap /\ w.pending = r.pending
      BY <1>5, <1>8, WithChainFields
    <2> HIDE DEF w
    <2> QED
      BY <2>1, <1>3, <1>8
  <1> HIDE DEF w
  <1>10. /\ room' \in [Member -> Room] /\ room'[m] = w
        /\ \A x \in Member \ {m} : room'[x] = room[x]
    BY <1>1, <1>9 DEF IInv
  <1>11. LineGood'
    <2>1. \A i \in 1..(k + 1) :
            /\ links'[i].at = i /\ links'[i].root = Founder /\ links'[i].by # links'[i].new
            /\ links'[i].by = IF i = 1 THEN Founder ELSE links'[i - 1].new
      <3> TAKE i \in 1..(k + 1)
      <3>1. CASE i = k + 1
        BY <3>1, <1>2, <1>3, <1>4
      <3>2. CASE i # k + 1
        <4>1. i \in 1..k /\ (i # 1 => i - 1 \in 1..k)
          BY <3>2, <1>3
        <4> QED
          BY <4>1, <1>4 DEF IInv, LineGood
      <3> QED
        BY <3>1, <3>2
    <2>4. early' \subseteq {links'[i] : i \in DOMAIN links'}
      <3>1. DOMAIN links' = 1..(k + 1) /\ DOMAIN links = 1..k
        BY <1>4, LenProperties DEF IInv, LineGood
      <3>2. early \subseteq {links[i] : i \in 1..k}
        BY <3>1 DEF IInv, LineGood
      <3> QED
        BY <3>1, <3>2, <1>1, <1>3, <1>4
    <2>5. codes' \in Code
      BY <1>1 DEF IInv, LineGood
    <2> HIDE DEF k
    <2> QED
      BY <2>1, <2>4, <2>5, <1>4 DEF LineGood
  <1>12. Good(m, room[m])'
    <2>1. /\ chain \in Seq(Link) /\ Len(chain) <= Limit /\ Len(links') = k + 1
          /\ \A i \in 1..Len(chain) :
              /\ chain[i].at \in 1..(k + 1) /\ chain[i] = links'[chain[i].at]
              /\ i = 1 => chain[i].by = Founder
              /\ i > 1 => chain[i].by = chain[i - 1].new /\ chain[i].at > chain[i - 1].at
      <3>2. ASSUME NEW i \in 1..(j + 1)
            PROVE  /\ chain[i].at \in 1..(k + 1) /\ chain[i] = links'[chain[i].at]
                   /\ i = 1 => chain[i].by = Founder
                   /\ i > 1 => chain[i].by = chain[i - 1].new /\ chain[i].at > chain[i - 1].at
        <4>1. CASE i = j + 1
          <5>1. chain[i] = l /\ (i > 1 => chain[i - 1] = r.chain[j])
            BY <4>1, <1>7, <1>8
          <5>2. i = 1 => k = 0
            BY <4>1, <1>7 DEF TransferAt
          <5> QED
            BY <4>1, <5>1, <5>2, <1>3, <1>4, <1>7
        <4>2. CASE i # j + 1
          <5>1. i \in 1..j /\ (i > 1 => i - 1 \in 1..j)
            BY <4>2, <1>7
          <5>2. chain[i] = r.chain[i] /\ (i > 1 => chain[i - 1] = r.chain[i - 1])
            BY <5>1, <1>8
          <5> QED
            BY <5>1, <5>2, <1>3, <1>4, <1>7 DEF Walk, j
        <4> QED
          BY <4>1, <4>2
      <3>3. j + 1 <= Limit
        BY <1>7, RoomAssumption
      <3> QED
        BY <3>2, <3>3, <1>4, <1>8
    <2>2. \A i \in 1..(j + 1) : chain[i] \in early' => chain[i].by = m
      <3> TAKE i \in 1..(j + 1)
      <3>1. CASE i = j + 1
        BY <3>1, <1>3, <1>8
      <3>2. CASE i # j + 1
        <4>1. i \in 1..j
          BY <3>2, <1>7
        <4> QED
          BY <4>1, <1>1, <1>3, <1>5, <1>8 DEF Good, ChainGood, j
      <3> QED
        BY <3>1, <3>2
    <2>3. r.pin # NoOne => r.pin = Founder \/ \E i \in 1..(j + 1) : chain[i].new = r.pin
      <3>1. CASE j = 0
        <4>1. r.chain = << >> /\ k = 0
          BY <3>1, <1>7 DEF TransferAt
        <4>2. r.owner \in {NoOne, r.pin} \/ r.pin = NoOne
          BY <4>1, <1>5 DEF Good, OwnerGood
        <4> QED
          BY <4>1, <4>2, <1>3, <1>5, RoomAssumption
      <3>2. CASE j # 0
        <4>1. r.pin # NoOne => r.pin = Founder \/ \E i \in 1..j : r.chain[i].new = r.pin
          BY <3>2, <1>5, <1>7 DEF Good, OwnerGood, j
        <4>2. \A i \in 1..j : i \in 1..(j + 1) /\ chain[i] = r.chain[i]
          BY <1>7, <1>8
        <4> QED
          BY <4>1, <4>2
      <3> QED
        BY <3>1, <3>2
    <2> DEFINE q == room'[m]
    <2>4. /\ q \in Room /\ q.chain = chain /\ q.owner = n /\ q.in /\ q.pin = r.pin
          /\ q.bans = r.bans /\ q.snap = r.snap /\ q.pending = NoOne
          /\ Len(q.chain) = j + 1 /\ q.owner = chain[j + 1].new
          /\ TransferAt(q.chain) = k + 1
      BY <1>3, <1>5, <1>8, <1>9, <1>10
    <2>5. ChainGood(m, room[m])'
      <3>1. Walk(room[m].chain)'
        <4> HIDE DEF q, k
        <4> QED
          BY <2>1, <2>4 DEF Walk, q
      <3>2. TransferAt(room[m].chain)' = k + 1
        BY <2>4 DEF TransferAt
      <3> QED
        BY <2>2, <2>4, <3>1, <3>2, <1>3, <1>4 DEF ChainGood
    <2>6. OwnerGood(m, room[m])'
      <3>1. q.owner \in Named' /\ q.owner # m /\ q.owner # NoOne /\ q.chain # << >>
        BY <2>4, <1>2, <1>4, <1>8, RoomAssumption
      <3>2. q.pin # NoOne => q.pin = Founder \/ \E i \in 1..Len(q.chain) : q.chain[i].new = q.pin
        BY <2>3, <2>4
      <3> QED
        BY <3>1, <3>2, <2>4 DEF OwnerGood
    <2>7. BansGood(m, room[m])'
      <3>1. SnapGood(q.snap) /\ n \notin q.bans /\ n # NoOne
        BY <2>4, <1>2, <1>5, RoomAssumption DEF Good, BansGood
      <3> QED
        BY <3>1, <2>4 DEF BansGood, SnapGood
    <2> QED
      BY <2>4, <2>5, <2>6, <2>7 DEF Good
  <1>13. ASSUME NEW x \in Member, x # m PROVE Good(x, room[x])'
    <2> DEFINE s == room[x]
    <2>1. Good(x, s) /\ s.owner # x /\ room'[x] = s
      BY <1>2, <1>10, <1>13, OwnerIsHolder DEF IInv
    <2> HIDE DEF s
    <2>2. /\ Walk(s.chain) /\ Len(s.chain) \in Nat
          /\ Walk(room[x].chain)'
      <3>1. Walk(s.chain)
        BY <2>1 DEF Good, ChainGood
      <3>2. \A c : Walk(c) => Walk(c)' /\ Len(c) \in Nat
        BY <1>4
      <3> QED
        BY <3>1, <3>2, <2>1 DEF Walk
    <2>3. \A i \in 1..Len(s.chain) : s.chain[i] # l
      BY <2>2, <1>3 DEF Walk, IInv, LineGood
    <2> USE DEF Good
    <2>4. /\ \A i \in 1..Len(s.chain) : s.chain[i] \in early' => s.chain[i].by = x
          /\ \A i \in 1..(k + 1) : links'[i].by = x => i <= TransferAt(s.chain)
      <3>1. \A i \in 1..Len(s.chain) : s.chain[i] \in early' => s.chain[i].by = x
        BY <2>1, <2>3, <1>1 DEF ChainGood
      <3>2. ASSUME NEW i \in 1..(k + 1), links'[i].by = x PROVE i <= TransferAt(s.chain)
        <4>1. i # k + 1
          BY <3>2, <1>3, <1>4, <1>13
        <4>2. i \in 1..k
          BY <4>1, <1>3
        <4> QED
          BY <4>2, <3>2, <2>1, <1>4 DEF ChainGood
      <3> QED
        BY <3>1, <3>2
    <2>5. x \in Named' => s.in /\ s.owner # NoOne
      <3>1. CASE x = n
        BY <3>1, <1>2 DEF s
      <3>2. CASE x # n
        BY <3>2, <2>1, <1>4 DEF OwnerGood
      <3> QED
        BY <3>1, <3>2
    <2>6. /\ s.owner \in Named' \union {NoOne}
          /\ s.chain # << >> => s.owner = s.chain[Len(s.chain)].new
          /\ s.pin # NoOne =>
               IF s.chain = << >> THEN s.owner \in {NoOne, s.pin}
               ELSE s.pin = Founder \/ \E i \in 1..Len(s.chain) : s.chain[i].new = s.pin
      BY <2>1, <1>4 DEF OwnerGood, ChainGood
    <2>7. BansGood(x, s) /\ s \in Room
      BY <2>1
    <2>8. ChainGood(x, room[x])'
      BY <2>1, <2>2, <2>4, <2>6, <1>4 DEF ChainGood
    <2>9. OwnerGood(x, room[x])'
      BY <2>1, <2>5, <2>6 DEF OwnerGood
    <2>10. BansGood(x, room[x])'
      BY <2>1, <2>7, <1>1 DEF BansGood
    <2> QED
      BY <2>1, <2>7, <2>8, <2>9, <2>10
  <1>14. ASSUME NEW g \in net' PROVE FrameGood(g)'
    <2>1. CASE g = f
      BY <2>1, <1>3, <1>4, <1>6 DEF FrameGood, SnapGood
    <2>2. CASE g # f
      <3>1. FrameGood(g)
        BY <2>2, <1>1, SentFacts DEF IInv
      <3>2. \A h : Walk(h) => Walk(h)'
        BY <1>4
      <3>3. \A i \in 1..k : i \in 1..(k + 1) /\ links'[i] = links[i]
        BY <1>3, <1>4
      <3> HIDE DEF k
      <3> QED
        BY <3>1, <3>2, <3>3, <1>4 DEF FrameGood, SnapGood, k
    <2> QED
      BY <2>1, <2>2
  <1>15. IInv'
    BY <1>10, <1>11, <1>12, <1>13, <1>14 DEF IInv
  <1> QED
    <2>1. TransferAt(room[m].chain) = k
      BY <1>2, OwnerIsHolder
    <2> HIDE DEF k
    <2> QED
      BY <2>1, <1>1, <1>2, <1>8, <1>9, <1>10, <1>15 DEF l, k

-----------------------------------------------------------------------------
(* The line of owners *)

\* The owners are the founder and whoever the links name.
LEMMA OwnersFacts ==
    ASSUME LineGood
    PROVE  /\ Owners \in Seq(Member) /\ Len(Owners) = Len(links) + 1 /\ Len(links) \in Nat
           /\ Owners[1] = Founder
           /\ \A i \in 1..Len(links) : Owners[i + 1] = links[i].new
           /\ \A id : id \in Named <=> \E i \in 1..Len(Owners) : Owners[i] = id
  <1> DEFINE k == Len(links)
             names == [i \in 1..k |-> links[i].new]
  <1>1. DOMAIN links = 1..k /\ k \in Nat
    BY LenProperties DEF LineGood
  <1>2. \A i \in 1..k : links[i].new \in Member
    BY NamedFacts DEF Link
  <1>3. Owners = <<Founder>> \o names
    BY <1>1 DEF Owners
  <1> HIDE DEF k
  <1>4. names \in Seq(Member) /\ Len(names) = k /\ \A i \in 1..k : names[i] = links[i].new
    BY <1>1, <1>2
  <1>5. <<Founder>> \in Seq(Member) /\ Len(<<Founder>>) = 1 /\ <<Founder>>[1] = Founder
    BY RoomAssumption
  <1> DEFINE first == <<Founder>>
  <1> HIDE DEF names, first
  <1>6. /\ first \o names \in Seq(Member) /\ Len(first \o names) = 1 + k
        /\ \A i \in 1..(1 + k) : (first \o names)[i] = IF i <= 1 THEN first[i] ELSE names[i - 1]
    BY <1>4, <1>5, ConcatProperties DEF first
  <1>7. /\ Owners \in Seq(Member) /\ Len(Owners) = k + 1 /\ Owners[1] = Founder
        /\ \A i \in 1..k : Owners[i + 1] = links[i].new
    BY <1>1, <1>3, <1>4, <1>5, <1>6 DEF first
  <1>8. ASSUME NEW id PROVE id \in Named <=> \E i \in 1..(k + 1) : Owners[i] = id
    <2>1. id \in Named <=> id = Founder \/ \E i \in 1..k : links[i].new = id
      BY <1>1 DEF Named
    <2>2. ASSUME NEW i \in 1..k PROVE i + 1 \in 1..(k + 1)
      BY <1>1
    <2>3. ASSUME NEW i \in 1..(k + 1), i # 1 PROVE i - 1 \in 1..k /\ (i - 1) + 1 = i
      BY <1>1, <2>3
    <2>4. 1 \in 1..(k + 1)
      BY <1>1
    <2> QED
      BY <1>7, <2>1, <2>2, <2>3, <2>4
  <1> QED
    BY <1>1, <1>7, <1>8 DEF k

LEMMA OwnersFactsNext ==
    (LineGood => /\ Owners \in Seq(Member) /\ Len(Owners) = Len(links) + 1
                 /\ Owners[1] = Founder
                 /\ \A i \in 1..Len(links) : Owners[i + 1] = links[i].new)'
  <1>1. LineGood => /\ Owners \in Seq(Member) /\ Len(Owners) = Len(links) + 1
                    /\ Owners[1] = Founder
                    /\ \A i \in 1..Len(links) : Owners[i + 1] = links[i].new
    BY OwnersFacts
  <1> QED
    BY <1>1, PTL

LEMMA LineInitHolds ==
    ASSUME Init
    PROVE  Line!LineInit
  <1>1. /\ IInv /\ links = << >>
        /\ \A m \in Member : /\ room[m].chain = << >>
                             /\ room[m].owner = IF m = Founder THEN Founder ELSE NoOne
    BY InitGood
  <1>2. Owners = <<Founder>>
    <2>1. Owners \in Seq(Member) /\ Len(Owners) = 1 /\ Owners[1] = Founder
      <3>1. Len(links) = 0
        BY <1>1
      <3> QED
        BY <3>1, <1>1, OwnersFacts DEF IInv
    <2>2. <<Founder>> \in Seq(Member) /\ Len(<<Founder>>) = 1 /\ <<Founder>>[1] = Founder
      BY RoomAssumption
    <2> QED
      BY <2>1, <2>2, SeqEqual
  <1> QED
    BY <1>1, <1>2 DEF Line!LineInit, TransferAt

\* What a member hears is to learn, to trust, to forget, or nothing that matters.
LEMMA StepOfLearns ==
    ASSUME IInv, IInv', NEW m \in Member, StepOf(m)
    PROVE  Line!Learn(m) \/ UNCHANGED Line!lineVars
  <1> DEFINE r == room[m]
             w == room'[m]
             d == TransferAt(w.chain)
             owner == [x \in Member |-> room[x].owner]
             proved == [x \in Member |-> TransferAt(room[x].chain)]
  <1>1. /\ links' = links /\ Named' = Named /\ Owners' = Owners
        /\ \A x \in Member \ {m} : room'[x].owner = room[x].owner /\ room'[x].chain = room[x].chain
    BY DEF StepOf, Named, Owners
  <1>2. LineGood /\ Walk(r.chain) /\ Walk(w.chain)
    BY <1>1 DEF IInv, Good, ChainGood, Walk
  <1>3. /\ TransferAt(r.chain) \in Nat /\ d \in Nat /\ Len(links) \in Nat /\ d <= Len(links)
        /\ w.chain = << >> => d = 0
        /\ w.chain # << >> => w.chain[Len(w.chain)] = links[d]
    BY <1>2, DateFacts
  <1>4. /\ w.owner \in Named \union {NoOne}
        /\ w.owner = m => d = Len(links)
        /\ w.chain # << >> => w.owner = w.chain[Len(w.chain)].new
        /\ m \in Named => r.owner # NoOne
    BY <1>1 DEF IInv, Good, ChainGood, OwnerGood, TransferAt
  <1>5. /\ Len(Owners) = Len(links) + 1
        /\ \A i \in 1..Len(links) : Owners[i + 1] = links[i].new
        /\ \A id : id \in Named <=> \E i \in 1..Len(Owners) : Owners[i] = id
    BY OwnersFacts DEF IInv
  <1>6. /\ owner' = [owner EXCEPT ![m] = owner'[m]] /\ owner'[m] = w.owner /\ owner[m] = r.owner
        /\ proved' = [proved EXCEPT ![m] = proved'[m]] /\ proved'[m] = d
        /\ proved[m] = TransferAt(r.chain)
    BY <1>1 DEF TransferAt
  <1>7. CASE d > TransferAt(r.chain)
    <2>1. d \in 1..Len(links) /\ w.chain # << >>
      BY <1>3, <1>7
    <2>2. d \in (proved[m] + 1)..(Len(Owners) - 1)
      BY <1>3, <1>5, <1>6, <1>7
    <2>3. w.owner = Owners[d + 1]
      BY <2>1, <1>3, <1>4, <1>5
    <2>4. Owners[d + 1] = m => d + 1 = Len(Owners)
      BY <2>3, <1>4, <1>5
    <2> HIDE DEF d, owner, proved, r, w
    <2>5. Line!Learns(m)
      BY <2>2, <2>3, <2>4, <1>6 DEF Line!Learns, owner, proved
    <2> QED
      BY <2>5, <1>1, <1>6 DEF Line!Learn, owner, proved
  <1>8. CASE d = TransferAt(r.chain) /\ w.owner = r.owner
    <2>1. owner' = owner /\ proved' = proved
      BY <1>1, <1>8 DEF TransferAt
    <2> QED
      BY <2>1, <1>1 DEF Line!lineVars
  <1>9. CASE d = TransferAt(r.chain) /\ r.owner = NoOne /\ w.owner # r.owner
    <2>1. w.owner # m /\ w.owner \in Named
      BY <1>4, <1>9
    <2>2. \E i \in 1..Len(Owners) : Owners[i] # m /\ w.owner = Owners[i]
      BY <2>1, <1>5
    <2> HIDE DEF owner, proved
    <2>3. Line!Trusts(m)
      BY <2>2, <1>6, <1>9 DEF Line!Trusts, owner, proved
    <2> QED
      BY <2>3, <1>1, <1>6 DEF Line!Learn, owner, proved
  <1>10. CASE m \notin Named /\ w.owner = NoOne /\ w.chain = << >>
    <2>1. (\A i \in 1..Len(Owners) : Owners[i] # m) /\ d = 0
      BY <1>3, <1>5, <1>10
    <2> HIDE DEF owner, proved
    <2>2. Line!Forgets(m)
      BY <2>1, <1>6, <1>10 DEF Line!Forgets, owner, proved
    <2> QED
      BY <2>2, <1>1, <1>6 DEF Line!Learn, owner, proved
  <1> QED
    BY <1>7, <1>8, <1>9, <1>10 DEF StepOf, Moves

LEMMA TransferHandsOver ==
    ASSUME IInv, NEW m \in Member, NEW n \in Member, NEW ahead \in BOOLEAN,
           Transfer(m, n, ahead)
    PROVE  IInv' /\ Line!HandOver(m, n)
  <1> DEFINE owner == [x \in Member |-> room[x].owner]
             proved == [x \in Member |-> TransferAt(room[x].chain)]
             k == Len(links)
  <1>1. /\ IInv'
        /\ links' = Append(links, LinkTo(m, n)) /\ m # n
        /\ room[m].owner = m /\ TransferAt(room[m].chain) = k
        /\ room'[m].owner = n /\ TransferAt(room'[m].chain) = k + 1
        /\ \A x \in Member \ {m} : room'[x] = room[x]
    BY TransferStep
  <1>2. LinkTo(m, n) \in Link /\ LinkTo(m, n).new = n
    BY LinkToGood DEF Transfer
  <1>3. /\ Owners \in Seq(Member) /\ Len(Owners) = k + 1 /\ k \in Nat /\ Owners[1] = Founder
        /\ \A i \in 1..k : Owners[i + 1] = links[i].new
    BY OwnersFacts DEF IInv
  <1>4. /\ Owners' \in Seq(Member) /\ Len(Owners') = k + 2 /\ Owners'[1] = Founder
        /\ \A i \in 1..(k + 1) : Owners'[i + 1] = links'[i].new
    <2>1. Len(links') = k + 1
      BY <1>1, <1>2, LineGrows
    <2>2. /\ Owners' \in Seq(Member) /\ Len(Owners') = Len(links') + 1 /\ Owners'[1] = Founder
          /\ \A i \in 1..Len(links') : Owners'[i + 1] = links'[i].new
      <3>1. LineGood'
        BY <1>1 DEF IInv
      <3> QED
        BY <3>1, OwnersFactsNext
    <2> QED
      BY <2>1, <2>2, <1>3
  <1>5. Owners' = Append(Owners, n)
    <2>1. /\ Append(Owners, n) \in Seq(Member) /\ Len(Append(Owners, n)) = k + 2
          /\ Append(Owners, n)[k + 2] = n
          /\ \A i \in 1..(k + 1) : Append(Owners, n)[i] = Owners[i]
      BY <1>3, AppendProperties
    <2>2. links'[k + 1] = LinkTo(m, n) /\ \A i \in 1..k : links'[i] = links[i]
      BY <1>1, <1>2, LineGrows
    <2> HIDE DEF k
    <2>3. ASSUME NEW i \in 1..(k + 2) PROVE Owners'[i] = Append(Owners, n)[i]
      <3>1. CASE i = 1
        BY <3>1, <2>1, <1>3, <1>4
      <3>2. CASE i = k + 2
        <4>1. k + 1 \in 1..(k + 1) /\ (k + 1) + 1 = k + 2
          BY <1>3
        <4> QED
          BY <4>1, <3>2, <2>1, <2>2, <1>2, <1>4
      <3>3. CASE i # 1 /\ i # k + 2
        <4>1. i - 1 \in 1..k /\ i - 1 \in 1..(k + 1) /\ i \in 1..(k + 1) /\ (i - 1) + 1 = i
          BY <3>3, <1>3
        <4> QED
          BY <4>1, <2>1, <2>2, <1>3, <1>4
      <3> QED
        BY <3>1, <3>2, <3>3
    <2> QED
      BY <2>1, <2>3, <1>4, SeqEqual
  <1>6. owner' = [owner EXCEPT ![m] = n] /\ owner[m] = m
    BY <1>1
  <1>7. proved' = [proved EXCEPT ![m] = Len(Owners)] /\ proved[m] = Len(Owners) - 1
    <2>1. proved' = [proved EXCEPT ![m] = k + 1] /\ proved[m] = k
      <3> HIDE DEF k
      <3> QED
        BY <1>1 DEF TransferAt
    <2> HIDE DEF proved, k
    <2> QED
      BY <2>1, <1>3
  <1> QED
    BY <1>1, <1>5, <1>6, <1>7 DEF Line!HandOver

LEMMA QuietStutters ==
    ASSUME UNCHANGED <<room, links>>
    PROVE  UNCHANGED Line!lineVars
  BY DEF Line!lineVars, Owners

LEMMA StepHolds ==
    ASSUME IInv, [Next]_vars
    PROVE  IInv' /\ [Line!LineNext]_(Line!lineVars)
  <1> DEFINE told == IInv' /\ [Line!LineNext]_(Line!lineVars)
  <1>1. ASSUME NEW m \in Member, IInv', StepOf(m) PROVE told
    <2>1. Line!Learn(m) \/ UNCHANGED Line!lineVars
      BY <1>1, StepOfLearns
    <2> QED
      BY <1>1, <2>1 DEF Line!LineNext
  <1>2. ASSUME IInv', UNCHANGED <<room, links>> PROVE told
    BY <1>2, QuietStutters
  <1> HIDE DEF told
  <1>3. ASSUME NEW m \in Member, NEW i \in Member, NEW pin \in Id, Join(m, i, pin) PROVE told
    BY <1>1, <1>3, JoinGood
  <1>4. ASSUME NEW m \in Member, NEW i \in Member, PinInvite(m, i) PROVE told
    BY <1>1, <1>4, PinInviteGood
  <1>5. ASSUME NEW m \in Member, NEW n \in Member, NEW ahead \in BOOLEAN, Transfer(m, n, ahead)
        PROVE  told
    BY <1>5, TransferHandsOver DEF told, Line!LineNext
  <1>6. ASSUME NEW m \in Member, NEW x \in Member, NEW heard \in BOOLEAN, Kick(m, x, heard)
        PROVE  told
    BY <1>1, <1>6, KickGood
  <1>7. ASSUME NEW m \in Member, Restart(m) PROVE told
    BY <1>1, <1>7, RestartGood
  <1>8. ASSUME NEW m \in Member, NEW n \in Member, Greet(m, n) PROVE told
    BY <1>1, <1>8, GreetGood
  <1>9. ASSUME NEW m \in Member, NEW n \in Member, Ping(m, n) PROVE told
    BY <1>1, <1>9, PingGood
  <1>10. ASSUME NEW m \in Member, Rotate(m) PROVE told
    BY <1>1, <1>10, RotateGood
  <1>11. ASSUME NEW m \in Member, Linger(m) PROVE told
    BY <1>2, <1>11, LingerGood DEF Linger
  <1>12. ASSUME NEW n \in Member, NEW f \in net, Deliver(n, f) PROVE told
    BY <1>1, <1>12, DeliverGood
  <1>13. ASSUME NEW f \in net, Drop(f) PROVE told
    BY <1>2, <1>13, DropGood DEF Drop
  <1>14. ASSUME TimePasses PROVE told
    BY <1>2, <1>14, TimePassesGood DEF TimePasses
  <1>15. ASSUME UNCHANGED vars PROVE told
    <2>1. IInv'
      BY <1>15, QuietGood DEF vars, IInv
    <2> QED
      BY <1>2, <1>15, <2>1 DEF vars
  <1>16. ASSUME Users PROVE told
    BY <1>3, <1>4, <1>5, <1>6, <1>7, <1>16 DEF Users
  <1>17. ASSUME Gossip PROVE told
    BY <1>8, <1>9, <1>10, <1>11, <1>12, <1>13, <1>14, <1>17 DEF Gossip
  <1>18. told
    BY <1>15, <1>16, <1>17 DEF Next
  <1> QED
    BY <1>18 DEF told

LEMMA Invariance == Spec => []IInv
  <1>1. Init => IInv
    BY InitGood
  <1>2. IInv /\ [Next]_vars => IInv'
    BY StepHolds
  <1> QED
    BY <1>1, <1>2, PTL DEF Spec

-----------------------------------------------------------------------------
(* The theorems *)

\* The state has its types, and a chain never grows past the cap.
THEOREM TypeCorrect == Spec => []TypeOK
  <1>1. IInv => TypeOK
    <2> SUFFICES ASSUME IInv PROVE TypeOK
      OBVIOUS
    <2>1. \A m \in Member : Len(room[m].chain) <= Limit
      BY DEF IInv, Good, ChainGood, Walk
    <2>2. net \subseteq Hello \union Transferred \union Rekey
      BY DEF IInv, FrameGood
    <2> QED
      BY <2>1, <2>2 DEF TypeOK, IInv, LineGood
  <1> QED
    BY <1>1, Invariance, PTL

\* There is one owner at any moment: docs/rooms-ownership-transfer.md.
THEOREM OneOwner == Spec => []SoleOwner
  BY Invariance, SoleOwnerHolds, PTL

\* The timer of a removal fires at the owner.
THEOREM RemovalByOwner == Spec => []KickByOwner
  <1>1. IInv => KickByOwner
    BY DEF IInv, Good, BansGood, KickByOwner
  <1> QED
    BY <1>1, Invariance, PTL

\* Nobody believes in an owner that it takes for removed.
THEOREM OwnerNotBanned == Spec => []NoBannedOwner
  <1>1. IInv => NoBannedOwner
    BY DEF IInv, Good, BansGood, NoBannedOwner
  <1> QED
    BY <1>1, Invariance, PTL

\* The gossip of chains, claims and handovers implements the one line of owners.
THEOREM Implements == Spec => ImplementsOwnerLine
  <1>1. Init => Line!LineInit
    BY LineInitHolds
  <1>2. IInv /\ [Next]_vars => [Line!LineNext]_(Line!lineVars)
    BY StepHolds
  <1> QED
    BY <1>1, <1>2, Invariance, PTL DEF Spec, ImplementsOwnerLine, Line!LineSpec
=============================================================================
