-------------------------- MODULE RoomFiles_proofs --------------------------
(***************************************************************************)
(* Proofs about RoomFiles, for every set of members, every skew of the     *)
(* clocks and every bound.                                                 *)
(*                                                                         *)
(* The argument: what a member knows of the file is sound (Sound) - what   *)
(* is listed is not removed, proof goes with a removal, and the store      *)
(* never knows less than the engine, so that a restart forgets no proven   *)
(* removal - and every frame and copy carries a revival that was signed.   *)
(* Each helper keeps that, and none lifts or overrules more than Lawful    *)
(* allows.                                                                 *)
(***************************************************************************)
EXTENDS RoomFiles, TLAPS

\* What m's dates are compared with: none of its copies is dated after t.
Sound(r, t, signed) ==
    /\ r \in Room
    /\ \A c, d \in r.copies : c = d
    /\ \A c, d \in r.pending : c = d
    /\ r.copies # {} => r.tomb = Never
    /\ r.tomb = Never => r.proof = NoOne
    /\ r.tomb # Never => r.kept >= r.tomb
    /\ r.copies = {} /\ r.tomb = Never => r.kept = Never
    /\ \A c \in r.copies : r.kept # Never => c.at <= r.kept
    /\ \A c \in r.copies : c.at <= t
    /\ \A c \in r.copies : c.rev = NoRevival \/ c.rev \in signed

\* What may become of r where x is the owner.
Lawful(x, r, s, signed) ==
    /\ r.proof # NoOne /\ s.tomb = Never =>
          \E rev \in signed : rev.at >= r.tomb /\ rev.by \in {x, r.proof}
    /\ r.copies # {} /\ s.proof # NoOne => s.tomb > r.guard

\* The inductive invariant.
IInv ==
    /\ owner \in [Member -> {Founder, Heir}]
    /\ now \in 1..MaxTime
    /\ net \subseteq Add \union Del
    /\ revivals \subseteq Revival
    /\ room \in [Member -> Room]
    /\ \A m \in Member : Sound(room[m], Date(m), revivals)
    /\ \A f \in net : f.kind = "add" => f.copy.rev = NoRevival \/ f.copy.rev \in revivals

-----------------------------------------------------------------------------
(* Dates and signatures *)

\* Instants are natural numbers, and Never comes before them.
LEMMA Times ==
    /\ \A t \in Time : t \in Nat /\ t # Never /\ t >= t /\ t <= t
    /\ \A t \in Time \union {Never} : t \in Nat
    /\ Never = 0
    /\ NoRevival.by = NoOne
  BY FilesAssumption DEF Time, Never, NoRevival

\* The later and the earlier of two instants are such.
LEMMA Larger ==
    ASSUME NEW s \in Time, NEW t \in Time \union {Never}
    PROVE  Later(s, t) \in Time /\ Later(s, t) >= s /\ Later(s, t) >= t
             /\ Later(s, t) \in {s, t}
  BY Times DEF Later

LEMMA Smaller ==
    ASSUME NEW s \in Time, NEW t \in Time
    PROVE  Earlier(s, t) \in Time /\ Earlier(s, t) <= t
  BY Times DEF Earlier

\* What a member takes for the time is an instant, and does not go back.
LEMMA Dates ==
    ASSUME NEW m \in Member, now \in 1..MaxTime
    PROVE  Date(m) \in Time
  BY FilesAssumption DEF Date, Time

\* A constant lead changes no order.
LEMMA Ahead ==
    ASSUME NEW l \in Nat, NEW t \in Nat, NEW x \in 1..t, NEW y \in 1..t, y >= x
    PROVE  y + l \in 1..(t + l) /\ y + l >= x + l
  <1>1. x \in Int /\ y \in Int /\ 1 <= y /\ y <= t
    OBVIOUS
  <1> QED  BY <1>1

LEMMA DatesGrow ==
    ASSUME NEW m \in Member, now \in 1..MaxTime, now' \in 1..MaxTime, now' >= now
    PROVE  Date(m)' \in Time /\ Date(m)' >= Date(m)
  <1>1. MaxTime \in Nat /\ Lead \in Nat
    BY FilesAssumption
  <1>2. CASE m \in Fast
    <2>1. Date(m) = now + Lead
      BY <1>2 DEF Date
    <2>2. Date(m)' = now' + Lead
      BY <1>2 DEF Date
    <2>3. now' + Lead \in 1..(MaxTime + Lead) /\ now' + Lead >= now + Lead
      BY <1>1, Ahead
    <2>4. Date(m)' \in 1..(MaxTime + Lead) /\ Date(m)' >= Date(m)
      BY <2>1, <2>2, <2>3
    <2> QED  BY <2>4 DEF Time
  <1>3. CASE m \notin Fast
    <2>1. Date(m) = now
      BY <1>3 DEF Date
    <2>2. Date(m)' = now'
      BY <1>3 DEF Date
    <2> QED  BY <1>1, <2>1, <2>2 DEF Time
  <1> QED  BY <1>2, <1>3

-----------------------------------------------------------------------------
(* The helpers, field by field *)

LEMMA BuriedFacts ==
    ASSUME NEW r \in Room, NEW at \in Time
    PROVE  /\ Outranks(r, at) =>
                /\ Buried(r, at) \in Room
                /\ Buried(r, at).copies = {}
                /\ Buried(r, at).tomb = Later(at, r.tomb)
                /\ Buried(r, at).kept = r.kept
                /\ Buried(r, at).proof = r.proof
                /\ Buried(r, at).pending = r.pending
           /\ ~Outranks(r, at) => Buried(r, at) = r
  <1>1. Later(at, r.tomb) \in Time \union {Never}
    BY Larger DEF Room
  <1>2. CASE Outranks(r, at)
    <2>1. Buried(r, at) = [r EXCEPT !.copies = {}, !.guard = Never, !.tomb = Later(at, r.tomb)]
      BY <1>2 DEF Buried, Room
    <2>2. Buried(r, at) = [copies |-> {}, tomb |-> Later(at, r.tomb), kept |-> r.kept,
                           proof |-> r.proof, guard |-> Never, pending |-> r.pending]
      BY <2>1 DEF Room
    <2> QED  BY <2>2, <1>1, <1>2 DEF Room
  <1>3. CASE ~Outranks(r, at)
    BY <1>3 DEF Buried
  <1> QED  BY <1>2, <1>3

LEMMA ProvenFacts ==
    ASSUME NEW r \in Room, NEW d \in Removal
    PROVE  /\ r.tomb = d.at =>
                /\ Proven(r, d) \in Room
                /\ Proven(r, d).copies = r.copies
                /\ Proven(r, d).tomb = r.tomb
                /\ Proven(r, d).kept = Later(d.at, r.kept)
                /\ Proven(r, d).proof = d.by
                /\ Proven(r, d).pending = r.pending
           /\ r.tomb # d.at => Proven(r, d) = r
  <1>1. d.at \in Time /\ d.by \in Id /\ Later(d.at, r.kept) \in Time \union {Never}
    BY Larger DEF Room, Removal, Id
  <1>2. CASE r.tomb = d.at
    <2>1. Proven(r, d) = [copies |-> r.copies, tomb |-> r.tomb, kept |-> Later(d.at, r.kept),
                          proof |-> d.by, guard |-> r.guard, pending |-> r.pending]
      BY <1>2 DEF Proven, Room
    <2> QED  BY <2>1, <1>1, <1>2 DEF Room
  <1>3. CASE r.tomb # d.at
    BY <1>3 DEF Proven
  <1> QED  BY <1>2, <1>3

LEMMA ClearedFacts ==
    ASSUME NEW r \in Room
    PROVE  /\ Cleared(r) \in Room
           /\ Cleared(r).copies = r.copies
           /\ Cleared(r).tomb = Never
           /\ Cleared(r).kept = IF r.tomb = Never THEN r.kept ELSE Never
           /\ Cleared(r).proof = NoOne
           /\ Cleared(r).pending = r.pending
  <1> DEFINE k == IF r.tomb = Never THEN r.kept ELSE Never
  <1>1. Cleared(r) = [copies |-> r.copies, tomb |-> Never, kept |-> k,
                      proof |-> NoOne, guard |-> r.guard, pending |-> r.pending]
    <2>1. Cleared(r) = [r EXCEPT !.tomb = Never, !.proof = NoOne, !.kept = k]
      BY DEF Cleared
    <2> HIDE DEF k
    <2> QED  BY <2>1 DEF Room
  <1>2. NoOne \in Id
    BY DEF Id
  <1> QED  BY <1>1, <1>2 DEF Room

LEMMA GuardedFacts ==
    ASSUME NEW r \in Room, NEW at \in Time \union {Never}
    PROVE  /\ Guarded(r, at) \in Room
           /\ Guarded(r, at).copies = r.copies
           /\ Guarded(r, at).tomb = r.tomb
           /\ Guarded(r, at).kept = r.kept
           /\ Guarded(r, at).proof = r.proof
           /\ Guarded(r, at).pending = r.pending
  <1>1. Later(at, r.guard) \in Time \union {Never}
    BY DEF Later, Room
  <1>2. Guarded(r, at) = [copies |-> r.copies, tomb |-> r.tomb, kept |-> r.kept,
                          proof |-> r.proof, guard |-> Later(at, r.guard), pending |-> r.pending]
    BY DEF Guarded, Room
  <1> QED  BY <1>1, <1>2 DEF Room

LEMMA ListedFacts ==
    ASSUME NEW r \in Room, NEW c \in Copy
    PROVE  /\ Listed(r, c) \in Room
           /\ Listed(r, c).copies = IF r.copies = {} THEN {c} ELSE r.copies
           /\ Listed(r, c).tomb = r.tomb
           /\ Listed(r, c).kept = r.kept
           /\ Listed(r, c).proof = r.proof
           /\ Listed(r, c).pending = r.pending
  <1>1. CASE r.copies = {}
    <2>1. Listed(r, c) = [copies |-> {c}, tomb |-> r.tomb, kept |-> r.kept,
                          proof |-> r.proof, guard |-> r.guard, pending |-> r.pending]
      BY <1>1 DEF Listed, Holds, Room
    <2> QED  BY <2>1, <1>1 DEF Room
  <1>2. CASE r.copies # {}
    BY <1>2 DEF Listed, Holds
  <1> QED  BY <1>1, <1>2

\* A change of what is pending changes nothing else.
LEMMA PendingFacts ==
    ASSUME NEW r \in Room, NEW p \in SUBSET Removal
    PROVE  LET s == [r EXCEPT !.pending = p]
           IN  /\ s \in Room
               /\ s.copies = r.copies /\ s.tomb = r.tomb /\ s.kept = r.kept
               /\ s.proof = r.proof /\ s.guard = r.guard /\ s.pending = p
  BY DEF Room

-----------------------------------------------------------------------------
(* The helpers keep what is sound *)

\* Time passes and more is signed.
LEMMA SoundGrows ==
    ASSUME NEW r, NEW t \in Time, NEW u \in Time, u >= t, NEW sg, NEW sh, sg \subseteq sh,
           Sound(r, t, sg)
    PROVE  Sound(r, u, sh)
  <1>1. \A c \in r.copies : c.at <= u
    <2> TAKE c \in r.copies
    <2>1. c.at \in Time /\ c.at <= t
      BY DEF Sound, Room, Copy
    <2>2. c.at \in Nat /\ t \in Nat /\ u \in Nat
      BY <2>1, Times
    <2> QED  BY <2>1, <2>2
  <1>2. \A c \in r.copies : c.rev = NoRevival \/ c.rev \in sh
    BY DEF Sound
  <1> QED  BY <1>1, <1>2 DEF Sound

LEMMA ListedSound ==
    ASSUME NEW r, NEW t \in Time, NEW sg, Sound(r, t, sg), r.tomb = Never,
           NEW c \in Copy, c.at <= t, c.rev = NoRevival \/ c.rev \in sg
    PROVE  Sound(Listed(r, c), t, sg)
  <1> DEFINE s == Listed(r, c)
  <1>1. /\ s \in Room
        /\ s.copies = IF r.copies = {} THEN {c} ELSE r.copies
        /\ s.tomb = Never
        /\ s.kept = r.kept
        /\ s.proof = r.proof
        /\ s.pending = r.pending
    BY ListedFacts DEF Sound
  <1> HIDE DEF s
  <1>2. ASSUME r.copies = {} PROVE Sound(s, t, sg)
    <2>1. s.copies = {c} /\ s.kept = Never
      BY <1>1, <1>2 DEF Sound
    <2> QED  BY <1>1, <2>1 DEF Sound
  <1>3. ASSUME r.copies # {} PROVE Sound(s, t, sg)
    <2>1. s.copies = r.copies
      BY <1>1, <1>3
    <2> QED  BY <1>1, <2>1, <1>3 DEF Sound
  <1>4. Sound(s, t, sg)
    BY <1>2, <1>3
  <1> QED  BY <1>4 DEF s

LEMMA ClearedSound ==
    ASSUME NEW r, NEW t \in Time, NEW sg, Sound(r, t, sg)
    PROVE  Sound(Cleared(r), t, sg)
  <1> DEFINE s == Cleared(r)
  <1>1. /\ s \in Room
        /\ s.copies = r.copies
        /\ s.tomb = Never
        /\ s.kept = IF r.tomb = Never THEN r.kept ELSE Never
        /\ s.proof = NoOne
        /\ s.pending = r.pending
    BY ClearedFacts DEF Sound
  <1> HIDE DEF s
  <1>2. Sound(s, t, sg)
    BY <1>1 DEF Sound
  <1> QED  BY <1>2 DEF s

LEMMA GuardedSound ==
    ASSUME NEW r, NEW t \in Time, NEW sg, Sound(r, t, sg), NEW at \in Time \union {Never}
    PROVE  Sound(Guarded(r, at), t, sg)
  <1> DEFINE s == Guarded(r, at)
  <1>1. /\ s \in Room
        /\ s.copies = r.copies
        /\ s.tomb = r.tomb
        /\ s.kept = r.kept
        /\ s.proof = r.proof
        /\ s.pending = r.pending
    BY GuardedFacts DEF Sound
  <1> HIDE DEF s
  <1>2. Sound(s, t, sg)
    BY <1>1 DEF Sound
  <1> QED  BY <1>2 DEF s

LEMMA PendingSound ==
    ASSUME NEW r, NEW t \in Time, NEW sg, Sound(r, t, sg),
           NEW p \in SUBSET Removal, \A c, d \in p : c = d
    PROVE  Sound([r EXCEPT !.pending = p], t, sg)
  <1> DEFINE s == [r EXCEPT !.pending = p]
  <1>1. /\ s \in Room
        /\ s.copies = r.copies /\ s.tomb = r.tomb /\ s.kept = r.kept
        /\ s.proof = r.proof /\ s.guard = r.guard /\ s.pending = p
    BY PendingFacts DEF Sound
  <1> HIDE DEF s
  <1>2. Sound(s, t, sg)
    BY <1>1 DEF Sound
  <1> QED  BY <1>2 DEF s

\* A proven removal, applied: it takes away only what is not guarded against it, and
\* lifts nothing.
LEMMA BuriedProven ==
    ASSUME NEW r, NEW t \in Time, NEW sg, Sound(r, t, sg), NEW d \in Removal
    PROVE  LET s == Proven(Buried(r, d.at), d)
           IN  /\ Sound(s, t, sg)
               /\ r.tomb # Never => s.tomb # Never
               /\ r.copies # {} /\ s.proof # NoOne => s.tomb > r.guard
  <1> DEFINE b == Buried(r, d.at)
             s == Proven(b, d)
  <1>1. r \in Room /\ d.at \in Time /\ d.by \in Member
    BY DEF Sound, Removal
  <1>2. CASE Outranks(r, d.at)
    <2>1. /\ b \in Room /\ b.copies = {} /\ b.tomb = Later(d.at, r.tomb)
          /\ b.kept = r.kept /\ b.proof = r.proof /\ b.pending = r.pending
      BY <1>1, <1>2, BuriedFacts
    <2>2. /\ b.tomb = d.at => s \in Room /\ s.copies = {} /\ s.tomb = d.at
                             /\ s.kept = Later(d.at, r.kept) /\ s.proof = d.by
                             /\ s.pending = r.pending
          /\ b.tomb # d.at => s = b
      BY <2>1, ProvenFacts
    <2>3. /\ Later(d.at, r.tomb) \in Time /\ Later(d.at, r.tomb) \in {d.at, r.tomb}
          /\ Later(d.at, r.kept) \in Time /\ Later(d.at, r.kept) >= d.at
      BY <1>1, Larger DEF Room
    <2> HIDE DEF b, s
    <2>4. CASE b.tomb = d.at
      <3>1. d.at > r.guard
        BY <1>1, <1>2, Times DEF Outranks, Room
      <3>2. d.at # Never
        BY <1>1, Times
      <3> QED  BY <2>2, <2>3, <2>4, <3>1, <3>2 DEF Sound, s, b
    <2>5. CASE b.tomb # d.at
      <3>1. s = b /\ b.tomb = r.tomb /\ r.tomb # Never
        BY <2>1, <2>2, <2>3, <2>5, Times
      <3>2. r.copies = {}
        BY <3>1 DEF Sound
      <3> QED  BY <2>1, <3>1, <3>2 DEF Sound, s, b
    <2> QED  BY <2>4, <2>5
  <1>3. CASE ~Outranks(r, d.at)
    <2>1. b = r
      BY <1>1, <1>3, BuriedFacts
    <2>2. /\ r.tomb = d.at => s \in Room /\ s.copies = r.copies /\ s.tomb = d.at
                             /\ s.kept = Later(d.at, r.kept) /\ s.proof = d.by
                             /\ s.pending = r.pending
          /\ r.tomb # d.at => s = r
      BY <1>1, <2>1, ProvenFacts
    <2>3. Later(d.at, r.kept) \in Time /\ Later(d.at, r.kept) >= d.at
      BY <1>1, Larger DEF Room
    <2> HIDE DEF b, s
    <2>4. CASE r.tomb = d.at
      <3>1. r.tomb # Never
        BY <1>1, <2>4, Times
      <3>2. r.copies = {}
        BY <3>1 DEF Sound
      <3> QED  BY <2>2, <2>3, <2>4, <3>1, <3>2 DEF Sound, s, b
    <2>5. CASE r.tomb # d.at
      <3>1. s = r
        BY <2>2, <2>5
      <3> QED  BY <3>1 DEF Sound, s, b
    <2> QED  BY <2>4, <2>5
  <1> QED  BY <1>2, <1>3

LEMMA RemovalHeardSound ==
    ASSUME NEW m \in Member, NEW r, NEW t \in Time, NEW sg, Sound(r, t, sg), NEW d \in Removal
    PROVE  LET s == RemovalHeard(m, r, d)
           IN  Sound(s, t, sg) /\ Lawful(owner[m], r, s, sg)
  <1>1. r \in Room /\ d.at \in Time /\ (r.copies # {} => r.proof = NoOne)
    BY DEF Sound, Removal
  <1>2. CASE RemovalHeard(m, r, d) = r
    <2>1. Lawful(owner[m], r, r, sg)
      BY <1>1 DEF Lawful, Sound
    <2> QED  BY <1>2, <2>1
  <1>3. CASE RemovalHeard(m, r, d) = [Proven(Buried(r, d.at), d) EXCEPT !.pending = {}]
    <2> DEFINE b == Proven(Buried(r, d.at), d)
               s == [b EXCEPT !.pending = {}]
    <2>1. /\ Sound(b, t, sg)
          /\ r.tomb # Never => b.tomb # Never
          /\ r.copies # {} /\ b.proof # NoOne => b.tomb > r.guard
      BY BuriedProven
    <2> HIDE DEF b
    <2>2. Sound(s, t, sg)
      BY <2>1, PendingSound
    <2>3. s.tomb = b.tomb /\ s.proof = b.proof
      BY <2>1, PendingFacts DEF Sound
    <2> HIDE DEF s
    <2>4. r.proof # NoOne => r.tomb # Never
      BY DEF Sound
    <2>5. Lawful(owner[m], r, s, sg)
      BY <2>1, <2>3, <2>4 DEF Lawful
    <2> QED  BY <1>3, <2>2, <2>5 DEF s, b
  <1>4. CASE RemovalHeard(m, r, d) = [r EXCEPT !.pending = {d}]
    <2> DEFINE s == [r EXCEPT !.pending = {d}]
    <2>1. Sound(s, t, sg)
      BY PendingSound
    <2>2. s.tomb = r.tomb /\ s.proof = r.proof
      BY <1>1, PendingFacts
    <2> HIDE DEF s
    <2>3. Lawful(owner[m], r, s, sg)
      BY <1>1, <2>2 DEF Lawful, Sound
    <2> QED  BY <1>4, <2>1, <2>3 DEF s
  <1>5. \/ RemovalHeard(m, r, d) = r
        \/ RemovalHeard(m, r, d) = [Proven(Buried(r, d.at), d) EXCEPT !.pending = {}]
        \/ RemovalHeard(m, r, d) = [r EXCEPT !.pending = {d}]
    BY DEF RemovalHeard, Pended
  <1> QED  BY <1>2, <1>3, <1>4, <1>5

\* What m makes of a copy that it hears of.
LEMMA CopyHeardSound ==
    ASSUME NEW m \in Member, now \in 1..MaxTime,
           NEW r, NEW sg, Sound(r, Date(m), sg),
           NEW sent \in Copy, sent.rev = NoRevival \/ sent.rev \in sg
    PROVE  LET s == CopyHeard(m, r, sent)
           IN  Sound(s, Date(m), sg) /\ Lawful(owner[m], r, s, sg)
  <1> DEFINE t == Date(m)
             c == [sent EXCEPT !.at = Earlier(sent.at, t)]
             rest == [r EXCEPT !.pending = {}]
             met == {p \in r.pending : p.by \in {owner[m], c.by}}
             p == CHOOSE q \in met : TRUE
             h == CopyHeard(m, r, sent)
  <1>1. r \in Room /\ t \in Time /\ (r.copies # {} => r.proof = NoOne)
    BY Dates DEF Sound
  <1> HIDE DEF t
  <1>2. Earlier(sent.at, t) \in Time /\ Earlier(sent.at, t) <= t
    BY <1>1, Smaller DEF Copy
  <1>3. c \in Copy /\ c.at <= t /\ c.rev = sent.rev
    BY <1>2 DEF Copy
  <1>4. c.rev.at \in Time \union {Never} /\ c.rev.by \in Id
    BY <1>3 DEF Copy, Revival
  <1>5. /\ r.tomb # Never /\ r.proof # NoOne /\ Revives(m, c.rev, r.proof, r.tomb) =>
              h = Listed(Guarded(Cleared(r), c.rev.at), c)
        /\ r.tomb # Never /\ r.proof # NoOne /\ ~Revives(m, c.rev, r.proof, r.tomb) => h = r
        /\ r.tomb # Never /\ r.proof = NoOne /\ c.at > r.tomb => h = Listed(Cleared(r), c)
        /\ r.tomb # Never /\ r.proof = NoOne /\ ~(c.at > r.tomb) => h = r
        /\ r.tomb = Never /\ met # {} => h = PendingMet(m, r, p, c)
        /\ r.tomb = Never /\ met = {} => h = Listed(r, c)
    BY DEF CopyHeard, t
  <1>6. met # {} => p \in Removal
    BY <1>1 DEF Room
  <1>7. PendingMet(m, r, p, c) =
          IF Revives(m, c.rev, p.by, p.at) THEN Listed(Guarded(rest, c.rev.at), c)
          ELSE Proven(Buried(rest, p.at), p)
    BY DEF PendingMet
  <1> HIDE DEF h, c, met, p
  <1>8. Sound(Cleared(r), t, sg) /\ Cleared(r).tomb = Never
    BY <1>1, ClearedSound, ClearedFacts DEF t
  <1>9. Sound(r, t, sg) /\ (c.rev = NoRevival \/ c.rev \in sg)
    BY <1>3 DEF t
  <1>10. ASSUME r.tomb # Never, r.proof # NoOne, Revives(m, c.rev, r.proof, r.tomb)
         PROVE  Sound(h, t, sg) /\ Lawful(owner[m], r, h, sg)
    <2> DEFINE g == Guarded(Cleared(r), c.rev.at)
    <2>0. Cleared(r) \in Room
      BY <1>1, ClearedFacts
    <2>1. Sound(g, t, sg) /\ g.tomb = Never
      BY <1>1, <1>4, <1>8, <2>0, GuardedSound, GuardedFacts
    <2> HIDE DEF g
    <2>2. Sound(Listed(g, c), t, sg)
      BY <1>1, <1>3, <1>9, <2>1, ListedSound
    <2>3. h = Listed(g, c)
      BY <1>5, <1>10 DEF g
    <2>4. c.rev.at >= r.tomb /\ c.rev.by \in {owner[m], r.proof} /\ c.rev.by # NoOne
      BY <1>10 DEF Revives
    <2>5. c.rev \in sg
      BY <1>9, <2>4, Times
    <2>6. r.copies = {}
      BY <1>1, <1>10
    <2> QED  BY <2>2, <2>3, <2>4, <2>5, <2>6 DEF Lawful
  <1>11. ASSUME h = r
         PROVE  Sound(h, t, sg) /\ Lawful(owner[m], r, h, sg)
    BY <1>1, <1>9, <1>11 DEF Lawful, Sound
  <1>12. ASSUME r.tomb # Never, r.proof = NoOne, c.at > r.tomb
         PROVE  Sound(h, t, sg) /\ Lawful(owner[m], r, h, sg)
    <2>1. Sound(Listed(Cleared(r), c), t, sg)
      BY <1>1, <1>3, <1>8, <1>9, ListedSound
    <2>2. r.copies = {}
      BY <1>9, <1>12 DEF Sound
    <2> QED  BY <1>5, <1>12, <2>1, <2>2 DEF Lawful
  <1>13. ASSUME r.tomb = Never, met # {}, Revives(m, c.rev, p.by, p.at)
         PROVE  Sound(h, t, sg) /\ Lawful(owner[m], r, h, sg)
    <2> DEFINE g == Guarded(rest, c.rev.at)
    <2>1. Sound(rest, t, sg) /\ rest \in Room /\ rest.tomb = Never /\ rest.proof = r.proof
      BY <1>1, <1>9, <1>13, PendingSound, PendingFacts
    <2> HIDE DEF rest
    <2>2. Sound(g, t, sg) /\ g \in Room /\ g.tomb = Never /\ g.proof = r.proof
      BY <1>1, <1>4, <2>1, GuardedSound, GuardedFacts
    <2> HIDE DEF g
    <2>3. Sound(Listed(g, c), t, sg) /\ Listed(g, c).proof = r.proof
      BY <1>1, <1>3, <1>9, <2>2, ListedSound, ListedFacts
    <2>4. h = Listed(g, c)
      BY <1>5, <1>7, <1>13 DEF g
    <2>5. r.proof = NoOne
      BY <1>9, <1>13 DEF Sound
    <2> QED  BY <2>3, <2>4, <2>5 DEF Lawful
  <1>14. ASSUME r.tomb = Never, met # {}, ~Revives(m, c.rev, p.by, p.at)
         PROVE  Sound(h, t, sg) /\ Lawful(owner[m], r, h, sg)
    <2>1. /\ Sound(rest, t, sg)
          /\ rest.copies = r.copies /\ rest.guard = r.guard
      BY <1>1, <1>9, PendingSound, PendingFacts
    <2> HIDE DEF rest
    <2> DEFINE s == Proven(Buried(rest, p.at), p)
    <2>2. Sound(s, t, sg) /\ (rest.copies # {} /\ s.proof # NoOne => s.tomb > rest.guard)
      BY <1>1, <1>6, <1>14, <2>1, BuriedProven
    <2>3. h = s
      BY <1>5, <1>7, <1>14
    <2> HIDE DEF s
    <2>4. r.proof = NoOne
      BY <1>9, <1>14 DEF Sound
    <2> QED  BY <2>1, <2>2, <2>3, <2>4 DEF Lawful
  <1>15. ASSUME r.tomb = Never, met = {}
         PROVE  Sound(h, t, sg) /\ Lawful(owner[m], r, h, sg)
    <2>1. Sound(Listed(r, c), t, sg) /\ Listed(r, c).proof = r.proof
      BY <1>1, <1>3, <1>9, <1>15, ListedSound, ListedFacts
    <2>2. h = Listed(r, c)
      BY <1>5, <1>15
    <2>3. r.proof = NoOne
      BY <1>9, <1>15 DEF Sound
    <2> QED  BY <2>1, <2>2, <2>3 DEF Lawful
  <1>16. Sound(h, t, sg) /\ Lawful(owner[m], r, h, sg)
    BY <1>5, <1>10, <1>11, <1>12, <1>13, <1>14, <1>15
  <1> QED  BY <1>16 DEF h, t

-----------------------------------------------------------------------------
(* The actions *)

\* Who does nothing breaks no law.
LEMMA Idle ==
    ASSUME NEW x, NEW r, NEW t, NEW sg, NEW sh, Sound(r, t, sg)
    PROVE  Lawful(x, r, r, sh)
  BY DEF Sound, Lawful

\* A step that changes what one member knows, keeps that sound, and takes back no
\* revival.
LEMMA StepOfOne ==
    ASSUME IInv, NEW n \in Member, NEW r,
           owner' \in [Member -> {Founder, Heir}],
           now' \in 1..MaxTime, now' >= now,
           net' \subseteq Add \union Del,
           revivals \subseteq revivals', revivals' \subseteq Revival,
           \A f \in net' : f.kind = "add" => f.copy.rev = NoRevival \/ f.copy.rev \in revivals',
           room' = [room EXCEPT ![n] = r],
           Sound(r, Date(n), revivals'),
           Lawful(owner[n], room[n], r, revivals')
    PROVE  IInv' /\ \A m \in Member : Lawful(owner[m], room[m], room'[m], revivals')
  <1>1. now \in 1..MaxTime /\ room \in [Member -> Room]
    BY DEF IInv
  <1>2. room'[n] = r /\ \A m \in Member \ {n} : room'[m] = room[m]
    BY <1>1
  <1>3. ASSUME NEW m \in Member
        PROVE  Sound(room'[m], Date(m)', revivals') /\ Lawful(owner[m], room[m], room'[m], revivals')
    <2>1. /\ Date(m) \in Time /\ Date(m)' \in Time /\ Date(m)' >= Date(m)
          /\ Sound(room[m], Date(m), revivals)
      BY <1>1, Dates, DatesGrow DEF IInv
    <2>2. CASE m = n
      <3>1. Sound(r, Date(m)', revivals')
        BY <2>1, <2>2, SoundGrows
      <3> QED  BY <1>2, <2>2, <3>1
    <2>3. CASE m # n
      <3>1. Sound(room[m], Date(m)', revivals')
        BY <2>1, SoundGrows
      <3>2. Lawful(owner[m], room[m], room[m], revivals')
        BY <2>1, Idle
      <3> QED  BY <1>2, <2>3, <3>1, <3>2
    <2> QED  BY <2>2, <2>3
  <1>4. r \in Room
    BY DEF Sound
  <1>5. room' \in [Member -> Room]
    BY <1>1, <1>4
  <1>6. (\A m \in Member : Sound(room[m], Date(m), revivals))'
    BY <1>3
  <1>7. (\A f \in net : f.kind = "add" => f.copy.rev = NoRevival \/ f.copy.rev \in revivals)'
    OBVIOUS
  <1>8. IInv'
    BY <1>5, <1>6, <1>7 DEF IInv
  <1> QED  BY <1>3, <1>8

\* Likewise where no revival is signed, and nothing is sent.
LEMMA StepUnsigned ==
    ASSUME IInv, NEW n \in Member, NEW r, UNCHANGED <<owner, now, net, revivals>>,
           room' = [room EXCEPT ![n] = r],
           Sound(r, Date(n), revivals),
           Lawful(owner[n], room[n], r, revivals)
    PROVE  IInv' /\ \A m \in Member : Lawful(owner[m], room[m], room'[m], revivals')
  <1>1. now \in 1..MaxTime /\ now' = now
    BY DEF IInv
  <1>2. now' \in 1..MaxTime /\ now' >= now
    BY <1>1
  <1>3. /\ owner' \in [Member -> {Founder, Heir}]
        /\ net' \subseteq Add \union Del
        /\ revivals \subseteq revivals' /\ revivals' \subseteq Revival
        /\ \A f \in net' : f.kind = "add" => f.copy.rev = NoRevival \/ f.copy.rev \in revivals'
    BY DEF IInv
  <1>4. Sound(r, Date(n), revivals') /\ Lawful(owner[n], room[n], r, revivals')
    OBVIOUS
  <1> QED  BY <1>2, <1>3, <1>4, StepOfOne

\* Where nobody's knowledge of the file changes.
LEMMA StepOfNone ==
    ASSUME IInv, room' = room, net' = net, revivals' = revivals,
           owner' \in [Member -> {Founder, Heir}],
           now' \in 1..MaxTime, now' >= now
    PROVE  IInv' /\ \A m \in Member : Lawful(owner[m], room[m], room'[m], revivals')
  <1>1. Founder \in Member /\ room \in [Member -> Room]
    BY FilesAssumption DEF IInv
  <1>2. room' = [room EXCEPT ![Founder] = room[Founder]]
    BY <1>1
  <1>3. Sound(room[Founder], Date(Founder), revivals)
    BY <1>1 DEF IInv
  <1>4. Lawful(owner[Founder], room[Founder], room[Founder], revivals')
    BY <1>3, Idle
  <1> QED  BY <1>1, <1>2, <1>3, <1>4, StepOfOne DEF IInv

LEMMA PassingTime ==
    ASSUME Passes, now \in 1..MaxTime
    PROVE  now' \in 1..MaxTime /\ now' >= now
  BY FilesAssumption DEF Passes

LEMMA ShareSound ==
    ASSUME IInv, NEW m \in Member, Share(m)
    PROVE  IInv' /\ \A n \in Member : Lawful(owner[n], room[n], room'[n], revivals')
  <1> DEFINE r == room[m]
             rev == IF r.proof = NoOne THEN NoRevival ELSE [by |-> m, at |-> r.tomb]
             c == [by |-> m, at |-> Date(m), rev |-> rev]
             g == Guarded(Cleared(r), rev.at)
             s == Listed(g, c)
  <1>1. /\ Sound(r, Date(m), revivals) /\ now \in 1..MaxTime /\ Date(m) \in Time
        /\ r \in Room /\ r.copies = {} /\ m # NoOne
    BY FilesAssumption, Dates DEF IInv, Share, Holds
  <1>2. rev \in Revival /\ rev.at \in Time \union {Never}
    <2>1. NoRevival \in Revival /\ NoRevival.at = Never
      BY DEF NoRevival, Revival, Id
    <2>2. [by |-> m, at |-> r.tomb] \in Revival /\ r.tomb \in Time \union {Never}
      BY <1>1 DEF Revival, Id, Room
    <2> QED  BY <2>1, <2>2
  <1>3. revivals' = IF rev = NoRevival THEN revivals ELSE revivals \union {rev}
    BY DEF Share
  <1>4. r.proof # NoOne => /\ rev = [by |-> m, at |-> r.tomb] /\ rev # NoRevival
                           /\ rev.by = m /\ rev.at = r.tomb /\ r.tomb \in Nat
                           /\ m \in {owner[m], r.proof}
    <2>1. ASSUME r.proof # NoOne PROVE rev = [by |-> m, at |-> r.tomb] /\ m \in {owner[m], r.proof}
      BY <2>1 DEF Share
    <2>2. [by |-> m, at |-> r.tomb].by # NoRevival.by
      BY <1>1, Times
    <2>3. r.tomb \in Nat
      BY <1>1, Times DEF Room
    <2> QED  BY <2>1, <2>2, <2>3
  <1>5. c \in Copy /\ c.at = Date(m) /\ c.rev = rev /\ (c.at <= Date(m))
    BY <1>1, <1>2, Times DEF Copy
  <1>6. /\ room' = [room EXCEPT ![m] = s]
        /\ net' = net \union {[kind |-> "add", copy |-> c]}
        /\ owner' = owner /\ Passes
    BY DEF Share
  <1> HIDE DEF rev, c
  <1>7. revivals \subseteq revivals' /\ revivals' \subseteq Revival
          /\ (rev = NoRevival \/ rev \in revivals')
    BY <1>2, <1>3 DEF IInv
  <1>8. Sound(Cleared(r), Date(m), revivals') /\ Cleared(r) \in Room /\ Cleared(r).tomb = Never
    <2>1. Date(m) >= Date(m)
      BY <1>1, Times
    <2>2. Sound(r, Date(m), revivals')
      BY <1>1, <1>7, <2>1, SoundGrows
    <2> QED  BY <1>1, <2>2, ClearedSound, ClearedFacts
  <1>9. Sound(g, Date(m), revivals') /\ g.tomb = Never
    BY <1>1, <1>2, <1>8, GuardedSound, GuardedFacts
  <1>10. g.proof = NoOne /\ g \in Room
    BY <1>9 DEF Sound
  <1> HIDE DEF g
  <1>11. Sound(s, Date(m), revivals') /\ s.proof = NoOne
    BY <1>1, <1>5, <1>7, <1>9, <1>10, ListedSound, ListedFacts
  <1> HIDE DEF s
  <1>12. Lawful(owner[m], r, s, revivals')
    BY <1>1, <1>4, <1>7, <1>11 DEF Lawful
  <1>13. /\ net' \subseteq Add \union Del
         /\ \A f \in net' : f.kind = "add" => f.copy.rev = NoRevival \/ f.copy.rev \in revivals'
    <2>1. [kind |-> "add", copy |-> c] \in Add
      BY <1>5 DEF Add
    <2> QED  BY <1>5, <1>6, <1>7, <2>1 DEF IInv
  <1> HIDE DEF r
  <1>14. now' \in 1..MaxTime /\ now' >= now
    BY <1>1, <1>6, PassingTime
  <1>15. owner' \in [Member -> {Founder, Heir}]
    BY <1>6 DEF IInv
  <1> QED  BY <1>6, <1>7, <1>11, <1>12, <1>13, <1>14, <1>15, StepOfOne DEF r

LEMMA RemoveSound ==
    ASSUME IInv, NEW m \in Member, Remove(m)
    PROVE  IInv' /\ \A n \in Member : Lawful(owner[n], room[n], room'[n], revivals')
  <1> DEFINE r == room[m]
             d == [by |-> m, at |-> Date(m)]
             k == Later(d.at, r.kept)
             noted == [r EXCEPT !.kept = k]
             buried == Buried(noted, d.at)
             s == IF CanDelete(m, r, m) THEN Proven(buried, d) ELSE buried
  <1>1. /\ Sound(r, Date(m), revivals) /\ now \in 1..MaxTime /\ Date(m) \in Time
        /\ r \in Room /\ r.copies # {}
    BY Dates DEF IInv, Remove, Holds
  <1>2. d \in Removal /\ d.at = Date(m) /\ d.by = m
    BY <1>1 DEF Removal
  <1>3. room' = [room EXCEPT ![m] = s] /\ net' = net \union {[kind |-> "del", del |-> d]}
          /\ UNCHANGED <<owner, revivals>> /\ Passes
    BY DEF Remove, Buried
  <1> HIDE DEF d
  <1>4. k \in Time /\ k >= d.at
    BY <1>1, <1>2, Larger DEF Room
  <1> HIDE DEF k
  <1>5. /\ noted \in Room /\ noted.copies = r.copies /\ noted.tomb = r.tomb /\ noted.kept = k
        /\ noted.proof = r.proof /\ noted.guard = r.guard /\ noted.pending = r.pending
    BY <1>1, <1>4 DEF Room
  <1> HIDE DEF noted
  <1>6. r.tomb = Never /\ r.proof = NoOne
    BY <1>1 DEF Sound
  <1>7. Later(d.at, Never) = d.at /\ d.at # Never /\ Later(d.at, k) \in Time /\ Later(d.at, k) >= d.at
    BY <1>1, <1>2, <1>4, Times, Larger DEF Later
  <1>8. /\ Outranks(noted, d.at) =>
             /\ buried \in Room /\ buried.copies = {} /\ buried.tomb = d.at /\ buried.kept = k
             /\ buried.proof = NoOne /\ buried.pending = r.pending
             /\ d.at > r.guard
        /\ ~Outranks(noted, d.at) => buried = noted
    <2>1. ASSUME Outranks(noted, d.at) PROVE d.at > r.guard
      <3>1. r.guard < d.at
        BY <1>5, <2>1 DEF Outranks
      <3> QED  BY <1>1, <1>2, <3>1, Times DEF Room
    <2> QED  BY <1>1, <1>2, <1>5, <1>6, <1>7, <2>1, BuriedFacts
  <1> HIDE DEF buried
  <1>9. /\ buried.tomb = d.at /\ buried \in Room =>
             /\ Proven(buried, d) \in Room /\ Proven(buried, d).copies = buried.copies
             /\ Proven(buried, d).tomb = d.at /\ Proven(buried, d).kept = Later(d.at, buried.kept)
             /\ Proven(buried, d).proof = m /\ Proven(buried, d).pending = buried.pending
        /\ buried.tomb # d.at /\ buried \in Room => Proven(buried, d) = buried
    BY <1>2, ProvenFacts
  <1>10. ASSUME Outranks(noted, d.at)
         PROVE  Sound(s, Date(m), revivals) /\ Lawful(owner[m], r, s, revivals)
    <2>1. /\ s \in Room /\ s.copies = {} /\ s.tomb = d.at /\ s.kept >= d.at
          /\ s.pending = r.pending
      BY <1>4, <1>7, <1>8, <1>9, <1>10
    <2> HIDE DEF s
    <2>2. Sound(s, Date(m), revivals)
      BY <1>1, <1>7, <2>1 DEF Sound
    <2>3. Lawful(owner[m], r, s, revivals)
      BY <1>6, <1>8, <1>10, <2>1 DEF Lawful
    <2> QED  BY <2>2, <2>3
  <1>11. ASSUME ~Outranks(noted, d.at)
         PROVE  Sound(s, Date(m), revivals) /\ Lawful(owner[m], r, s, revivals)
    <2>1. s = noted
      BY <1>5, <1>6, <1>7, <1>8, <1>9, <1>11
    <2> HIDE DEF s
    <2>2. \A c \in r.copies : c.at <= k
      <3> TAKE c \in r.copies
      <3>1. c.at \in Time /\ c.at <= d.at
        BY <1>1, <1>2 DEF Sound, Room, Copy
      <3>2. c.at \in Nat /\ d.at \in Nat /\ k \in Nat
        BY <1>1, <1>2, <1>4, <3>1, Times
      <3> QED  BY <1>4, <3>1, <3>2
    <2>3. Sound(noted, Date(m), revivals)
      BY <1>1, <1>5, <1>6, <2>2 DEF Sound
    <2>4. Lawful(owner[m], r, noted, revivals)
      BY <1>5, <1>6 DEF Lawful
    <2> QED  BY <2>1, <2>3, <2>4
  <1>12. Sound(s, Date(m), revivals) /\ Lawful(owner[m], r, s, revivals)
    BY <1>10, <1>11
  <1> HIDE DEF s, r
  <1>13. /\ net' \subseteq Add \union Del
         /\ revivals \subseteq revivals' /\ revivals' \subseteq Revival
         /\ \A f \in net' : f.kind = "add" => f.copy.rev = NoRevival \/ f.copy.rev \in revivals'
    <2>1. [kind |-> "del", del |-> d] \in Del /\ [kind |-> "del", del |-> d].kind # "add"
      BY <1>2 DEF Del
    <2> QED  BY <1>3, <2>1 DEF IInv
  <1>14. now' \in 1..MaxTime /\ now' >= now
    BY <1>1, <1>3, PassingTime
  <1>15. owner' \in [Member -> {Founder, Heir}]
    BY <1>3 DEF IInv
  <1>16. Sound(s, Date(m), revivals') /\ Lawful(owner[m], room[m], s, revivals')
    BY <1>3, <1>12 DEF r
  <1> QED  BY <1>3, <1>13, <1>14, <1>15, <1>16, StepOfOne

\* A start from the store forgets no proven removal, and brings none of what is listed.
LEMMA RestartedSound ==
    ASSUME NEW x, NEW r, NEW t, NEW sg, Sound(r, t, sg)
    PROVE  Sound(Restarted(r), t, sg) /\ Lawful(x, r, Restarted(r), sg)
             /\ Restarted(r).guard = r.guard
  <1> DEFINE bare == {[c EXCEPT !.rev = NoRevival] : c \in r.copies}
             copies == {c \in bare : c.at > r.kept}
             proof == IF r.kept = Never THEN NoOne ELSE r.proof
             s == Restarted(r)
  <1>1. r \in Room
    BY DEF Sound
  <1>2. s = [r EXCEPT !.copies = copies, !.tomb = r.kept, !.proof = proof, !.pending = {}]
    BY DEF Restarted
  <1>3. \A c \in r.copies : [c EXCEPT !.rev = NoRevival] \in Copy
          /\ [c EXCEPT !.rev = NoRevival].at = c.at
          /\ [c EXCEPT !.rev = NoRevival].rev = NoRevival
    <2>1. NoRevival \in Revival
      BY DEF NoRevival, Revival, Id
    <2> QED  BY <1>1, <2>1 DEF Room, Copy
  <1>4. /\ copies \subseteq Copy
        /\ \A c, d \in copies : c = d
        /\ \A c \in copies : c.at <= t /\ c.rev = NoRevival
        /\ r.copies = {} => copies = {}
    BY <1>1, <1>3 DEF Sound
  <1>5. r.kept # Never => copies = {}
    <2>1. ASSUME r.kept # Never, NEW c \in copies PROVE FALSE
      <3>1. PICK e \in r.copies : c = [e EXCEPT !.rev = NoRevival]
        OBVIOUS
      <3>2. c.at = e.at /\ e.at <= r.kept /\ c.at > r.kept
        BY <1>1, <1>3, <2>1, <3>1 DEF Sound
      <3>3. e.at \in Nat /\ r.kept \in Nat
        BY <1>1, Times DEF Room, Copy
      <3> QED  BY <3>2, <3>3
    <2> QED  BY <2>1
  <1>6. r.kept \in Time \union {Never} /\ proof \in Id
    BY <1>1 DEF Room, Id
  <1> HIDE DEF copies, proof
  <1>7. s.copies = copies /\ s.tomb = r.kept /\ s.proof = proof /\ s.pending = {}
    BY <1>1, <1>2 DEF Room
  <1>8. /\ s \in Room /\ s.copies = copies /\ s.tomb = r.kept /\ s.kept = r.kept
        /\ s.proof = proof /\ s.pending = {} /\ s.guard = r.guard
    <2>1. s.kept = r.kept /\ s.guard = r.guard
      BY <1>1, <1>2 DEF Room
    <2>2. copies \in SUBSET Copy
      BY <1>4
    <2>3. s \in Room
      BY <1>1, <1>2, <1>6, <2>2 DEF Room
    <2> QED  BY <1>7, <2>1, <2>3
  <1>9. r.kept # Never => r.kept >= r.kept
    BY <1>6, Times
  <1> HIDE DEF s
  <1>10. Sound(s, t, sg)
    <2>1. r.kept = Never => proof = NoOne
      BY DEF proof
    <2>2. \A c \in copies : r.kept # Never => c.at <= r.kept
      BY <1>5
    <2> QED  BY <1>4, <1>5, <1>8, <1>9, <2>1, <2>2 DEF Sound
  <1>11. Lawful(x, r, s, sg)
    <2>1. ASSUME r.proof # NoOne PROVE r.kept # Never
      <3>1. r.tomb # Never /\ r.kept >= r.tomb /\ r.tomb \in Time
        BY <1>1, <2>1 DEF Sound, Room
      <3>2. r.tomb \in Nat /\ r.tomb # 0
        BY <3>1, Times
      <3> QED  BY <3>1, <3>2, Times
    <2>2. r.copies # {} => s.proof = NoOne
      BY <1>1, <1>8 DEF Sound, proof
    <2> QED  BY <1>8, <2>1, <2>2 DEF Lawful
  <1> QED  BY <1>8, <1>10, <1>11 DEF s

LEMMA RestartSound ==
    ASSUME IInv, NEW m \in Member, Restart(m)
    PROVE  IInv' /\ \A n \in Member : Lawful(owner[n], room[n], room'[n], revivals')
  <1>1. Sound(room[m], Date(m), revivals)
    BY DEF IInv
  <1>2. room' = [room EXCEPT ![m] = Restarted(room[m])] /\ UNCHANGED <<owner, now, net, revivals>>
    BY DEF Restart
  <1> QED  BY <1>1, <1>2, RestartedSound, StepUnsigned

LEMMA RemoveUnreadySound ==
    ASSUME IInv, NEW m \in Member, RemoveUnready(m)
    PROVE  IInv' /\ \A n \in Member : Lawful(owner[n], room[n], room'[n], revivals')
  <1> DEFINE r == room[m]
             t == Date(m)
             k == Later(t, r.kept)
             noted == [r EXCEPT !.kept = k]
             s == Restarted(noted)
  <1>1. /\ Sound(r, t, revivals) /\ now \in 1..MaxTime /\ t \in Time
        /\ r \in Room /\ r.copies # {} /\ room \in [Member -> Room]
    BY Dates DEF IInv, RemoveUnready, Holds
  <1>2. room' = [room EXCEPT ![m] = s] /\ UNCHANGED <<owner, net, revivals>> /\ Passes
    BY <1>1 DEF RemoveUnready
  <1>3. k \in Time /\ k >= t
    BY <1>1, Larger DEF Room
  <1>4. r.tomb = Never /\ r.proof = NoOne
    BY <1>1 DEF Sound
  <1>5. \A c \in r.copies : c.at <= k
    <2> TAKE c \in r.copies
    <2>1. c.at \in Time /\ c.at <= t
      BY <1>1 DEF Sound, Room, Copy
    <2>2. c.at \in Nat /\ t \in Nat /\ k \in Nat
      BY <1>1, <1>3, <2>1, Times
    <2> QED  BY <1>3, <2>1, <2>2
  <1> HIDE DEF k, t
  <1>6. /\ noted \in Room /\ noted.copies = r.copies /\ noted.tomb = r.tomb /\ noted.kept = k
        /\ noted.proof = r.proof /\ noted.guard = r.guard /\ noted.pending = r.pending
    BY <1>1, <1>3 DEF Room
  <1> HIDE DEF noted
  <1>7. Sound(noted, t, revivals)
    BY <1>1, <1>4, <1>5, <1>6 DEF Sound
  <1>8. Sound(s, t, revivals) /\ Lawful(owner[m], noted, s, revivals)
    BY <1>7, RestartedSound
  <1> HIDE DEF s
  <1>9. Lawful(owner[m], r, s, revivals)
    BY <1>4, <1>6, <1>8 DEF Lawful
  <1>10. now' \in 1..MaxTime /\ now' >= now
    BY <1>1, <1>2, PassingTime
  <1>11. /\ owner' \in [Member -> {Founder, Heir}] /\ net' \subseteq Add \union Del
         /\ revivals \subseteq revivals' /\ revivals' \subseteq Revival
         /\ \A f \in net' : f.kind = "add" => f.copy.rev = NoRevival \/ f.copy.rev \in revivals'
    BY <1>2 DEF IInv
  <1>12. Sound(s, Date(m), revivals') /\ Lawful(owner[m], room[m], s, revivals')
    BY <1>2, <1>8, <1>9 DEF t, r
  <1> HIDE DEF r
  <1> QED  BY <1>2, <1>10, <1>11, <1>12, StepOfOne

LEMMA LearnSound ==
    ASSUME IInv, NEW m \in Member, Learn(m)
    PROVE  IInv' /\ \A n \in Member : Lawful(owner[n], room[n], room'[n], revivals')
  <1> DEFINE r == room[m]
             k == Later(r.tomb, r.kept)
             s == [r EXCEPT !.proof = m, !.kept = k]
  <1>1. /\ Sound(r, Date(m), revivals) /\ r \in Room /\ room \in [Member -> Room]
        /\ now \in 1..MaxTime
    BY DEF IInv, Sound
  <1>2. owner' \in [Member -> {Founder, Heir}]
    <2>1. owner' = [owner EXCEPT ![m] = Heir]
      BY DEF Learn
    <2> QED  BY <2>1 DEF IInv
  <1>3. now' \in 1..MaxTime /\ now' >= now
    BY <1>1 DEF Learn
  <1>4. net' = net /\ revivals' = revivals
    BY DEF Learn
  <1>5. CASE m = Heir /\ r.tomb # Never
    <2>1. room' = [room EXCEPT ![m] = s]
      BY <1>5 DEF Learn
    <2>2. k \in Time /\ k >= r.tomb
      BY <1>1, <1>5, Larger DEF Room
    <2> HIDE DEF k
    <2>3. /\ s \in Room /\ s.copies = r.copies /\ s.tomb = r.tomb /\ s.kept = k
          /\ s.proof = m /\ s.pending = r.pending
      BY <1>1, <2>2 DEF Room, Id
    <2> HIDE DEF s
    <2>4. r.copies = {}
      BY <1>1, <1>5 DEF Sound
    <2>5. Sound(s, Date(m), revivals')
      BY <1>1, <1>4, <1>5, <2>2, <2>3, <2>4 DEF Sound
    <2>6. Lawful(owner[m], r, s, revivals')
      BY <1>5, <2>3, <2>4 DEF Lawful
    <2>7. /\ net' \subseteq Add \union Del /\ revivals \subseteq revivals' /\ revivals' \subseteq Revival
          /\ \A f \in net' : f.kind = "add" => f.copy.rev = NoRevival \/ f.copy.rev \in revivals'
      BY <1>4 DEF IInv
    <2> HIDE DEF r
    <2> QED  BY <1>2, <1>3, <2>1, <2>5, <2>6, <2>7, StepOfOne DEF r
  <1>6. CASE ~(m = Heir /\ r.tomb # Never)
    <2>1. room' = [room EXCEPT ![m] = r]
      BY <1>6 DEF Learn
    <2>2. room' = room
      BY <1>1, <2>1
    <2> QED  BY <1>2, <1>3, <1>4, <2>2, StepOfNone
  <1> QED  BY <1>5, <1>6

LEMMA CopyStep ==
    ASSUME IInv, NEW n \in Member, NEW c \in Copy, c.rev = NoRevival \/ c.rev \in revivals,
           Hears(n, CopyHeard(n, room[n], c))
    PROVE  IInv' /\ \A m \in Member : Lawful(owner[m], room[m], room'[m], revivals')
  <1> DEFINE s == CopyHeard(n, room[n], c)
  <1>1. Sound(room[n], Date(n), revivals) /\ now \in 1..MaxTime
    BY DEF IInv
  <1>2. Sound(s, Date(n), revivals) /\ Lawful(owner[n], room[n], s, revivals)
    BY <1>1, CopyHeardSound
  <1>3. room' = [room EXCEPT ![n] = s] /\ UNCHANGED <<owner, now, net, revivals>>
    BY DEF Hears
  <1> HIDE DEF s
  <1> QED  BY <1>2, <1>3, StepUnsigned

LEMMA RemovalStep ==
    ASSUME IInv, NEW n \in Member, NEW d \in Removal, Hears(n, RemovalHeard(n, room[n], d))
    PROVE  IInv' /\ \A m \in Member : Lawful(owner[m], room[m], room'[m], revivals')
  <1> DEFINE s == RemovalHeard(n, room[n], d)
  <1>1. Sound(room[n], Date(n), revivals) /\ now \in 1..MaxTime /\ Date(n) \in Time
    BY Dates DEF IInv
  <1>2. Sound(s, Date(n), revivals) /\ Lawful(owner[n], room[n], s, revivals)
    BY <1>1, RemovalHeardSound
  <1>3. room' = [room EXCEPT ![n] = s] /\ UNCHANGED <<owner, now, net, revivals>>
    BY DEF Hears
  <1> HIDE DEF s
  <1> QED  BY <1>2, <1>3, StepUnsigned

LEMMA GreetSound ==
    ASSUME IInv, NEW m \in Member, NEW n \in Member, Greet(m, n)
    PROVE  IInv' /\ \A k \in Member : Lawful(owner[k], room[k], room'[k], revivals')
  <1>1. room[m] \in Room /\ Sound(room[m], Date(m), revivals)
    BY DEF IInv, Sound
  <1>2. CASE \E c \in room[m].copies : Hears(n, CopyHeard(n, room[n], c))
    <2>1. PICK c \in room[m].copies : Hears(n, CopyHeard(n, room[n], c))
      BY <1>2
    <2>2. c \in Copy /\ (c.rev = NoRevival \/ c.rev \in revivals)
      BY <1>1 DEF Room, Sound
    <2> QED  BY <2>1, <2>2, CopyStep
  <1>3. CASE /\ room[m].proof # NoOne
             /\ Hears(n, RemovalHeard(n, room[n], [by |-> room[m].proof, at |-> room[m].tomb]))
    <2>1. [by |-> room[m].proof, at |-> room[m].tomb] \in Removal
      BY <1>1, <1>3 DEF Sound, Room, Removal, Id
    <2> QED  BY <1>3, <2>1, RemovalStep
  <1> QED  BY <1>2, <1>3 DEF Greet

LEMMA DeliverSound ==
    ASSUME IInv, NEW n \in Member, NEW f \in net, Deliver(n, f)
    PROVE  IInv' /\ \A k \in Member : Lawful(owner[k], room[k], room'[k], revivals')
  <1>1. f \in Add \union Del
    BY DEF IInv
  <1>2. CASE f.kind = "add" /\ Hears(n, CopyHeard(n, room[n], f.copy))
    <2>1. f.copy \in Copy /\ (f.copy.rev = NoRevival \/ f.copy.rev \in revivals)
      BY <1>1, <1>2 DEF IInv, Add, Del
    <2> QED  BY <1>2, <2>1, CopyStep
  <1>3. CASE f.kind = "del" /\ Hears(n, RemovalHeard(n, room[n], f.del))
    <2>1. f.del \in Removal
      BY <1>1, <1>3 DEF Add, Del
    <2> QED  BY <1>3, <2>1, RemovalStep
  <1> QED  BY <1>2, <1>3 DEF Deliver

-----------------------------------------------------------------------------
(* The theorems *)

LEMMA InitSound == Init => IInv
  <1> SUFFICES ASSUME Init PROVE IInv
    OBVIOUS
  <1>1. Blank \in Room
    BY DEF Blank, Room, Id
  <1>2. \A t, sg : Sound(Blank, t, sg)
    BY <1>1 DEF Sound, Blank
  <1>3. \A m \in Member : room[m] = Blank
    BY DEF Init
  <1>4. \A m \in Member : Sound(room[m], Date(m), revivals)
    BY <1>2, <1>3
  <1>5. now \in 1..MaxTime
    BY FilesAssumption DEF Init
  <1> QED  BY <1>1, <1>4, <1>5 DEF Init, IInv

LEMMA NextSound ==
    IInv /\ [Next]_vars =>
        IInv' /\ \A m \in Member : Lawful(owner[m], room[m], room'[m], revivals')
  <1> SUFFICES ASSUME IInv, [Next]_vars
               PROVE  IInv' /\ \A m \in Member : Lawful(owner[m], room[m], room'[m], revivals')
    OBVIOUS
  <1>1. now \in 1..MaxTime /\ owner \in [Member -> {Founder, Heir}] /\ now <= now
    BY FilesAssumption DEF IInv
  <1>2. ASSUME NEW m \in Member, Share(m) PROVE IInv' /\ \A n \in Member : Lawful(owner[n], room[n], room'[n], revivals')
    BY <1>2, ShareSound
  <1>3. ASSUME NEW m \in Member, Remove(m) PROVE IInv' /\ \A n \in Member : Lawful(owner[n], room[n], room'[n], revivals')
    BY <1>3, RemoveSound
  <1>4. ASSUME NEW m \in Member, Restart(m) PROVE IInv' /\ \A n \in Member : Lawful(owner[n], room[n], room'[n], revivals')
    BY <1>4, RestartSound
  <1>4a. ASSUME NEW m \in Member, RemoveUnready(m) PROVE IInv' /\ \A n \in Member : Lawful(owner[n], room[n], room'[n], revivals')
    BY <1>4a, RemoveUnreadySound
  <1>5. CASE HandOver
    <2>1. owner' \in [Member -> {Founder, Heir}] /\ now' = now /\ UNCHANGED <<room, net, revivals>>
      BY <1>1, <1>5 DEF HandOver
    <2>2. now' \in 1..MaxTime /\ now' >= now
      BY <1>1, <2>1
    <2> QED  BY <2>1, <2>2, StepOfNone
  <1>6. ASSUME NEW m \in Member, Learn(m) PROVE IInv' /\ \A n \in Member : Lawful(owner[n], room[n], room'[n], revivals')
    BY <1>6, LearnSound
  <1>7. ASSUME NEW m \in Member, NEW n \in Member, Greet(m, n) PROVE IInv' /\ \A k \in Member : Lawful(owner[k], room[k], room'[k], revivals')
    BY <1>7, GreetSound
  <1>8. ASSUME NEW n \in Member, NEW f \in net, Deliver(n, f) PROVE IInv' /\ \A k \in Member : Lawful(owner[k], room[k], room'[k], revivals')
    BY <1>8, DeliverSound
  <1>9. CASE Tick
    <2>1. now' \in 1..MaxTime /\ now' >= now
      BY <1>1, <1>9, PassingTime DEF Tick
    <2> QED  BY <1>1, <1>9, <2>1, StepOfNone DEF Tick
  <1>10. CASE UNCHANGED vars
    <2>1. now' \in 1..MaxTime /\ now' >= now /\ owner' \in [Member -> {Founder, Heir}]
      BY <1>1, <1>10 DEF vars
    <2> QED  BY <1>10, <2>1, StepOfNone DEF vars
  <1> QED  BY <1>2, <1>3, <1>4, <1>4a, <1>5, <1>6, <1>7, <1>8, <1>9, <1>10 DEF Next, Users, Gossip

LEMMA Inductive == Spec => []IInv
  <1>1. IInv /\ [Next]_vars => IInv'
    BY NextSound
  <1> QED  BY InitSound, <1>1, PTL DEF Spec

-----------------------------------------------------------------------------
(* Pending removals *)

\* What is neither listed nor removed has no guard, which a removal would need to pass.
Unguarded(r) == r.copies = {} /\ r.tomb = Never => r.guard = Never

\* A proven removal of what is neither listed nor removed takes effect.
LEMMA BuriedUnheld ==
    ASSUME NEW r, r \in Room, r.copies = {}, r.tomb = Never, r.guard = Never,
           NEW d \in Removal
    PROVE  Proven(Buried(r, d.at), d).proof = d.by /\ d.by # NoOne
  <1>1. d.at \in Time /\ d.by \in Member /\ d.at \in Nat /\ d.at # 0
    BY Times DEF Removal
  <1>2. Outranks(r, d.at)
    BY <1>1, Times DEF Outranks
  <1>3. Later(d.at, r.tomb) = d.at
    BY <1>1, Times DEF Later
  <1>4. Buried(r, d.at) \in Room /\ Buried(r, d.at).tomb = d.at
    BY <1>1, <1>2, <1>3, BuriedFacts
  <1> QED  BY <1>1, <1>4, ProvenFacts, FilesAssumption

\* Whether a removal is applied or not, what it leaves is unguarded.
LEMMA BuriedUnguarded ==
    ASSUME NEW r, r \in Room, Unguarded(r), NEW d \in Removal
    PROVE  Unguarded(Proven(Buried(r, d.at), d))
  <1> DEFINE b == Buried(r, d.at)
             s == Proven(b, d)
  <1>1. d.at \in Time /\ d.at # Never
    BY Times DEF Removal
  <1>2. b \in Room
    BY <1>1, BuriedFacts
  <1>3. Unguarded(b)
    <2>1. CASE Outranks(r, d.at)
      <3>1. b.tomb = Later(d.at, r.tomb)
        BY <1>1, <2>1, BuriedFacts
      <3>2. Later(d.at, r.tomb) # Never
        BY <1>1, Larger, Times DEF Room
      <3> QED  BY <3>1, <3>2 DEF Unguarded
    <2>2. CASE ~Outranks(r, d.at)
      BY <1>1, <2>2, BuriedFacts
    <2> QED  BY <2>1, <2>2
  <1> HIDE DEF b
  <1>4. b.tomb = d.at => s.tomb = d.at
    BY <1>2, ProvenFacts
  <1>5. b.tomb # d.at => s = b
    BY <1>2, ProvenFacts
  <1>6. Unguarded(s)
    BY <1>1, <1>3, <1>4, <1>5 DEF Unguarded
  <1> QED  BY <1>6 DEF s, b

LEMMA ListedUnguarded ==
    ASSUME NEW r, r \in Room, NEW c \in Copy
    PROVE  Unguarded(Listed(r, c))
  <1>1. Listed(r, c).copies # {}
    BY ListedFacts
  <1> QED  BY <1>1 DEF Unguarded

\* What m hears of a removal leaves its pending removals right.
LEMMA RemovalHeeded ==
    ASSUME NEW m \in Member, NEW r, r \in Room, Unguarded(r), NEW d \in Removal
    PROVE  LET s == RemovalHeard(m, r, d)
           IN  Unguarded(s) /\ Heeded(m, r, s)
  <1> DEFINE b == Proven(Buried(r, d.at), d)
  <1>0. \A p \in r.pending : p.at \in Nat /\ p.at >= p.at
    BY Times DEF Room, Removal
  <1>1. CASE RemovalHeard(m, r, d) = r
    BY <1>0, <1>1 DEF Heeded, Holds
  <1>2. CASE RemovalHeard(m, r, d) = [b EXCEPT !.pending = {}]
    <2> DEFINE s == [b EXCEPT !.pending = {}]
    <2>1. b \in Room
      <3>1. Buried(r, d.at) \in Room
        BY BuriedFacts DEF Removal
      <3> QED  BY <3>1, ProvenFacts
    <2>2. Unguarded(b)
      BY BuriedUnguarded
    <2>3. r.copies = {} /\ r.tomb = Never => b.proof # NoOne
      BY BuriedUnheld DEF Unguarded
    <2> HIDE DEF b
    <2>4. s.copies = b.copies /\ s.tomb = b.tomb /\ s.guard = b.guard /\ s.proof = b.proof
      BY <2>1, PendingFacts
    <2> HIDE DEF s
    <2>5. Unguarded(s) /\ Heeded(m, r, s)
      BY <2>2, <2>3, <2>4 DEF Unguarded, Heeded, Holds
    <2> QED  BY <1>2, <2>5 DEF s
  <1>3. CASE RemovalHeard(m, r, d) = Pended(r, d) /\ Pended(r, d) # r
    <2> DEFINE s == [r EXCEPT !.pending = {d}]
    <2>1. RemovalHeard(m, r, d) = s /\ \A p \in r.pending : ~(p.at >= d.at)
      BY <1>3 DEF Pended
    <2>2. s.copies = r.copies /\ s.tomb = r.tomb /\ s.guard = r.guard /\ s.pending = {d}
      BY PendingFacts
    <2> HIDE DEF s
    <2>3. \A p \in r.pending : d.at >= p.at
      BY <1>0, <2>1, Times DEF Removal
    <2>4. Unguarded(s) /\ Heeded(m, r, s)
      BY <2>2, <2>3 DEF Unguarded, Heeded, Holds
    <2> QED  BY <2>1, <2>4
  <1> QED  BY <1>1, <1>2, <1>3 DEF RemovalHeard

\* So does what m hears of a copy.
LEMMA CopyHeeded ==
    ASSUME NEW m \in Member, now \in 1..MaxTime, NEW r, r \in Room, Unguarded(r),
           \A p, q \in r.pending : p = q, NEW sent \in Copy
    PROVE  LET s == CopyHeard(m, r, sent)
           IN  Unguarded(s) /\ Heeded(m, r, s)
  <1> DEFINE c == [sent EXCEPT !.at = Earlier(sent.at, Date(m))]
             rest == [r EXCEPT !.pending = {}]
             met == {p \in r.pending : p.by \in {owner[m], c.by}}
             h == CopyHeard(m, r, sent)
  <1>1. c \in Copy /\ c.rev \in Revival /\ c.rev.at \in Time \union {Never}
    BY Dates, Smaller DEF Copy, Revival
  <1>2. \A p \in r.pending : p \in Removal /\ p.at \in Nat /\ p.at >= p.at
    BY Times DEF Room, Removal
  <1>3. /\ r.tomb # Never => \/ h = r
                            \/ h = Listed(Guarded(Cleared(r), c.rev.at), c)
                            \/ h = Listed(Cleared(r), c)
        /\ r.tomb = Never /\ met = {} => h = Listed(r, c)
        /\ r.tomb = Never /\ met # {} =>
              \E p \in met : h = IF Revives(m, c.rev, p.by, p.at)
                                THEN Listed(Guarded(rest, c.rev.at), c)
                                ELSE Proven(Buried(rest, p.at), p)
    BY DEF CopyHeard, PendingMet
  <1> HIDE DEF h, c
  <1>4. CASE r.tomb # Never
    <2>1. Cleared(r) \in Room /\ Guarded(Cleared(r), c.rev.at) \in Room
      BY <1>1, ClearedFacts, GuardedFacts
    <2>2. Unguarded(h)
      BY <1>1, <1>3, <1>4, <2>1, ListedUnguarded
    <2> QED  BY <1>4, <2>2 DEF Heeded, h
  <1>5. CASE r.tomb = Never /\ met = {}
    <2>1. /\ Unguarded(h) /\ h.pending = r.pending
          /\ r.copies = {} => h.copies = {c}
      <3>1. h = Listed(r, c)
        BY <1>3, <1>5
      <3>2. Unguarded(h)
        BY <1>1, <3>1, ListedUnguarded
      <3>3. h.pending = r.pending /\ h.copies = IF r.copies = {} THEN {c} ELSE r.copies
        BY <1>1, <3>1, ListedFacts
      <3> QED  BY <3>2, <3>3
    <2>2. \A p \in r.pending : p.by \notin {owner[m], c.by}
      BY <1>5
    <2>3. Heeded(m, r, h)
      BY <1>2, <2>1, <2>2 DEF Heeded, Holds
    <2> QED  BY <2>1, <2>3 DEF h
  <1>6. CASE r.tomb = Never /\ met # {}
    <2>1. PICK p \in met : h = IF Revives(m, c.rev, p.by, p.at)
                                THEN Listed(Guarded(rest, c.rev.at), c)
                                ELSE Proven(Buried(rest, p.at), p)
      BY <1>3, <1>6
    <2>2. p \in Removal /\ p.at \in Nat /\ \A q \in r.pending : q = p
      BY <1>2
    <2>3. rest \in Room /\ rest.copies = r.copies /\ rest.tomb = r.tomb /\ rest.guard = r.guard
      BY PendingFacts
    <2> HIDE DEF rest, met
    <2>4. CASE Revives(m, c.rev, p.by, p.at)
      <3> DEFINE g == Guarded(rest, c.rev.at)
      <3>1. g \in Room /\ g.guard >= p.at
        <4>1. g \in Room /\ g.guard = Later(c.rev.at, rest.guard)
          BY <1>1, <2>3, GuardedFacts DEF Guarded, Room
        <4>2. c.rev.at \in Nat /\ rest.guard \in Nat /\ c.rev.at >= p.at
          BY <1>1, <2>3, <2>4, Times DEF Room, Revives
        <4> QED  BY <2>2, <4>1, <4>2 DEF Later
      <3> HIDE DEF g
      <3>2. h = Listed(g, c)
        BY <2>1, <2>4 DEF g
      <3>3. Listed(g, c).guard = g.guard
        BY <3>1 DEF Listed, Room
      <3>4. Unguarded(h)
        BY <1>1, <3>1, <3>2, ListedUnguarded
      <3>5. Heeded(m, r, h)
        BY <2>2, <3>1, <3>2, <3>3 DEF Heeded
      <3> QED  BY <3>4, <3>5 DEF h
    <2>5. CASE ~Revives(m, c.rev, p.by, p.at)
      <3>1. h = Proven(Buried(rest, p.at), p)
        BY <2>1, <2>5
      <3>2. Unguarded(rest)
        BY <2>3 DEF Unguarded
      <3>3. Unguarded(h)
        BY <2>2, <2>3, <3>1, <3>2, BuriedUnguarded
      <3>4. r.copies = {} => h.proof # NoOne
        BY <1>6, <2>2, <2>3, <3>1, <3>2, BuriedUnheld DEF Unguarded
      <3>5. Heeded(m, r, h)
        BY <3>4 DEF Heeded, Holds
      <3> QED  BY <3>3, <3>5 DEF h
    <2> QED  BY <2>4, <2>5
  <1> QED  BY <1>4, <1>5, <1>6

\* Nobody's knowledge changes but one's, and that is right.
LEMMA OneHeeded ==
    ASSUME IInv, \A m \in Member : Unguarded(room[m]),
           NEW n \in Member, NEW r, room' = [room EXCEPT ![n] = r],
           Unguarded(r), Heeded(n, room[n], r)
    PROVE  \A m \in Member : Unguarded(room'[m]) /\ Heeded(m, room[m], room'[m])
  <1> TAKE m \in Member
  <1>1. room \in [Member -> Room] /\ room[m] \in Room
    BY DEF IInv
  <1>2. CASE m = n
    BY <1>1, <1>2
  <1>3. CASE m # n
    <2>1. room'[m] = room[m]
      BY <1>1, <1>3
    <2>2. \A p \in room[m].pending : p.at >= p.at
      BY <1>1, Times DEF Room, Removal
    <2>3. Heeded(m, room[m], room[m])
      BY <2>2 DEF Heeded, Holds
    <2> QED  BY <2>1, <2>3
  <1> QED  BY <1>2, <1>3

LEMMA GossipHeeded ==
    ASSUME IInv, \A m \in Member : Unguarded(room[m]), Gossip
    PROVE  \A m \in Member : Unguarded(room'[m]) /\ Heeded(m, room[m], room'[m])
  <1> DEFINE Right == \A m \in Member : Unguarded(room'[m]) /\ Heeded(m, room[m], room'[m])
  <1>1. \A n \in Member : /\ room[n] \in Room /\ Sound(room[n], Date(n), revivals)
                         /\ \A p, q \in room[n].pending : p = q
    BY DEF IInv, Sound
  <1>2. ASSUME NEW n \in Member, NEW r, Hears(n, r), Unguarded(r), Heeded(n, room[n], r)
        PROVE  Right
    BY <1>2, OneHeeded DEF Hears
  <1>3. ASSUME NEW n \in Member, NEW d \in Removal, Hears(n, RemovalHeard(n, room[n], d))
        PROVE  Right
    <2>1. Unguarded(RemovalHeard(n, room[n], d)) /\ Heeded(n, room[n], RemovalHeard(n, room[n], d))
      BY <1>1, RemovalHeeded
    <2> HIDE DEF Right
    <2> QED  BY <1>2, <1>3, <2>1
  <1>4. ASSUME NEW n \in Member, NEW c \in Copy, Hears(n, CopyHeard(n, room[n], c))
        PROVE  Right
    <2>1. Unguarded(CopyHeard(n, room[n], c)) /\ Heeded(n, room[n], CopyHeard(n, room[n], c))
      BY <1>1, CopyHeeded DEF IInv
    <2> HIDE DEF Right
    <2> QED  BY <1>2, <1>4, <2>1
  <1>5. ASSUME room' = room PROVE Right
    <2>1. Founder \in Member
      BY FilesAssumption
    <2>2. room' = [room EXCEPT ![Founder] = room[Founder]]
      BY <1>5, <2>1 DEF IInv
    <2>3. \A p \in room[Founder].pending : p.at >= p.at
      BY <1>1, <2>1, Times DEF Room, Removal
    <2>4. Heeded(Founder, room[Founder], room[Founder])
      BY <2>3 DEF Heeded, Holds
    <2> QED  BY <2>1, <2>2, <2>4, OneHeeded
  <1>6. ASSUME NEW m \in Member, Learn(m) PROVE Right
    <2> DEFINE r == room[m]
               s == [r EXCEPT !.proof = m, !.kept = Later(r.tomb, @)]
    <2>1. r \in Room /\ m # NoOne /\ room \in [Member -> Room]
      BY <1>1, FilesAssumption DEF IInv
    <2>2. CASE m = Heir /\ r.tomb # Never
      <3>1. room' = [room EXCEPT ![m] = s]
        BY <1>6, <2>2 DEF Learn
      <3>2. s.tomb = r.tomb
        BY <2>1 DEF Room
      <3> HIDE DEF s
      <3>3. Unguarded(s) /\ Heeded(m, r, s)
        BY <2>2, <3>2 DEF Unguarded, Heeded
      <3> QED  BY <3>1, <3>3, OneHeeded
    <2>3. CASE ~(m = Heir /\ r.tomb # Never)
      <3>1. room' = room
        BY <1>6, <2>1, <2>3 DEF Learn
      <3> QED  BY <1>5, <3>1
    <2> QED  BY <2>2, <2>3
  <1> HIDE DEF Right
  <1>7. ASSUME NEW m \in Member, NEW n \in Member, Greet(m, n) PROVE Right
    <2>1. CASE \E c \in room[m].copies : Hears(n, CopyHeard(n, room[n], c))
      BY <1>1, <1>4, <2>1 DEF Room
    <2>2. CASE /\ room[m].proof # NoOne
               /\ Hears(n, RemovalHeard(n, room[n], [by |-> room[m].proof, at |-> room[m].tomb]))
      <3>1. [by |-> room[m].proof, at |-> room[m].tomb] \in Removal
        BY <1>1, <2>2 DEF Sound, Room, Removal, Id
      <3> QED  BY <1>3, <2>2, <3>1
    <2> QED  BY <1>7, <2>1, <2>2 DEF Greet
  <1>8. ASSUME NEW n \in Member, NEW f \in net, Deliver(n, f) PROVE Right
    <2>1. f \in Add \union Del
      BY DEF IInv
    <2>2. CASE f.kind = "add" /\ Hears(n, CopyHeard(n, room[n], f.copy))
      BY <1>4, <2>1, <2>2 DEF Add, Del
    <2>3. CASE f.kind = "del" /\ Hears(n, RemovalHeard(n, room[n], f.del))
      BY <1>3, <2>1, <2>3 DEF Add, Del
    <2> QED  BY <1>8, <2>2, <2>3 DEF Deliver
  <1>9. ASSUME Tick PROVE Right
    BY <1>5, <1>9 DEF Tick
  <1>10. Right
    BY <1>6, <1>7, <1>8, <1>9 DEF Gossip
  <1> QED  BY <1>10 DEF Right

LEMMA UsersUnguarded ==
    ASSUME IInv, \A m \in Member : Unguarded(room[m]), Users
    PROVE  \A m \in Member : Unguarded(room'[m])
  <1> DEFINE Right == \A m \in Member : Unguarded(room'[m])
  <1>1. /\ room \in [Member -> Room] /\ now \in 1..MaxTime
        /\ \A n \in Member : room[n] \in Room /\ Sound(room[n], Date(n), revivals)
    BY DEF IInv, Sound
  <1>2. ASSUME NEW m \in Member, NEW r, room' = [room EXCEPT ![m] = r], Unguarded(r)
        PROVE  Right
    BY <1>1, <1>2
  <1>3. ASSUME NEW r \in Room, NEW t, NEW sg, Sound(r, t, sg), Unguarded(r)
        PROVE  Unguarded(Restarted(r))
    <2> DEFINE s == Restarted(r)
               bare == {[c EXCEPT !.rev = NoRevival] : c \in r.copies}
    <2>1. s.tomb = r.kept /\ s.guard = r.guard /\ s.copies = {c \in bare : c.at > r.kept}
      BY DEF Restarted, Room
    <2>2. ASSUME r.kept = Never, s.copies = {} PROVE r.guard = Never
      <3>1. \A c \in r.copies : [c EXCEPT !.rev = NoRevival].at > r.kept
        BY <2>2, Times DEF Room, Copy
      <3>2. r.copies = {}
        <4>1. ASSUME NEW c \in r.copies PROVE FALSE
          <5>1. [c EXCEPT !.rev = NoRevival] \in {e \in bare : e.at > r.kept}
            BY <3>1
          <5> QED  BY <2>1, <2>2, <5>1
        <4> QED  BY <4>1
      <3>3. r.tomb = Never
        <4>1. r.tomb # Never => r.tomb \in Time /\ Never >= r.tomb
          BY <1>3, <2>2 DEF Sound, Room
        <4>2. \A u \in Time : u \in Nat /\ u # 0
          BY Times
        <4> QED  BY <4>1, <4>2, Times
      <3> QED  BY <1>3, <3>2, <3>3 DEF Unguarded
    <2> QED  BY <2>1, <2>2 DEF Unguarded
  <1>4. ASSUME NEW m \in Member, Share(m) PROVE Right
    <2> DEFINE r == room[m]
               rev == IF r.proof = NoOne THEN NoRevival ELSE [by |-> m, at |-> r.tomb]
               c == [by |-> m, at |-> Date(m), rev |-> rev]
    <2>1. room' = [room EXCEPT ![m] = Listed(Guarded(Cleared(r), rev.at), c)]
      BY <1>4 DEF Share
    <2>2. rev \in Revival /\ rev.at \in Time \union {Never}
      BY <1>1 DEF NoRevival, Revival, Id, Room
    <2> HIDE DEF rev
    <2>3. c \in Copy
      BY <1>1, <2>2, Dates DEF Copy
    <2>4. Guarded(Cleared(r), rev.at) \in Room
      BY <1>1, <2>2, ClearedFacts, GuardedFacts
    <2> HIDE DEF c, r
    <2> QED  BY <1>2, <2>1, <2>3, <2>4, ListedUnguarded
  <1>5. ASSUME NEW m \in Member, Remove(m) PROVE Right
    <2> DEFINE r == room[m]
               d == [by |-> m, at |-> Date(m)]
               noted == [r EXCEPT !.kept = Later(d.at, @)]
               buried == Buried(noted, d.at)
               s == IF CanDelete(m, r, m) THEN Proven(buried, d) ELSE buried
    <2>1. room' = [room EXCEPT ![m] = s] /\ r.copies # {} /\ r \in Room
      BY <1>1, <1>5 DEF Remove, Holds
    <2>2. d \in Removal /\ d.at \in Time /\ d.at # Never
      BY <1>1, Dates, Times DEF Removal
    <2> HIDE DEF d
    <2>3. noted \in Room /\ Unguarded(noted)
      <3>1. Later(d.at, r.kept) \in Time
        BY <2>1, <2>2, Larger DEF Room
      <3> QED  BY <2>1, <3>1 DEF Room, Unguarded
    <2> HIDE DEF noted, r
    <2>4. Unguarded(Proven(buried, d))
      BY <2>2, <2>3, BuriedUnguarded
    <2>5. Unguarded(buried)
      <3>1. CASE Outranks(noted, d.at)
        <4>1. buried.tomb = Later(d.at, noted.tomb)
          BY <2>2, <2>3, <3>1, BuriedFacts
        <4>2. Later(d.at, noted.tomb) # Never
          BY <2>2, <2>3, Larger, Times DEF Room
        <4> QED  BY <4>1, <4>2 DEF Unguarded
      <3>2. CASE ~Outranks(noted, d.at)
        BY <2>2, <2>3, <3>2, BuriedFacts
      <3> QED  BY <3>1, <3>2
    <2>6. Unguarded(s)
      BY <2>4, <2>5
    <2> HIDE DEF s
    <2> QED  BY <1>2, <2>1, <2>6
  <1>6. ASSUME NEW m \in Member, Restart(m) PROVE Right
    <2>1. Unguarded(Restarted(room[m]))
      BY <1>1, <1>3
    <2> QED  BY <1>2, <1>6, <2>1 DEF Restart
  <1>7. ASSUME NEW m \in Member, RemoveUnready(m) PROVE Right
    <2> DEFINE r == room[m]
               k == Later(Date(m), r.kept)
               noted == [r EXCEPT !.kept = k]
    <2>1. room' = [room EXCEPT ![m] = Restarted(noted)] /\ r \in Room
      BY <1>1, <1>7 DEF RemoveUnready
    <2>2. k # Never
      BY <1>1, <2>1, Dates, Larger, Times DEF Room
    <2> HIDE DEF k
    <2>3. Restarted(noted).tomb = k
      BY <2>1 DEF Restarted, Room
    <2> HIDE DEF noted
    <2>4. Unguarded(Restarted(noted))
      BY <2>2, <2>3 DEF Unguarded
    <2> QED  BY <1>2, <2>1, <2>4
  <1>8. ASSUME HandOver PROVE Right
    BY <1>8 DEF HandOver
  <1> HIDE DEF Right
  <1>9. Right
    BY <1>4, <1>5, <1>6, <1>7, <1>8 DEF Users
  <1> QED  BY <1>9 DEF Right

\* The state has its types; at most one copy is listed and one removal pending.
THEOREM TypeCorrect == Spec => []TypeOK
  <1>1. IInv => TypeOK
    BY DEF IInv, Sound, TypeOK
  <1> QED  BY Inductive, <1>1, PTL

\* What is listed is not removed.
THEOREM ListedNotRemoved == Spec => []ListedOrRemoved
  <1>1. IInv => ListedOrRemoved
    BY DEF IInv, Sound, ListedOrRemoved, Holds
  <1> QED  BY Inductive, <1>1, PTL

\* A proven removal is lifted by nothing else than a revival by the owner or the remover.
THEOREM Lifted == Spec => LiftedByRight
  <1>1. IInv /\ [Next]_vars =>
          [\A m \in Member : room[m].proof # NoOne /\ room'[m].tomb = Never =>
              \E rev \in revivals' : rev.at >= room[m].tomb /\ rev.by \in {owner[m], room[m].proof}]_vars
    BY NextSound DEF Lawful
  <1> QED  BY Inductive, <1>1, PTL DEF Spec, LiftedByRight

\* A removal takes nothing away that a revival guards against it.
THEOREM Stands == Spec => RevivalStands
  <1>1. IInv /\ [Next]_vars =>
          [\A m \in Member : Holds(room[m]) /\ room'[m].proof # NoOne =>
              room'[m].tomb > room[m].guard]_vars
    BY NextSound DEF Lawful, Holds
  <1> QED  BY Inductive, <1>1, PTL DEF Spec, RevivalStands

\* A pending removal is kept until it can be judged, whatever others send.
THEOREM PendingKept == Spec => PendingHeeded
  <1> DEFINE J == IInv /\ \A m \in Member : Unguarded(room[m])
  <1>1. Init => J
    <2>1. Init => \A m \in Member : Unguarded(room[m])
      BY DEF Init, Blank, Unguarded
    <2> QED  BY <2>1, InitSound
  <1>2. J /\ [Next]_vars => J'
    <2> SUFFICES ASSUME J, [Next]_vars PROVE J'
      OBVIOUS
    <2>1. IInv'
      BY NextSound
    <2>2. CASE Next
      BY <2>1, <2>2, GossipHeeded, UsersUnguarded DEF Next
    <2>3. CASE UNCHANGED vars
      BY <2>1, <2>3 DEF vars, Unguarded
    <2> QED  BY <2>2, <2>3
  <1>3. J /\ [Next]_vars => [Gossip => \A m \in Member : Heeded(m, room[m], room'[m])]_vars
    BY GossipHeeded
  <1> HIDE DEF J
  <1> QED  BY <1>1, <1>2, <1>3, PTL DEF Spec, PendingHeeded
=============================================================================
