-------------------------- MODULE LanFloors_proofs --------------------------
(***************************************************************************)
(* When the watermark of LanAuthority does its work.                       *)
(*                                                                         *)
(* The remembered floors keep the grants of an earlier evening out as long *)
(* as the two copies of the remembered session, the engine window's and    *)
(* the main process's, speak of the same session (Concord), and no process *)
(* dies with a report under way.  The code does not see to the first, and  *)
(* the runs lan_floor and lan_rotate show what comes of it; here is the    *)
(* proof that nothing else is missing, for any room, any clock bound and   *)
(* any number of sessions.                                                 *)
(*                                                                         *)
(* Of a step, only what it does to one install m matters.  It is calm (at  *)
(* most m's core goes, or a passive one is made), it applies a grant, it   *)
(* opens a session, or it is one of four steps of the main process.        *)
(***************************************************************************)
EXTENDS LanAuthority_proofs

\* The session the main process of m remembers, or will once it has handled the
\* first report under way.
Will(m) == IF disk[m].sid # 0 THEN disk[m].sid
           ELSE IF ipc[m] # <<>> THEN Head(ipc[m]).sid ELSE 0

\* What the engine's persistFloor says: the two copies of the remembered session
\* cannot disagree about which session the floor belongs to.
Concord(m) == Will(m) \in {0, room[m].sid}

-----------------------------------------------------------------------------
(* What a step does to one install *)

\* What the engine window of m remembers of session s.
FloorOf(m, s) == IF room[m].sid = s THEN room[m].floor ELSE 0

\* A core that is as b was, but for the members that may be gone.
Kept(c, b) ==
    /\ c.sid = b.sid /\ c.isHost = b.isHost /\ c.seed = b.seed /\ c.floor = b.floor
    /\ c.admitAt = b.admitAt /\ c.admitted \subseteq b.admitted

\* A core made from gossip, seeded from what m remembers.
Passive(m, c) ==
    /\ ~c.isHost /\ c.sid \in Sid
    /\ c.seed = FloorOf(m, c.sid) /\ c.floor = FloorOf(m, c.sid)

\* The core of m, apart from grants: torn down, kept, or made from gossip.
Base(m, c) == (c.sid = 0 /\ ~c.isHost) \/ Kept(c, core[m]) \/ Passive(m, c)

\* The request of m's main process is kept, answered by the engine or forgotten.
CallKept(m) ==
    \/ call'[m] = call[m]
    \/ call'[m].op = "none"
    \/ call[m].op = "dial" /\ call'[m].op = "reply" /\ call'[m].sid = call[m].sid

\* No copy of the floor changes.
Calm(m) ==
    /\ core'[m] \in Core /\ Base(m, core'[m])
    /\ room'[m] = room[m] /\ disk'[m] = disk[m] /\ ipc'[m] = ipc[m]
    /\ top'[m] = top[m]
    /\ CallKept(m)
    /\ m = Host => bar' = bar

\* Grants of the session of c were applied at m, which took c to d and the highest
\* one applied to n.
Grew(m, c, d, n) ==
    /\ c \in Core /\ d \in Core /\ n \in 0..MaxAt
    /\ Base(m, c) /\ c.sid \in Sid
    /\ d.sid = c.sid /\ d.isHost = c.isHost /\ d.seed = c.seed
    /\ c.floor <= d.floor /\ n <= d.floor
    /\ \A t \in Member :
          /\ c.admitAt[t] <= d.admitAt[t]
          /\ t \in d.admitted => (t \in c.admitted \/ c.admitAt[t] < d.admitAt[t])

\* The session of m that hosts may be left by an eviction, which main waits for.
Applying(m) ==
    \E c \in Core, d \in Core, n \in 0..MaxAt :
        /\ Grew(m, c, d, n) /\ Report(m, c, d) /\ disk'[m] = disk[m]
        /\ top'[m] = top[m] \/ top'[m] = [top[m] EXCEPT ![c.sid] = Higher(@, n)]
        /\ \/ CallKept(m)
           \/ m = Host /\ c.isHost /\ call'[m].op = "evict" /\ c.sid \in gone'
        /\ \/ m = Host /\ c.isHost
           \/ \E g \in net : g \in Grant /\ g.sid = c.sid
        /\ m = Host => bar' = bar

\* A session is opened at m: the engine adopts it, and the host makes a core.
Opening(m) ==
    \E s \in Sid :
        /\ room'[m] = Adopted(m, s)
        /\ disk'[m] = disk[m] /\ ipc'[m] = ipc[m] /\ top'[m] = top[m]
        /\ call[m].op = "none" /\ call'[m] = [op |-> "dial", sid |-> s]
        /\ \/ core'[m] = core[m] /\ ~core[m].isHost /\ (m = Host => bar' = bar)
           \/ /\ m = Host /\ bar' = top[Host][s]
              /\ core'[m].sid = s /\ core'[m].admitted = {}
              /\ core'[m].seed = Adopted(m, s).floor
              /\ core'[m].floor = Adopted(m, s).floor
              /\ core'[m].admitAt = [t \in Member |-> Adopted(m, s).floor]

\* The fields of a core just made.
LEMMA NewCoreFields ==
    ASSUME NEW s \in Sid, NEW host \in BOOLEAN, NEW r \in Remembered
    PROVE  LET c == NewCore(s, host, r)
               seed == IF r.sid = s THEN r.floor ELSE 0
           IN  /\ c \in Core /\ c.sid = s /\ c.isHost = host /\ c.admitted = {}
               /\ c.seed = seed /\ c.floor = seed
               /\ c.admitAt = [t \in Member |-> seed]
<1> DEFINE c == NewCore(s, host, r)
<1>1. c \in Core /\ c.sid = s /\ c.admitted = {}
  BY NewCoreIsGood DEF GoodCore
<1>2. /\ c.isHost = host
      /\ c.seed = IF r.sid = s THEN r.floor ELSE 0
      /\ c.floor = IF r.sid = s THEN r.floor ELSE 0
      /\ c.admitAt = [t \in Member |-> IF r.sid = s THEN r.floor ELSE 0]
  BY DEF NewCore, NoCore
<1> HIDE DEF c
<1> QED BY <1>1, <1>2 DEF c

\* What a grant does to the watermark, and to the seed.
LEMMA GrantFloors ==
    ASSUME NEW c \in Core, NEW t \in Member, NEW at \in At
    PROVE  /\ Admitting(c, t, at).floor = Higher(c.floor, at)
           /\ Admitting(c, t, at).seed = c.seed
           /\ Evicting(c, t, at).floor = Higher(c.floor, at)
           /\ Evicting(c, t, at).seed = c.seed
BY DEF Admitting, Evicting, Core

\* One pass of signed admits: the core grows, and no grant that is broadcast is
\* above what the host itself has then applied.
LEMMA SignedGrew ==
    ASSUME Inv, NEW c, GoodCore(c, net), c.sid \in Sid, Base(Host, c),
           NEW T \in SUBSET Member, NEW extra \in SUBSET Genesis,
           c.evicted = core[Host].evicted, SignAdmits(c, T, extra)
    PROVE  \E d \in Core, n \in 0..MaxAt :
              /\ Grew(Host, c, d, n) /\ Report(Host, c, d)
              /\ top' = top \/ Learnt(Host, c.sid, n)
              /\ \A g \in net' : g \in Grant =>
                    \/ g \in net
                    \/ g.sid = c.sid /\ g.at <= n /\ Learnt(Host, c.sid, n)
<1> DEFINE Ok(f) == {t \in T : CanAdmit(c, c.sid, t, f[t])}
           Signed(f, base, n) ==
               [c EXCEPT
                   !.admitted = @ \cup Ok(f),
                   !.admitAt = [t \in Member |-> IF t \in Ok(f) THEN f[t] ELSE @[t]],
                   !.floor = n, !.lastAt = base + Cardinality(T)]
           Sent(f) == {AdmitGrant(c.sid, t, f[t]) : t \in Ok(f)}
<1>1. RestOK /\ core \in [Install -> Core] /\ Host \in Install /\ c \in Core
  BY TypeSplit, MemberAssumption DEF Inv, GoodCore
<1>2. PICK base \in Bases(c) :
        /\ base + Cardinality(T) <= MaxAt
        /\ \E f \in Times(base, T), n \in 0..MaxAt :
              /\ n \in {c.floor} \cup {f[t] : t \in Ok(f)}
              /\ \A k \in {c.floor} \cup {f[t] : t \in Ok(f)} : k <= n
              /\ Report(Host, c, Signed(f, base, n))
              /\ net' = net \cup extra \cup Sent(f)
              /\ IF Ok(f) = {} THEN UNCHANGED <<issued, top>>
                 ELSE issued' = Higher(issued, n) /\ Learnt(Host, c.sid, n)
  BY DEF SignAdmits, AdmitGrant
<1>3. PICK f \in Times(base, T), n \in 0..MaxAt :
              /\ \A k \in {c.floor} \cup {f[t] : t \in Ok(f)} : k <= n
              /\ Report(Host, c, Signed(f, base, n))
              /\ net' = net \cup extra \cup Sent(f)
              /\ IF Ok(f) = {} THEN UNCHANGED <<issued, top>>
                 ELSE issued' = Higher(issued, n) /\ Learnt(Host, c.sid, n)
  BY <1>2
<1> DEFINE ok == Ok(f)
           d == Signed(f, base, n)
<1>4. base \in 0..MaxAt /\ f \in [T -> At]
  BY <1>1, <1>2, BasesType, TimesType
<1>5. \A t \in ok : t \in T /\ c.admitAt[t] < f[t] /\ f[t] <= n
  BY <1>3 DEF CanAdmit
<1>6. core' = [core EXCEPT ![Host] = d] /\ core' \in [Install -> Core]
  BY <1>3, SignAdmitsEffect DEF Report, CoresStep
<1>7. d \in Core
  BY <1>1, <1>6
<1>8. /\ d.sid = c.sid /\ d.isHost = c.isHost /\ d.seed = c.seed /\ d.floor = n
      /\ d.admitted = c.admitted \cup ok
      /\ d.admitAt = [t \in Member |-> IF t \in ok THEN f[t] ELSE c.admitAt[t]]
  BY <1>1 DEF Core
<1>9. c.floor <= n
  BY <1>3
<1>10. \A g \in Sent(f) : g.sid = c.sid /\ g.at <= n
  BY <1>5 DEF AdmitGrant
<1>11. Report(Host, c, d)
  BY <1>3
<1>12. \A g \in net' : g \in Grant => g \in net \/ g \in Sent(f)
  BY <1>3 DEF Grant, Genesis
<1>13. Sent(f) # {} => Learnt(Host, c.sid, n)
  BY <1>3
<1>14. top' = top \/ Learnt(Host, c.sid, n)
  BY <1>3
<1> HIDE DEF d, ok, Signed, Sent
<1>15. ASSUME NEW t \in Member
       PROVE  /\ c.admitAt[t] <= d.admitAt[t]
              /\ t \in d.admitted => (t \in c.admitted \/ c.admitAt[t] < d.admitAt[t])
  <2>1. c.admitAt[t] \in 0..MaxAt
    BY <1>1 DEF Core
  <2>2. CASE t \in ok
    <3>1. c.admitAt[t] < f[t] /\ f[t] \in Int
      BY <1>4, <1>5, <2>2 DEF At
    <3> QED BY <1>8, <2>1, <2>2, <3>1
  <2>3. CASE t \notin ok
    BY <1>8, <2>1, <2>3
  <2> QED BY <2>2, <2>3
<1>16. Grew(Host, c, d, n)
  BY <1>1, <1>7, <1>8, <1>9, <1>15 DEF Grew
<1> QED BY <1>7, <1>10, <1>11, <1>12, <1>13, <1>14, <1>16

\* An admit above the member's own floor, applied.
LEMMA AdmitGrew ==
    ASSUME NEW m \in Install, NEW c \in Core, Base(m, c), c.sid \in Sid,
           NEW t \in Member, NEW at \in At, c.admitAt[t] < at
    PROVE  Grew(m, c, Admitting(c, t, at), at)
<1> DEFINE d == Admitting(c, t, at)
<1>1. /\ d \in Core /\ d.sid = c.sid /\ d.isHost = c.isHost
      /\ d.admitted = c.admitted \cup {t}
      /\ d.admitAt = [c.admitAt EXCEPT ![t] = at]
  BY AdmittingEffect
<1>2. d.floor = Higher(c.floor, at) /\ d.seed = c.seed
  BY GrantFloors
<1> HIDE DEF d
<1>3. c.floor \in 0..MaxAt /\ c.admitAt \in [Member -> 0..MaxAt] /\ at \in 0..MaxAt
  BY BoundAssumption DEF Core, At
<1>4. c.floor <= d.floor /\ at <= d.floor
  BY <1>2, <1>3 DEF Higher
<1>5. ASSUME NEW u \in Member
      PROVE  /\ c.admitAt[u] <= d.admitAt[u]
             /\ u \in d.admitted => (u \in c.admitted \/ c.admitAt[u] < d.admitAt[u])
  <2>1. CASE u = t
    BY <1>1, <1>3, <2>1
  <2>2. CASE u # t
    BY <1>1, <1>3, <2>2
  <2> QED BY <2>1, <2>2
<1>6. Grew(m, c, d, at)
  BY <1>1, <1>2, <1>3, <1>4, <1>5 DEF Grew
<1> QED BY <1>6 DEF d

\* An evict applied; whatever else the step does to the core, it leaves what the
\* watermark and the admissions are.
LEMMA EvictGrew ==
    ASSUME NEW m \in Install, NEW c \in Core, Base(m, c), c.sid \in Sid,
           NEW t \in Member, NEW at \in At, NEW d,
           SameAdmission(d, Evicting(c, t, at)),
           d.seed = Evicting(c, t, at).seed, d.floor = Evicting(c, t, at).floor
    PROVE  Grew(m, c, d, at)
<1>1. /\ d \in Core /\ d.sid = c.sid /\ d.isHost = c.isHost
      /\ d.admitted = c.admitted \ {t} /\ d.admitAt = c.admitAt
  BY EvictingEffect DEF SameAdmission
<1>2. d.floor = Higher(c.floor, at) /\ d.seed = c.seed
  BY GrantFloors
<1>3. c.floor \in 0..MaxAt /\ c.admitAt \in [Member -> 0..MaxAt] /\ at \in 0..MaxAt
  BY BoundAssumption DEF Core, At
<1>4. c.floor <= d.floor /\ at <= d.floor
  BY <1>2, <1>3 DEF Higher
<1> QED BY <1>1, <1>2, <1>3, <1>4 DEF Grew

\* Nothing of m changes.
Untouched(m) ==
    /\ core'[m] = core[m] /\ room'[m] = room[m] /\ disk'[m] = disk[m]
    /\ ipc'[m] = ipc[m] /\ call'[m] = call[m] /\ top'[m] = top[m]
    /\ m = Host => bar' = bar

\* Then the step is calm.
LEMMA UntouchedIsCalm ==
    ASSUME Inv, NEW m \in Install, Untouched(m)
    PROVE  Calm(m)
BY InvFacts DEF Untouched, Calm, Base, Kept, CallKept

\* The actions of one install leave the others alone.
LEMMA HostElsewhere ==
    ASSUME Inv, NEW m \in Install, m # Host, HostNext
    PROVE  Untouched(m)
<1>1. RestOK /\ core \in [Install -> Core] /\ Host \in Install
  BY InvFacts, MemberAssumption
<1>2. CASE HostOpen
  BY <1>1, <1>2 DEF HostOpen, Untouched, RestOK
<1>3. ASSUME NEW c, NEW T, NEW extra, SignAdmits(c, T, extra)
      PROVE  /\ core'[m] = core[m] /\ room'[m] = room[m]
             /\ ipc'[m] = ipc[m] /\ top'[m] = top[m]
  <2>1. PICK d : Report(Host, c, d)
    BY <1>3 DEF SignAdmits
  <2>2. top' = top \/ \E n : Learnt(Host, c.sid, n)
    BY <1>3 DEF SignAdmits
  <2> QED BY <1>1, <2>1, <2>2 DEF Report, Learnt, RestOK
<1>4. ASSUME NEW picks \in SUBSET (Member \ {Host}), HostConnected(picks)
      PROVE  Untouched(m)
  BY <1>1, <1>3, <1>4 DEF HostConnected, Untouched, RestOK
<1>5. ASSUME NEW t \in Member \ {Host}, Invite(t) PROVE Untouched(m)
  BY <1>1, <1>3, <1>5 DEF Invite, Untouched, RestOK
<1>6. ASSUME NEW t \in Member \ {Host}, Evict(t) PROVE Untouched(m)
  <2>1. PICK d, n : Report(Host, core[Host], d) /\ Learnt(Host, core[Host].sid, n)
    BY <1>6 DEF Evict
  <2>2. /\ core'[m] = core[m] /\ room'[m] = room[m]
        /\ ipc'[m] = ipc[m] /\ top'[m] = top[m]
    BY <1>1, <2>1 DEF Report, Learnt, RestOK
  <2>3. call'[m] = call[m] /\ disk' = disk
    BY <1>1, <1>6 DEF Evict, RestOK
  <2> QED BY <2>2, <2>3 DEF Untouched
<1>7. CASE EvictReplied
  BY <1>1, <1>7 DEF EvictReplied, Untouched, RestOK
<1>8. CASE Remint
  BY <1>1, <1>3, <1>8 DEF Remint, Untouched, RestOK
<1> QED BY <1>2, <1>4, <1>5, <1>6, <1>7, <1>8 DEF HostNext

LEMMA MemberElsewhere ==
    ASSUME Inv, NEW a \in Install, NEW m \in Install, m # a, MemberNext(a)
    PROVE  Untouched(m)
<1>1. RestOK /\ core \in [Install -> Core]
  BY InvFacts
<1>2. CASE JoinerOpen(a)
  BY <1>1, <1>2 DEF JoinerOpen, Untouched, RestOK
<1>3. CASE JoinerConnected(a)
  BY <1>1, <1>3 DEF JoinerConnected, Untouched, RestOK
<1>4. CASE DialFails(a)
  <2>1. PICK c : core' = [core EXCEPT ![a] = c]
    BY <1>4 DEF DialFails
  <2> QED BY <1>1, <1>4, <2>1 DEF DialFails, Untouched, RestOK
<1>5. CASE StartReplied(a)
  BY <1>1, <1>5 DEF StartReplied, Untouched, RestOK
<1>6. CASE Stop(a) \/ HelperLost(a) \/ \E t \in Member : MemberGone(a, t)
  BY <1>1, <1>6 DEF Stop, HelperLost, MemberGone, Untouched, RestOK
<1>7. CASE MainNotes(a) \/ Restart(a)
  BY <1>1, <1>7 DEF MainNotes, Restart, Untouched, RestOK
<1> QED BY <1>2, <1>3, <1>4, <1>5, <1>6, <1>7 DEF MemberNext

LEMMA GossipElsewhere ==
    ASSUME Inv, NEW a \in Install, NEW m \in Install, m # a,
           NEW g \in net, Gossip(a, g)
    PROVE  Untouched(m)
<1>1. RestOK /\ core \in [Install -> Core]
  BY InvFacts
<1>2. CASE OnGenesis(a, g) \/ OnAdmitRefused(a, g)
  BY <1>1, <1>2 DEF OnGenesis, OnAdmitRefused, Untouched, RestOK
<1>3. CASE OnAdmit(a, g) \/ OnEvict(a, g)
  <2>1. PICK c, d : Report(a, c, d)
    BY <1>3 DEF OnAdmit, OnEvict
  <2>2. Learnt(a, g.sid, g.at) /\ UNCHANGED <<disk, call, bar>>
    BY <1>3 DEF OnAdmit, OnEvict
  <2> QED BY <1>1, <2>1, <2>2 DEF Report, Learnt, Untouched, RestOK
<1> QED BY <1>2, <1>3 DEF Gossip

\* The core gossip is applied to is the one there is, or a passive one.
LEMMA EnsuredBase ==
    ASSUME Inv, NEW m \in Install, NEW s \in Sid
    PROVE  Ensured(m, s) \in Core /\ Ensured(m, s).sid = s /\ Base(m, Ensured(m, s))
<1>1. core[m] \in Core /\ room[m] \in Remembered
  BY InvFacts DEF RestOK
<1>2. CASE core[m].sid = s
  BY <1>1, <1>2 DEF Ensured, Base, Kept
<1>3. CASE core[m].sid # s
  <2> DEFINE c == NewCore(s, FALSE, room[m])
  <2>1. /\ c \in Core /\ c.sid = s /\ ~c.isHost
        /\ c.seed = FloorOf(m, s) /\ c.floor = FloorOf(m, s)
    BY <1>1, NewCoreFields DEF FloorOf
  <2>2. Ensured(m, s) = c
    BY <1>3 DEF Ensured
  <2> HIDE DEF c
  <2> QED BY <2>1, <2>2 DEF Base, Passive
<1> QED BY <1>2, <1>3

\* The steps, by what they do to m.
Kind(m) ==
    \/ Calm(m)
    \/ Applying(m)
    \/ Opening(m)
    \/ StartReplied(m)
    \/ m = Host /\ EvictReplied
    \/ MainNotes(m)
    \/ Restart(m)

\* The grants that are sent are not above what the host itself applied.
SentIsApplied ==
    \A g \in net' : g \in Grant => (g \in net \/ g.at <= top'[Host][g.sid])

\* What was applied before stays applied.
LEMMA LearntAt ==
    ASSUME Inv, NEW m \in Install, NEW s \in Sid, NEW n \in 0..MaxAt, Learnt(m, s, n)
    PROVE  /\ top'[m] = [top[m] EXCEPT ![s] = Higher(@, n)]
           /\ n <= top'[m][s] /\ top'[m][s] \in 0..MaxAt
<1>1. top \in [Install -> [Sid -> 0..MaxAt]]
  BY InvFacts DEF RestOK
<1>2. top'[m] = [top[m] EXCEPT ![s] = Higher(@, n)]
  BY <1>1 DEF Learnt
<1>3. top'[m][s] = Higher(top[m][s], n) /\ top[m][s] \in 0..MaxAt
  BY <1>1, <1>2
<1>4. top'[m][s] \in 0..MaxAt
  BY <1>3, HigherAt
<1> QED BY <1>2, <1>3, <1>4 DEF Higher

\* A pass of signed admits, at the host.
LEMMA SignedKind ==
    ASSUME Inv, NEW c, GoodCore(c, net), c.sid \in Sid, Base(Host, c), c.isHost,
           NEW T \in SUBSET Member, NEW extra \in SUBSET Genesis,
           c.evicted = core[Host].evicted, SignAdmits(c, T, extra),
           UNCHANGED <<disk, bar>>, CallKept(Host)
    PROVE  Kind(Host) /\ SentIsApplied
<1>1. Host \in Install
  BY MemberAssumption
<1>2. PICK d \in Core, n \in 0..MaxAt :
              /\ Grew(Host, c, d, n) /\ Report(Host, c, d)
              /\ top' = top \/ Learnt(Host, c.sid, n)
              /\ \A g \in net' : g \in Grant =>
                    \/ g \in net
                    \/ g.sid = c.sid /\ g.at <= n /\ Learnt(Host, c.sid, n)
  BY SignedGrew
<1>3. /\ top'[Host] = top[Host]
         \/ top'[Host] = [top[Host] EXCEPT ![c.sid] = Higher(@, n)]
  BY <1>1, <1>2, LearntAt
<1>4. Applying(Host)
  BY <1>2, <1>3 DEF Applying, Grew
<1>5. ASSUME NEW g \in net', g \in Grant, g \notin net
      PROVE  g.at <= top'[Host][g.sid]
  <2>1. g.sid = c.sid /\ g.at <= n /\ Learnt(Host, c.sid, n)
    BY <1>2, <1>5
  <2>2. n <= top'[Host][c.sid] /\ top'[Host][c.sid] \in 0..MaxAt
    BY <1>1, <2>1, LearntAt
  <2> QED BY <1>5, <2>1, <2>2 DEF Grant, At
<1> QED BY <1>4, <1>5 DEF Kind, SentIsApplied

\* The host's own steps.
LEMMA HostKind ==
    ASSUME Inv, HostNext
    PROVE  Kind(Host) /\ SentIsApplied
<1>1. /\ RestOK /\ core \in [Install -> Core] /\ Host \in Install /\ Host \in Member
      /\ core[Host] \in Core /\ GoodCore(core[Host], net) /\ call[Host] \in CallType
  BY InvFacts, MemberAssumption DEF RestOK
<1>2. net' = net => SentIsApplied
  BY DEF SentIsApplied
<1>3. CASE HostOpen
  <2> DEFINE s == HostSid
             r == Adopted(Host, s)
             d == NewCore(s, TRUE, r)
  <2>1. s \in Sid /\ r \in Remembered /\ r.sid = s
    BY <1>1, <1>3, AdoptedType DEF HostOpen, Adopted
  <2> HIDE DEF r, s
  <2>2. /\ d.sid = s /\ d.admitted = {}
        /\ d.seed = r.floor /\ d.floor = r.floor
        /\ d.admitAt = [t \in Member |-> r.floor]
    <3> DEFINE seed == IF r.sid = s THEN r.floor ELSE 0
    <3>1. /\ d.sid = s /\ d.admitted = {}
          /\ d.seed = seed /\ d.floor = seed
          /\ d.admitAt = [t \in Member |-> seed]
      BY <2>1, NewCoreFields, Zenon
    <3>2. seed = r.floor
      BY <2>1
    <3> HIDE DEF seed, d
    <3> QED BY <3>1, <3>2
  <2> USE DEF r, s
  <2>3. /\ core'[Host] = d /\ room'[Host] = Adopted(Host, s)
        /\ disk' = disk /\ ipc' = ipc /\ top' = top /\ net' = net
        /\ call[Host].op = "none" /\ call'[Host] = [op |-> "dial", sid |-> s]
        /\ bar' = top[Host][s]
    BY <1>1, <1>3 DEF HostOpen, RestOK
  <2> HIDE DEF d, s
  <2>4. Opening(Host)
    BY <2>1, <2>2, <2>3 DEF Opening
  <2> QED BY <1>2, <2>3, <2>4 DEF Kind
<1>4. ASSUME NEW picks \in SUBSET (Member \ {Host}), HostConnected(picks)
      PROVE  Kind(Host) /\ SentIsApplied
  <2> DEFINE c == [core[Host] EXCEPT !.active = TRUE, !.pinned = TRUE]
             T == {Host} \cup picks
  <2>1. /\ SignAdmits(c, T, {GenesisOf(c.sid)}) /\ UNCHANGED <<disk, bar>>
        /\ core[Host].isHost
    BY <1>1, <1>4 DEF HostConnected, Core
  <2>2. /\ SameAdmission(c, core[Host])
        /\ c.seed = core[Host].seed /\ c.floor = core[Host].floor
    BY <1>1 DEF SameAdmission, Core
  <2>3. CallKept(Host)
    BY <1>1, <1>4 DEF HostConnected, CallKept, RestOK, CallType
  <2> HIDE DEF c
  <2>4. /\ GoodCore(c, net) /\ c.evicted = core[Host].evicted /\ Base(Host, c)
        /\ c.isHost
    BY <1>1, <2>1, <2>2, SameIsGood DEF SameAdmission, Base, Kept
  <2>5. c.sid \in Sid
    BY <2>4 DEF GoodCore, Core, Sid
  <2>6. T \in SUBSET Member /\ {GenesisOf(c.sid)} \in SUBSET Genesis
    BY <1>1, <2>5, GenesisType
  <2> HIDE DEF T
  <2> QED BY <2>1, <2>3, <2>4, <2>5, <2>6, SignedKind
<1>5. core[Host].isHost => core[Host].sid \in Sid /\ Base(Host, core[Host])
  BY <1>1 DEF GoodCore, Core, Sid, Base, Kept
<1>6. ASSUME NEW t \in Member \ {Host}, Invite(t) PROVE Kind(Host) /\ SentIsApplied
  <2>1. /\ SignAdmits(core[Host], {t}, {}) /\ UNCHANGED <<disk, bar>>
        /\ core[Host].isHost /\ CallKept(Host)
    BY <1>6 DEF Invite, CallKept
  <2> QED BY <1>1, <1>5, <2>1, SignedKind
<1>7. CASE Remint
  <2>1. /\ SignAdmits(core[Host], core[Host].admitted, {GenesisOf(core[Host].sid)})
        /\ UNCHANGED <<disk, bar>> /\ core[Host].isHost /\ CallKept(Host)
    BY <1>7 DEF Remint, CallKept
  <2>2. core[Host].admitted \in SUBSET Member
    BY <1>1 DEF Core
  <2>3. {GenesisOf(core[Host].sid)} \in SUBSET Genesis
    BY <1>5, <2>1, GenesisType
  <2> QED BY <1>1, <1>5, <2>1, <2>2, <2>3, SignedKind
<1>8. ASSUME NEW t \in Member \ {Host}, Evict(t) PROVE Kind(Host) /\ SentIsApplied
  <2> DEFINE c == core[Host]
  <2>1. PICK base \in Bases(c) :
          /\ base + 1 <= MaxAt
          /\ Report(Host, c, [Evicting(c, t, base + 1) EXCEPT !.lastAt = base + 1])
          /\ net' = net \cup {[kind |-> "evict", sid |-> c.sid, who |-> t, at |-> base + 1]}
          /\ Learnt(Host, c.sid, base + 1)
    BY <1>8 DEF Evict
  <2> DEFINE at == base + 1
             e == Evicting(c, t, at)
             d == [e EXCEPT !.lastAt = at]
  <2>2. at \in At /\ at \in 0..MaxAt
    BY <1>1, <2>1, BasesType, BoundAssumption DEF At
  <2>3. Report(Host, c, d) /\ Learnt(Host, c.sid, at)
    BY <2>1
  <2>4. \A g \in net' : g \in net \/ (g.sid = c.sid /\ g.at = at)
    BY <2>1
  <2> HIDE DEF at
  <2>5. e \in Core
    BY <1>1, <2>2, EvictingEffect
  <2> HIDE DEF e
  <2>6. SameAdmission(d, e) /\ d.seed = e.seed /\ d.floor = e.floor
    BY <2>2, <2>5, OtherFields DEF Core
  <2> HIDE DEF d
  <2>7. /\ UNCHANGED <<disk, bar>> /\ c.isHost
        /\ call'[Host].op = "evict" /\ c.sid \in gone'
    BY <1>1, <1>8 DEF Evict, RestOK
  <2>8. Grew(Host, c, d, at)
    BY <1>1, <1>5, <2>2, <2>6, <2>7, EvictGrew DEF e
  <2>9. top'[Host] = [top[Host] EXCEPT ![c.sid] = Higher(@, at)] /\ at <= top'[Host][c.sid]
    BY <1>1, <1>5, <2>2, <2>3, <2>7, LearntAt
  <2> HIDE DEF c
  <2>10. Applying(Host)
    BY <2>3, <2>7, <2>8, <2>9 DEF Applying, Grew
  <2> QED BY <2>4, <2>9, <2>10 DEF Kind, SentIsApplied
<1>9. CASE EvictReplied
  BY <1>2, <1>9 DEF EvictReplied, Kind
<1> QED BY <1>3, <1>4, <1>6, <1>7, <1>8, <1>9 DEF HostNext

\* The steps of m itself, the arrival of messages apart.
LEMMA MemberKind ==
    ASSUME Inv, NEW m \in Install, MemberNext(m)
    PROVE  Kind(m)
<1>1. RestOK /\ core \in [Install -> Core] /\ core[m] \in Core /\ call[m] \in CallType
  BY InvFacts DEF RestOK
<1>2. NoCore \in Core /\ NoCore.sid = 0 /\ ~NoCore.isHost
  BY NoCoreIsGood DEF GoodCore, NoCore
<1>3. CASE JoinerOpen(m)
  <2> DEFINE s == core[m].sid
  <2>1. s \in Sid
    BY <1>1, <1>3 DEF JoinerOpen, Core, Sid
  <2>2. /\ core' = core /\ ~core[m].isHost /\ bar' = bar
        /\ room'[m] = Adopted(m, s)
        /\ disk' = disk /\ ipc' = ipc /\ top' = top
        /\ call[m].op = "none" /\ call'[m] = [op |-> "dial", sid |-> s]
    BY <1>1, <1>3 DEF JoinerOpen, RestOK
  <2> HIDE DEF s
  <2>3. Opening(m)
    BY <2>1, <2>2 DEF Opening
  <2> QED BY <2>3 DEF Kind
<1>4. CASE JoinerConnected(m)
  <2>1. core'[m] \in Core /\ Kept(core'[m], core[m])
    BY <1>1, <1>4 DEF JoinerConnected, Core, Kept
  <2>2. CallKept(m)
    BY <1>1, <1>4 DEF JoinerConnected, CallKept, RestOK, CallType
  <2>3. Calm(m)
    BY <1>4, <2>1, <2>2 DEF JoinerConnected, Calm, Base
  <2> QED BY <2>3 DEF Kind
<1>5. CASE DialFails(m)
  <2>1. core'[m] = NoCore \/ core'[m] = core[m]
    BY <1>1, <1>5 DEF DialFails
  <2>2. core'[m] \in Core /\ Base(m, core'[m])
    BY <1>1, <1>2, <2>1 DEF Base, Kept
  <2>3. CallKept(m)
    BY <1>1, <1>5 DEF DialFails, CallKept, RestOK
  <2>4. Calm(m)
    BY <1>5, <2>2, <2>3 DEF DialFails, Calm
  <2> QED BY <2>4 DEF Kind
<1>6. CASE Stop(m)
  <2>1. core'[m] \in Core /\ Base(m, core'[m])
    BY <1>1, <1>2, <1>6 DEF Stop, Base
  <2>2. Calm(m)
    BY <1>6, <2>1 DEF Stop, Calm, CallKept
  <2> QED BY <2>2 DEF Kind
<1>7. CASE HelperLost(m)
  <2>1. core'[m] \in Core /\ Kept(core'[m], core[m])
    BY <1>1, <1>7 DEF HelperLost, Core, Kept
  <2>2. Calm(m)
    BY <1>7, <2>1 DEF HelperLost, Calm, CallKept, Base
  <2> QED BY <2>2 DEF Kind
<1>8. ASSUME NEW t \in Member, MemberGone(m, t) PROVE Kind(m)
  <2>1. core'[m] \in Core /\ Kept(core'[m], core[m])
    BY <1>1, <1>8 DEF MemberGone, Core, Kept
  <2>2. Calm(m)
    BY <1>8, <2>1 DEF MemberGone, Calm, CallKept, Base
  <2> QED BY <2>2 DEF Kind
<1> QED BY <1>3, <1>4, <1>5, <1>6, <1>7, <1>8 DEF MemberNext, Kind

\* A message arrives at m.
LEMMA GossipKind ==
    ASSUME Inv, NEW m \in Install, NEW g \in net, Gossip(m, g)
    PROVE  Kind(m)
<1>1. RestOK /\ core \in [Install -> Core] /\ core[m] \in Core
  BY InvFacts
<1> DEFINE c == Ensured(m, g.sid)
<1>2. g.sid \in Sid
  BY <1>1 DEF RestOK, Grant, Genesis
<1>3. c \in Core /\ c.sid = g.sid /\ Base(m, c)
  BY <1>2, EnsuredBase
<1>4. CASE OnGenesis(m, g)
  <2> DEFINE d == [c EXCEPT !.pinned = TRUE]
  <2>1. core'[m] = d
    BY <1>1, <1>4 DEF OnGenesis
  <2> HIDE DEF c
  <2>2. d \in Core /\ Kept(d, c) /\ d.admitted = c.admitted
    BY <1>3 DEF Kept, Core
  <2> HIDE DEF d
  <2>3. Base(m, d)
    BY <1>3, <2>2 DEF Base, Kept, Passive
  <2>4. Calm(m)
    BY <1>4, <2>1, <2>2, <2>3 DEF OnGenesis, Calm, CallKept
  <2> QED BY <2>4 DEF Kind
<1>5. CASE OnAdmitRefused(m, g)
  <2>1. core'[m] = c
    BY <1>1, <1>5 DEF OnAdmitRefused
  <2> HIDE DEF c
  <2>2. Calm(m)
    BY <1>3, <1>5, <2>1 DEF OnAdmitRefused, Calm, CallKept
  <2> QED BY <2>2 DEF Kind
<1>6. CASE OnAdmit(m, g)
  <2> DEFINE d == Admitting(c, g.who, g.at)
  <2>1. g \in Grant /\ g.who \in Member /\ g.at \in At /\ g.at \in 0..MaxAt
    BY <1>1, <1>6, GrantType, BoundAssumption DEF OnAdmit, Grant, At
  <2>2. /\ c.admitAt[g.who] < g.at /\ Report(m, c, d) /\ Learnt(m, g.sid, g.at)
        /\ UNCHANGED <<disk, call, bar>>
    BY <1>6 DEF OnAdmit, CanAdmit
  <2>3. Grew(m, c, d, g.at)
    BY <1>2, <1>3, <2>1, <2>2, AdmitGrew
  <2>4. top'[m] = [top[m] EXCEPT ![g.sid] = Higher(@, g.at)]
    BY <1>2, <2>1, <2>2, LearntAt
  <2> HIDE DEF c, d
  <2>5. Applying(m)
    BY <1>3, <2>1, <2>2, <2>3, <2>4 DEF Applying, Grew, CallKept
  <2> QED BY <2>5 DEF Kind
<1>7. CASE OnEvict(m, g)
  <2> DEFINE b == core[m]
             e == Evicting(b, g.who, g.at)
             on == e.active /\ g.who # m
             d == [e EXCEPT !.active = on]
  <2>1. g \in Grant /\ g.who \in Member /\ g.at \in At /\ g.at \in 0..MaxAt
    BY <1>1, <1>7, GrantType, BoundAssumption DEF OnEvict, Grant, At
  <2>2. /\ b.sid = g.sid /\ Report(m, b, d) /\ Learnt(m, g.sid, g.at)
        /\ UNCHANGED <<disk, call, bar>>
    BY <1>7 DEF OnEvict, CanEvict
  <2>3. e \in Core /\ Base(m, b) /\ b.sid \in Sid
    BY <1>1, <1>2, <2>1, <2>2, EvictingEffect DEF Base, Kept
  <2>4. on \in BOOLEAN
    OBVIOUS
  <2> HIDE DEF e, on
  <2>5. SameAdmission(d, e) /\ d.seed = e.seed /\ d.floor = e.floor
    BY <2>3, <2>4, OtherFields DEF Core
  <2> HIDE DEF d
  <2>6. Grew(m, b, d, g.at)
    BY <1>1, <2>1, <2>3, <2>5, EvictGrew DEF e
  <2>7. top'[m] = [top[m] EXCEPT ![g.sid] = Higher(@, g.at)]
    BY <1>2, <2>1, <2>2, LearntAt
  <2> HIDE DEF b
  <2>8. Applying(m)
    BY <2>1, <2>2, <2>6, <2>7 DEF Applying, Grew, CallKept
  <2> QED BY <2>8 DEF Kind
<1> QED BY <1>4, <1>5, <1>6, <1>7 DEF Gossip

\* Every step is of one of the kinds, at every install.
LEMMA StepKinds ==
    ASSUME Inv, [Next]_vars
    PROVE  (\A m \in Install : Kind(m)) /\ SentIsApplied /\ gone \subseteq gone'
<1>1. CASE HostNext
  <2>1. \A m \in Install : Kind(m)
    BY <1>1, HostKind, HostElsewhere, UntouchedIsCalm DEF Kind
  <2>2. gone \subseteq gone'
    BY <1>1 DEF HostNext, HostOpen, HostConnected, Invite, Evict, EvictReplied, Remint
  <2> QED BY <1>1, <2>1, <2>2, HostKind
<1>2. ASSUME NEW a \in Install, MemberNext(a)
      PROVE  (\A m \in Install : Kind(m)) /\ SentIsApplied /\ gone \subseteq gone'
  <2>1. \A m \in Install : Kind(m)
    BY <1>2, MemberKind, MemberElsewhere, UntouchedIsCalm DEF Kind
  <2>2. net' = net /\ gone' = gone
    BY <1>2 DEF MemberNext, JoinerOpen, JoinerConnected, DialFails, StartReplied, Stop,
       HelperLost, MainNotes, Restart, MemberGone
  <2> QED BY <2>1, <2>2 DEF SentIsApplied
<1>3. ASSUME NEW a \in Install, NEW g \in net, Gossip(a, g)
      PROVE  (\A m \in Install : Kind(m)) /\ SentIsApplied /\ gone \subseteq gone'
  <2>1. \A m \in Install : Kind(m)
    BY <1>3, GossipKind, GossipElsewhere, UntouchedIsCalm DEF Kind
  <2>2. net' = net /\ gone' = gone
    BY <1>3 DEF Gossip, OnGenesis, OnAdmit, OnAdmitRefused, OnEvict
  <2> QED BY <2>1, <2>2 DEF SentIsApplied
<1>4. CASE UNCHANGED vars
  <2>1. \A m \in Install : Untouched(m)
    BY <1>4 DEF vars, Untouched
  <2>2. net' = net /\ gone' = gone
    BY <1>4 DEF vars
  <2> QED BY <2>1, <2>2, UntouchedIsCalm DEF Kind, SentIsApplied
<1> QED BY <1>1, <1>2, <1>3, <1>4 DEF Next

-----------------------------------------------------------------------------
(* What always holds of one session and its memory *)

\* The host's core is of the session its engine remembers.
Hosted == core[Host].isHost => room[Host].sid = core[Host].sid

\* A start under way is of the session the engine of m adopted.
Adopting(m) ==
    call[m].op \in {"dial", "reply"} => room[m].sid = call[m].sid /\ call[m].sid # 0

\* Where main remembers a session, or is about to, the engine does too.
Known(m) == Will(m) # 0 => room[m].sid # 0

\* The host applied every grant it signed.
SignedIsApplied == \A g \in net : g \in Grant => g.at <= top[Host][g.sid]

\* The session of an eviction under way is one that somebody was evicted from.
Leaving == call[Host].op = "evict" => room[Host].sid \in gone

Bearings ==
    /\ Hosted
    /\ \A m \in Install : Adopting(m) /\ Known(m)
    /\ SignedIsApplied
    /\ Leaving

\* The types of one install's state.
LEMMA AtType ==
    ASSUME Inv, NEW m \in Install
    PROVE  /\ core[m] \in Core /\ room[m] \in Remembered /\ disk[m] \in Remembered
           /\ ipc[m] \in Seq(ReportSent) /\ call[m] \in CallType
           /\ top[m] \in [Sid -> 0..MaxAt] /\ gone \subseteq Sid
           /\ room[m].floor \in 0..MaxAt /\ disk[m].floor \in 0..MaxAt
BY InvFacts DEF RestOK, Remembered

\* What a report does at m.
LEMMA ReportAt ==
    ASSUME Inv, NEW m \in Install, NEW c \in Core, NEW d \in Core, Report(m, c, d)
    PROVE  /\ core'[m] = d
           /\ IF c.floor < d.floor
              THEN /\ room'[m] = NotedFloor(room[m], d.sid, d.floor)
                   /\ ipc'[m] = Append(ipc[m], [sid |-> d.sid, at |-> d.floor])
              ELSE room'[m] = room[m] /\ ipc'[m] = ipc[m]
<1>1. RestOK /\ core \in [Install -> Core] /\ c.floor \in Int /\ d.floor \in Int
  BY InvFacts DEF Core
<1>2. c.floor < d.floor <=> d.floor > c.floor
  BY <1>1
<1> QED BY <1>1, <1>2 DEF Report, RestOK

\* It names a session where there was none, and no other.
LEMMA ReportSid ==
    ASSUME Inv, NEW m \in Install, NEW c \in Core, NEW d \in Core,
           d.sid \in Sid, Report(m, c, d)
    PROVE  /\ room[m].sid # 0 => room'[m].sid = room[m].sid
           /\ room[m].sid = 0 => room'[m] = room[m] \/ room'[m].sid = d.sid
<1>1. room[m] \in Remembered
  BY AtType
<1>2. room'[m] = room[m] \/ room'[m] = NotedFloor(room[m], d.sid, d.floor)
  BY ReportAt
<1> QED BY <1>1, <1>2 DEF NotedFloor, Remembered

\* The head of a queue of reports is the first that was sent.
LEMMA HeadOfAppend ==
    ASSUME NEW q \in Seq(ReportSent), NEW r \in ReportSent
    PROVE  /\ Append(q, r) # <<>>
           /\ q = <<>> => Head(Append(q, r)) = r
           /\ q # <<>> => Head(Append(q, r)) = Head(q)
<1>1. Append(q, r) \in Seq(ReportSent) /\ Len(Append(q, r)) = Len(q) + 1
  OBVIOUS
<1>2. q # <<>> => 1 \in 1..Len(q) /\ Append(q, r)[1] = q[1]
  OBVIOUS
<1>3. q = <<>> => Append(q, r)[1] = r
  OBVIOUS
<1> QED BY <1>1, <1>2, <1>3

\* What main will remember changes only where that is nothing yet.
LEMMA ReportWill ==
    ASSUME Inv, NEW m \in Install, NEW c \in Core, NEW d \in Core,
           d.sid \in Sid, Report(m, c, d), disk'[m] = disk[m]
    PROVE  /\ Will(m) # 0 => Will(m)' = Will(m)
           /\ Will(m) = 0 =>
                IF c.floor < d.floor THEN Will(m)' = d.sid ELSE Will(m)' = 0
<1>0. \A r \in ReportSent : r.sid # 0
  BY DEF ReportSent, Sid
<1>1. disk[m] \in Remembered /\ ipc[m] \in Seq(ReportSent)
  BY AtType
<1>2. CASE c.floor < d.floor
  <2> DEFINE r == [sid |-> d.sid, at |-> d.floor]
  <2>1. ipc'[m] = Append(ipc[m], r)
    BY <1>2, ReportAt
  <2>0. r \in ReportSent /\ r.sid = d.sid
    BY <1>2, BoundAssumption DEF ReportSent, Core, At
  <2> HIDE DEF r
  <2>2. ipc'[m] # <<>> /\ Head(ipc'[m]) = IF ipc[m] = <<>> THEN r ELSE Head(ipc[m])
    BY <1>1, <2>0, <2>1, HeadOfAppend
  <2>3. ipc[m] # <<>> => Head(ipc[m]) \in ReportSent
    BY <1>1
  <2> QED BY <1>0, <1>1, <1>2, <2>0, <2>2, <2>3 DEF Will
<1>3. CASE ~(c.floor < d.floor)
  <2>1. ipc'[m] = ipc[m]
    BY <1>3, ReportAt
  <2> QED BY <1>3, <2>1 DEF Will
<1> QED BY <1>2, <1>3

\* A report that main handles is remembered, or of no use to it.
LEMMA NotesWill ==
    ASSUME Inv, NEW m \in Install, MainNotes(m)
    PROVE  Will(m) # 0 /\ Will(m)' = Will(m)
<1>1. /\ disk[m] \in Remembered /\ ipc[m] \in Seq(ReportSent) /\ ipc[m] # <<>>
      /\ Head(ipc[m]) \in ReportSent
  BY AtType DEF MainNotes
<1>2. disk'[m] = NotedFloor(disk[m], Head(ipc[m]).sid, Head(ipc[m]).at)
  BY InvFacts DEF MainNotes, RestOK
<1>3. Head(ipc[m]).sid # 0
  BY <1>1 DEF ReportSent, Sid
<1>4. disk'[m].sid = IF disk[m].sid = 0 THEN Head(ipc[m]).sid ELSE disk[m].sid
  BY <1>1, <1>2 DEF NotedFloor, Remembered
<1> QED BY <1>1, <1>3, <1>4 DEF Will

\* What m has applied never goes down.
LEMMA TopGrows ==
    ASSUME Inv, NEW m \in Install, Kind(m), NEW s \in Sid
    PROVE  top[m][s] <= top'[m][s]
<1>1. top[m] \in [Sid -> 0..MaxAt]
  BY AtType
<1>2. CASE top'[m] = top[m]
  BY <1>1, <1>2
<1>3. CASE Applying(m)
  <2>1. PICK c \in Core, n \in 0..MaxAt :
          top'[m] = top[m] \/ top'[m] = [top[m] EXCEPT ![c.sid] = Higher(@, n)]
    BY <1>3 DEF Applying
  <2> QED BY <1>1, <2>1 DEF Higher
<1>4. CASE StartReplied(m) \/ EvictReplied \/ MainNotes(m) \/ Restart(m)
  BY <1>2, <1>4 DEF StartReplied, EvictReplied, MainNotes, Restart
<1> QED BY <1>2, <1>3, <1>4 DEF Kind, Calm, Opening

\* The four steps of the main process, at the install they are of.
LEMMA StartRepliedAt ==
    ASSUME Inv, NEW m \in Install, StartReplied(m)
    PROVE  /\ core' = core /\ room' = room /\ ipc' = ipc /\ top' = top /\ bar' = bar
           /\ ipc[m] = <<>> /\ call[m].op = "reply" /\ call'[m].op = "none"
           /\ disk'[m] = IF disk[m].sid = call[m].sid THEN disk[m]
                         ELSE [sid |-> call[m].sid, floor |-> 0]
BY InvFacts DEF StartReplied, RestOK

LEMMA EvictRepliedAt ==
    ASSUME Inv, EvictReplied
    PROVE  /\ core' = core /\ room' = room /\ ipc' = ipc /\ top' = top /\ bar' = bar
           /\ ipc[Host] = <<>> /\ call[Host].op = "evict" /\ call'[Host].op = "none"
           /\ disk'[Host].sid = 0
BY InvFacts, MemberAssumption DEF EvictReplied, RestOK, NoSession

LEMMA MainNotesAt ==
    ASSUME Inv, NEW m \in Install, MainNotes(m)
    PROVE  /\ core' = core /\ room' = room /\ call' = call /\ top' = top /\ bar' = bar
           /\ ipc[m] # <<>> /\ ipc'[m] = Tail(ipc[m])
           /\ disk'[m] = NotedFloor(disk[m], Head(ipc[m]).sid, Head(ipc[m]).at)
BY InvFacts DEF MainNotes, RestOK

LEMMA RestartAt ==
    ASSUME Inv, NEW m \in Install, Restart(m)
    PROVE  /\ core'[m] = NoCore /\ room'[m] = disk[m] /\ ipc'[m] = <<>>
           /\ call'[m].op = "none" /\ disk' = disk /\ top' = top /\ bar' = bar
           /\ Crash \/ ipc[m] = <<>>
BY InvFacts DEF Restart, RestOK

\* A host's core can only come from the host's core.
LEMMA HostedStep ==
    ASSUME Inv, Bearings, Kind(Host)
    PROVE  Hosted'
<1>1. Host \in Install /\ GoodCore(core[Host], net)
  BY InvFacts, MemberAssumption
<1>2. CASE Calm(Host)
  BY <1>2 DEF Calm, Base, Kept, Passive, Bearings, Hosted
<1>3. CASE Applying(Host)
  <2>1. PICK c \in Core, d \in Core, n \in 0..MaxAt :
          Grew(Host, c, d, n) /\ Report(Host, c, d)
    BY <1>3 DEF Applying
  <2>2. d.sid = c.sid /\ c.sid \in Sid /\ d.isHost = c.isHost /\ Base(Host, c)
    BY <2>1 DEF Grew
  <2>3. core'[Host] = d
    BY <1>1, <2>1, ReportAt
  <2>4. ASSUME c.isHost PROVE room'[Host].sid = c.sid
    <3>1. core[Host].isHost /\ c.sid = core[Host].sid
      BY <2>2, <2>4 DEF Base, Kept, Passive
    <3>2. room[Host].sid = c.sid /\ room[Host].sid # 0
      BY <1>1, <3>1 DEF Bearings, Hosted, GoodCore
    <3> QED BY <1>1, <2>1, <2>2, <3>2, ReportSid
  <2> QED BY <2>2, <2>3, <2>4 DEF Hosted
<1>4. CASE Opening(Host)
  BY <1>4 DEF Opening, Hosted, Adopted
<1>5. CASE StartReplied(Host) \/ EvictReplied \/ MainNotes(Host)
  <2>1. core' = core /\ room' = room
    BY <1>1, <1>5, StartRepliedAt, EvictRepliedAt, MainNotesAt, RestartAt
  <2> QED BY <2>1 DEF Bearings, Hosted
<1>6. CASE Restart(Host)
  <2>1. core'[Host] = NoCore
    BY <1>1, <1>6, StartRepliedAt, EvictRepliedAt, MainNotesAt, RestartAt
  <2> QED BY <2>1 DEF Hosted, NoCore
<1> QED BY <1>2, <1>3, <1>4, <1>5, <1>6 DEF Kind

\* A start under way keeps the session it adopted.
LEMMA AdoptingStep ==
    ASSUME Inv, Bearings, NEW m \in Install, Kind(m)
    PROVE  Adopting(m)'
<1>1. Adopting(m)
  BY DEF Bearings
<1>2. CASE Calm(m)
  BY <1>1, <1>2 DEF Calm, CallKept, Adopting
<1>3. CASE Applying(m)
  <2>1. PICK c \in Core, d \in Core, n \in 0..MaxAt :
          /\ Grew(m, c, d, n) /\ Report(m, c, d)
          /\ CallKept(m) \/ call'[m].op = "evict"
    BY <1>3 DEF Applying
  <2>2. room[m].sid # 0 => room'[m].sid = room[m].sid
    BY <2>1, ReportSid DEF Grew
  <2> QED BY <1>1, <2>1, <2>2 DEF CallKept, Adopting
<1>4. CASE Opening(m)
  BY <1>4 DEF Opening, Adopting, Adopted, Sid
<1>5. CASE StartReplied(m) \/ (m = Host /\ EvictReplied) \/ Restart(m)
  <2>1. call'[m].op = "none"
    BY <1>5, StartRepliedAt, EvictRepliedAt, MainNotesAt, RestartAt
  <2> QED BY <2>1 DEF Adopting
<1>6. CASE MainNotes(m)
  <2>1. call' = call /\ room' = room
    BY <1>6, StartRepliedAt, EvictRepliedAt, MainNotesAt, RestartAt
  <2> QED BY <1>1, <2>1 DEF Adopting
<1> QED BY <1>2, <1>3, <1>4, <1>5, <1>6 DEF Kind

\* Main does not remember a session the engine knows nothing of.
LEMMA KnownStep ==
    ASSUME Inv, Bearings, NEW m \in Install, Kind(m)
    PROVE  Known(m)'
<1>1. Known(m) /\ Adopting(m)
  BY DEF Bearings
<1>2. CASE Calm(m)
  BY <1>1, <1>2 DEF Calm, Known, Will
<1>3. CASE Applying(m)
  <2>1. PICK c \in Core, d \in Core, n \in 0..MaxAt :
          Grew(m, c, d, n) /\ Report(m, c, d) /\ disk'[m] = disk[m]
    BY <1>3 DEF Applying
  <2>2. d.sid \in Sid
    BY <2>1 DEF Grew
  <2>3. CASE room[m].sid # 0
    BY <2>1, <2>2, <2>3, ReportSid DEF Known
  <2>4. CASE room[m].sid = 0
    <3>1. Will(m) = 0 /\ room[m] \in Remembered
      BY <1>1, <2>4, AtType DEF Known
    <3>2. CASE c.floor < d.floor
      <4>1. room'[m] = NotedFloor(room[m], d.sid, d.floor)
        BY <2>1, <3>2, ReportAt
      <4> QED BY <2>2, <2>4, <4>1 DEF NotedFloor, Known, Sid
    <3>3. CASE ~(c.floor < d.floor)
      BY <2>1, <2>2, <3>1, <3>3, ReportWill DEF Known
    <3> QED BY <3>2, <3>3
  <2> QED BY <2>3, <2>4
<1>4. CASE Opening(m)
  BY <1>4 DEF Opening, Known, Adopted, Sid
<1>5. CASE StartReplied(m)
  <2>1. room' = room /\ call[m].op = "reply"
    BY <1>5, StartRepliedAt, EvictRepliedAt, MainNotesAt, RestartAt
  <2> QED BY <1>1, <2>1 DEF Adopting, Known
<1>6. CASE m = Host /\ EvictReplied
  <2>1. disk'[m].sid = 0 /\ ipc'[m] = <<>>
    BY <1>6, EvictRepliedAt
  <2> QED BY <2>1 DEF Known, Will
<1>7. CASE MainNotes(m)
  <2>1. room' = room
    BY <1>7, StartRepliedAt, EvictRepliedAt, MainNotesAt, RestartAt
  <2> QED BY <1>1, <1>7, <2>1, NotesWill DEF Known
<1>8. CASE Restart(m)
  <2>1. room'[m] = disk[m] /\ disk'[m] = disk[m] /\ ipc'[m] = <<>>
    BY <1>8, StartRepliedAt, EvictRepliedAt, MainNotesAt, RestartAt
  <2> QED BY <2>1 DEF Known, Will
<1> QED BY <1>2, <1>3, <1>4, <1>5, <1>6, <1>7, <1>8 DEF Kind

\* Main hears of the eviction before anything else happens to the session.
LEMMA LeavingStep ==
    ASSUME Inv, Bearings, Kind(Host), gone \subseteq gone'
    PROVE  Leaving'
<1>1. Host \in Install /\ GoodCore(core[Host], net) /\ gone \subseteq Sid
  BY InvFacts, MemberAssumption DEF RestOK
<1>2. Leaving
  BY DEF Bearings
<1>3. CASE Calm(Host)
  BY <1>2, <1>3 DEF Calm, CallKept, Leaving
<1>4. CASE Applying(Host)
  <2>1. PICK c \in Core, d \in Core, n \in 0..MaxAt :
          /\ Grew(Host, c, d, n) /\ Report(Host, c, d)
          /\ CallKept(Host) \/ (c.isHost /\ c.sid \in gone')
    BY <1>4 DEF Applying
  <2>2. d.sid \in Sid /\ Base(Host, c)
    BY <2>1 DEF Grew
  <2>3. CASE c.isHost /\ c.sid \in gone'
    <3>1. core[Host].isHost /\ c.sid = core[Host].sid
      BY <2>2, <2>3 DEF Base, Kept, Passive
    <3>2. room[Host].sid = c.sid /\ room[Host].sid # 0
      BY <1>1, <3>1 DEF Bearings, Hosted, GoodCore
    <3>3. room'[Host].sid = c.sid
      BY <1>1, <2>1, <2>2, <3>2, ReportSid
    <3> QED BY <2>3, <3>3 DEF Leaving
  <2>4. CASE CallKept(Host)
    <3>1. room[Host].sid \in gone => room'[Host].sid = room[Host].sid
      <4>1. room[Host].sid \in gone => room[Host].sid # 0
        BY <1>1 DEF Sid
      <4> QED BY <1>1, <2>1, <2>2, <4>1, ReportSid
    <3> QED BY <1>2, <2>4, <3>1 DEF CallKept, Leaving
  <2> QED BY <2>1, <2>3, <2>4
<1>5. CASE Opening(Host)
  BY <1>5 DEF Opening, Leaving
<1>6. CASE StartReplied(Host) \/ EvictReplied \/ Restart(Host)
  <2>1. call'[Host].op = "none"
    BY <1>1, <1>6, StartRepliedAt, EvictRepliedAt, MainNotesAt, RestartAt
  <2> QED BY <2>1 DEF Leaving
<1>7. CASE MainNotes(Host)
  <2>1. room' = room /\ call' = call
    BY <1>1, <1>7, StartRepliedAt, EvictRepliedAt, MainNotesAt, RestartAt
  <2> QED BY <1>2, <2>1 DEF Leaving
<1> QED BY <1>3, <1>4, <1>5, <1>6, <1>7 DEF Kind

\* All of it holds from the start, and through every step.
LEMMA BearingsInit == Init => Bearings
<1> SUFFICES ASSUME Init PROVE Bearings
  OBVIOUS
<1>1. /\ Host \in Install /\ net = {}
      /\ \A m \in Install :
            /\ core[m] = NoCore /\ disk[m].sid = 0 /\ ipc[m] = <<>>
            /\ call[m].op = "none"
  BY MemberAssumption DEF Init, NoSession
<1>2. \A m \in Install : Adopting(m) /\ Known(m)
  BY <1>1 DEF Adopting, Known, Will
<1>3. ~NoCore.isHost
  BY DEF NoCore
<1> QED BY <1>1, <1>2, <1>3 DEF Bearings, Hosted, SignedIsApplied, Leaving

LEMMA BearingsStep == Inv /\ Bearings /\ [Next]_vars => Bearings'
<1> SUFFICES ASSUME Inv, Bearings, [Next]_vars PROVE Bearings'
  OBVIOUS
<1>1. (\A m \in Install : Kind(m)) /\ SentIsApplied /\ gone \subseteq gone'
  BY StepKinds
<1>2. Host \in Install
  BY MemberAssumption
<1>3. Hosted' /\ Leaving'
  BY <1>1, <1>2, HostedStep, LeavingStep
<1>4. \A m \in Install : Adopting(m)' /\ Known(m)'
  BY <1>1, AdoptingStep, KnownStep
<1>5. SignedIsApplied'
  <2> SUFFICES ASSUME NEW g \in net', g \in Grant PROVE g.at <= top'[Host][g.sid]
    BY DEF SignedIsApplied
  <2>1. CASE g \in net
    <3>1. g.at <= top[Host][g.sid] /\ g.sid \in Sid /\ g.at \in Int
      BY <2>1 DEF Bearings, SignedIsApplied, Grant, At
    <3>2. top[Host][g.sid] <= top'[Host][g.sid]
      BY <1>1, <1>2, <3>1, TopGrows
    <3>3. top[Host][g.sid] \in Int /\ top'[Host][g.sid] \in Int
      <4>1. Inv'
        BY InvStep
      <4>2. top' \in [Install -> [Sid -> 0..MaxAt]]
        BY <4>1 DEF Inv, TypeOK
      <4> QED BY <1>2, <3>1, <4>2, AtType
    <3> QED BY <3>1, <3>2, <3>3
  <2>2. CASE g \notin net
    BY <1>1, <2>2 DEF SentIsApplied
  <2> QED BY <2>1, <2>2
<1> QED BY <1>3, <1>4, <1>5 DEF Bearings

-----------------------------------------------------------------------------
(* The watermark *)

\* A session that is not meant to be left: the host abandons a session in which it
\* evicted somebody.
Live(m, s) == ~(m = Host /\ s \in gone)

\* A floor n of session s is in main's memory r, or among the reports q.
ReportedIn(r, q, s, n) ==
    \/ n = 0
    \/ r.sid = s /\ n <= r.floor
    \/ \E i \in DOMAIN q : q[i].sid = s /\ n <= q[i].at

\* What m applied of s, and its core of s, are not above what its engine
\* remembers, and that is remembered by main, or will be.
Covered(m, s) ==
    /\ top[m][s] <= FloorOf(m, s)
    /\ core[m].sid = s => core[m].floor <= FloorOf(m, s)
    /\ ReportedIn(disk[m], ipc[m], s, FloorOf(m, s))

\* The sessions whose history m has to remember: the one main knows or is about to,
\* any while there is none, and at the host, which mints the ids, all of them.
Tracked(m, s) == Live(m, s) /\ (m = Host \/ Will(m) \in {0, s})

Watermark(m) == \A s \in Sid : Tracked(m, s) => Covered(m, s)

\* Reports under way add to what is remembered.
LEMMA MoreReported ==
    ASSUME NEW r \in Remembered, NEW q \in Seq(ReportSent), NEW s \in Sid,
           NEW n \in 0..MaxAt, NEW e \in ReportSent
    PROVE  /\ ReportedIn(r, q, s, n) => ReportedIn(r, Append(q, e), s, n)
           /\ e.sid = s /\ n <= e.at => ReportedIn(r, Append(q, e), s, n)
<1> DEFINE p == Append(q, e)
<1>1. /\ DOMAIN q = 1..Len(q) /\ DOMAIN p = 1..(Len(q) + 1) /\ Len(q) \in Nat
      /\ \A i \in 1..Len(q) : p[i] = q[i]
      /\ p[Len(q) + 1] = e
  OBVIOUS
<1>2. Len(q) + 1 \in DOMAIN p /\ \A i \in DOMAIN q : i \in DOMAIN p /\ p[i] = q[i]
  BY <1>1
<1> HIDE DEF p
<1>3. ReportedIn(r, q, s, n) => ReportedIn(r, p, s, n)
  BY <1>2 DEF ReportedIn
<1>4. e.sid = s /\ n <= e.at => ReportedIn(r, p, s, n)
  BY <1>1, <1>2 DEF ReportedIn
<1> QED BY <1>3, <1>4 DEF p

\* Main handles the first report: nothing of the session it knows is lost.
LEMMA StillReported ==
    ASSUME NEW r \in Remembered, NEW q \in Seq(ReportSent), NEW s \in Sid,
           NEW n \in 0..MaxAt, q # <<>>, ReportedIn(r, q, s, n),
           s = IF r.sid # 0 THEN r.sid ELSE Head(q).sid
    PROVE  ReportedIn(NotedFloor(r, Head(q).sid, Head(q).at), Tail(q), s, n)
<1> DEFINE h == Head(q)
           p == Tail(q)
           t == NotedFloor(r, h.sid, h.at)
<1> SUFFICES ReportedIn(t, p, s, n)
  OBVIOUS
<1>1. /\ h \in ReportSent /\ h = q[1] /\ DOMAIN q = 1..Len(q) /\ Len(q) \in Nat
      /\ DOMAIN p = 1..(Len(q) - 1)
      /\ \A i \in 1..(Len(q) - 1) : p[i] = q[i + 1]
  OBVIOUS
<1>2. \A i \in DOMAIN q : i = 1 \/ (i - 1 \in DOMAIN p /\ p[i - 1] = q[i])
  BY <1>1
<1>3. h.sid \in Sid /\ h.at \in At /\ r.floor \in 0..MaxAt
  BY <1>1 DEF ReportSent, Remembered
<1> HIDE DEF p, h
<1>4. /\ t.sid = s
      /\ r.sid = s => r.floor <= t.floor
      /\ h.sid = s => h.at <= t.floor
  <2>1. /\ r.sid \in Nat /\ r.floor \in Nat /\ h.at \in Nat
        /\ s = IF r.sid # 0 THEN r.sid ELSE h.sid
        /\ s # 0
    BY <1>3, BoundAssumption DEF Remembered, At, Sid, h
  <2>2. CASE r.sid = 0
    BY <2>1, <2>2 DEF NotedFloor
  <2>3. CASE r.sid = h.sid /\ r.sid # 0 /\ h.at > r.floor
    <3>1. t = [r EXCEPT !.floor = h.at]
      BY <2>3 DEF NotedFloor
    <3>2. t.sid = r.sid /\ t.floor = h.at
      BY <3>1 DEF Remembered
    <3> QED BY <2>1, <2>3, <3>2
  <2>4. CASE r.sid # 0 /\ ~(r.sid = h.sid /\ h.at > r.floor)
    <3>1. t = r
      BY <2>4 DEF NotedFloor
    <3> QED BY <2>1, <2>4, <3>1
  <2> QED BY <2>2, <2>3, <2>4
<1>5. t.floor \in 0..MaxAt
  <2>1. t \in Remembered
    BY <1>3, NotedFloorType
  <2> QED BY <2>1 DEF Remembered
<1> HIDE DEF t
<1>6. CASE n = 0
  BY <1>6 DEF ReportedIn
<1>7. CASE r.sid = s /\ n <= r.floor
  BY <1>3, <1>4, <1>5, <1>7 DEF ReportedIn
<1>8. ASSUME NEW i \in DOMAIN q, q[i].sid = s, n <= q[i].at
      PROVE  ReportedIn(t, p, s, n)
  <2>1. CASE i = 1
    <3>1. h.sid = s /\ n <= h.at
      BY <1>1, <1>8, <2>1 DEF h
    <3> QED BY <1>3, <1>4, <1>5, <3>1 DEF ReportedIn, At
  <2>2. CASE i # 1
    BY <1>2, <1>8, <2>2 DEF ReportedIn
  <2> QED BY <2>1, <2>2
<1> QED BY <1>6, <1>7, <1>8 DEF ReportedIn

\* While main remembers nothing and will not, nothing is reported,
LEMMA WillNothing ==
    ASSUME Inv, NEW m \in Install, Will(m) = 0
    PROVE  disk[m].sid = 0 /\ ipc[m] = <<>>
<1>1. ipc[m] # <<>> => Head(ipc[m]) \in ReportSent
  BY AtType
<1> QED BY <1>1 DEF Will, ReportSent, Sid

\* and in any case nothing was applied in a session that is not the one.
LEMMA OtherIsBlank ==
    ASSUME Inv, NEW m \in Install, Concord(m), Watermark(m),
           NEW s \in Sid, Tracked(m, s), s # Will(m)
    PROVE  FloorOf(m, s) = 0 /\ top[m][s] = 0
<1>1. Covered(m, s) /\ top[m][s] \in 0..MaxAt
  BY AtType DEF Watermark
<1>0. s # 0
  BY DEF Sid
<1>2. FloorOf(m, s) = 0
  <2>1. CASE Will(m) = 0
    <3>1. disk[m].sid = 0 /\ ipc[m] = <<>>
      BY <2>1, WillNothing
    <3>2. DOMAIN ipc[m] = {}
      BY <3>1
    <3> QED BY <1>0, <1>1, <3>1, <3>2 DEF Covered, ReportedIn
  <2>2. CASE Will(m) # 0
    BY <2>2 DEF Concord, FloorOf
  <2> QED BY <2>1, <2>2
<1> QED BY <1>1, <1>2 DEF Covered

\* A calm step keeps the watermark.
LEMMA CalmKeeps ==
    ASSUME Inv, NEW m \in Install, Watermark(m), gone \subseteq gone',
           NEW s \in Sid, Tracked(m, s)', Calm(m)
    PROVE  Covered(m, s)'
<1>1. Tracked(m, s) /\ FloorOf(m, s)' = FloorOf(m, s)
  BY DEF Tracked, Live, Will, FloorOf, Calm
<1>2. Covered(m, s)
  BY <1>1 DEF Watermark
<1>3. core'[m].sid = s => core'[m].floor <= FloorOf(m, s)
  <2>1. FloorOf(m, s) \in 0..MaxAt /\ s # 0
    BY AtType, BoundAssumption DEF FloorOf, Sid
  <2> QED BY <1>2, <2>1 DEF Calm, Base, Kept, Passive, Covered
<1> QED BY <1>1, <1>2, <1>3 DEF Covered, Calm

\* A grant applied is within what the engine remembers afterwards, and is reported.
LEMMA ApplyingKeeps ==
    ASSUME Inv, Bearings, NEW m \in Install, Concord(m), Concord(m)', Watermark(m),
           gone \subseteq gone', NEW s \in Sid, Tracked(m, s)', Applying(m)
    PROVE  Covered(m, s)'
<1>1. PICK c \in Core, d \in Core, n \in 0..MaxAt :
        /\ Grew(m, c, d, n) /\ Report(m, c, d) /\ disk'[m] = disk[m]
        /\ top'[m] = top[m] \/ top'[m] = [top[m] EXCEPT ![c.sid] = Higher(@, n)]
        /\ \/ m = Host /\ c.isHost
           \/ \E g \in net : g \in Grant /\ g.sid = c.sid
  BY DEF Applying
<1> DEFINE x == c.sid
           r == room[m]
           q == ipc[m]
           F == FloorOf(m, s)
           F2 == FloorOf(m, s)'
<1>2. /\ x \in Sid /\ d.sid = x /\ Base(m, c)
      /\ c.floor <= d.floor /\ n <= d.floor
      /\ c.floor \in 0..MaxAt /\ d.floor \in 0..MaxAt
  BY <1>1 DEF Grew, Core
<1>3. /\ r \in Remembered /\ disk[m] \in Remembered /\ q \in Seq(ReportSent)
      /\ r.floor \in 0..MaxAt /\ top[m] \in [Sid -> 0..MaxAt] /\ F \in 0..MaxAt
      /\ core[m] \in Core
  BY AtType, BoundAssumption DEF FloorOf
<1>4. /\ core'[m] = d
      /\ IF c.floor < d.floor
         THEN /\ room'[m] = NotedFloor(r, x, d.floor)
              /\ ipc'[m] = Append(q, [sid |-> x, at |-> d.floor])
         ELSE room'[m] = r /\ ipc'[m] = q
  BY <1>1, <1>2, ReportAt
<1>5. /\ Will(m) # 0 => Will(m)' = Will(m)
      /\ Will(m) = 0 => IF c.floor < d.floor THEN Will(m)' = x ELSE Will(m)' = 0
  BY <1>1, <1>2, ReportWill
<1>6. Tracked(m, s)
  BY <1>5 DEF Tracked, Live
<1>7. Covered(m, s)
  BY <1>6 DEF Watermark
<1>8. s # 0 /\ F2 = IF room'[m].sid = s THEN room'[m].floor ELSE 0
  BY DEF FloorOf, Sid
<1>9. CASE s # x
  <2>1. F2 = F
    <3>1. CASE room'[m] = r
      BY <1>8, <3>1 DEF FloorOf
    <3>2. CASE room'[m] = NotedFloor(r, x, d.floor)
      BY <1>3, <1>8, <1>9, <3>2 DEF FloorOf, NotedFloor, Remembered
    <3> QED BY <1>4, <3>1, <3>2
  <2>2. top'[m][s] = top[m][s]
    BY <1>1, <1>3, <1>9
  <2>3. ReportedIn(disk[m], ipc'[m], s, F)
    <3>1. ReportedIn(disk[m], q, s, F)
      BY <1>7 DEF Covered
    <3>2. CASE c.floor < d.floor
      <4>1. [sid |-> x, at |-> d.floor] \in ReportSent
        BY <1>2, <3>2 DEF ReportSent, At
      <4> QED BY <1>3, <1>4, <3>1, <3>2, <4>1, MoreReported
    <3> QED BY <1>4, <3>1, <3>2
  <2> HIDE DEF F, F2
  <2>4. top[m][s] <= F
    BY <1>7 DEF Covered, F
  <2>5. top'[m][s] <= F2 /\ core'[m].sid # s /\ ReportedIn(disk'[m], ipc'[m], s, F2)
    BY <1>1, <1>2, <1>4, <1>9, <2>1, <2>2, <2>3, <2>4
  <2> QED BY <2>5 DEF Covered, F2
<1>10. CASE s = x
  <2>1. c.floor <= F
    BY <1>2, <1>3, <1>7, <1>10 DEF Base, Kept, Passive, Covered, Sid
  <2>2. top[m][s] <= F /\ top[m][s] \in 0..MaxAt
    BY <1>3, <1>7 DEF Covered
  <2>3. top'[m][s] = top[m][s] \/ top'[m][s] = Higher(top[m][s], n)
    BY <1>1, <1>3, <1>10
  <2>4. r.sid # 0 => r.sid = s \/ room'[m] = r
    BY <1>2, <1>3, <1>4, <1>10 DEF NotedFloor
  <2>5. c.floor < d.floor => r.sid \in {0, s}
    <3> SUFFICES ASSUME c.floor < d.floor PROVE r.sid \in {0, s}
      OBVIOUS
    <3>1. CASE Will(m) = 0
      <4>1. Will(m)' = s
        BY <1>5, <1>10, <3>1
      <4>2. room'[m].sid = s
        BY <1>8, <4>1 DEF Concord
      <4> QED BY <2>4, <4>2
    <3>2. CASE Will(m) = s
      BY <1>8, <3>2 DEF Concord
    <3>3. CASE Will(m) # 0 /\ Will(m) # s
      <4>1. m = Host
        BY <1>6, <3>3 DEF Tracked
      <4>2. top[Host][s] = 0
        BY <1>6, <3>3, <4>1, OtherIsBlank
      <4>3. CASE c.isHost
        <5>1. core[Host].isHost /\ core[Host].sid = s
          BY <1>2, <1>10, <4>1, <4>3 DEF Base, Kept, Passive
        <5> QED BY <4>1, <5>1 DEF Bearings, Hosted
      <4>4. ASSUME NEW g \in net, g \in Grant, g.sid = s PROVE FALSE
        BY <4>2, <4>4 DEF Bearings, SignedIsApplied, Grant, At
      <4> QED BY <1>1, <1>10, <4>1, <4>3, <4>4
    <3> QED BY <3>1, <3>2, <3>3
  <2> HIDE DEF F, F2
  <2>6. CASE ~(c.floor < d.floor)
    <3>1. room'[m] = r /\ ipc'[m] = q /\ d.floor = c.floor
      BY <1>2, <1>4, <2>6
    <3>2. F2 = F
      BY <3>1 DEF F, F2, FloorOf
    <3>3. top'[m][s] <= F /\ core'[m].floor <= F
      BY <1>2, <1>3, <1>4, <2>1, <2>2, <2>3, <3>1 DEF Higher
    <3>4. ReportedIn(disk[m], q, s, F)
      BY <1>7 DEF Covered, F
    <3>5. /\ top'[m][s] <= F2 /\ core'[m].floor <= F2
          /\ ReportedIn(disk'[m], ipc'[m], s, F2)
      BY <1>1, <3>1, <3>2, <3>3, <3>4
    <3> QED BY <3>5 DEF Covered, F2
  <2>7. CASE c.floor < d.floor
    <3> DEFINE e == [sid |-> x, at |-> d.floor]
    <3>1. e \in ReportSent /\ e.sid = s /\ e.at = d.floor
      BY <1>2, <1>10, <2>7 DEF ReportSent, At
    <3>2. ipc'[m] = Append(q, e) /\ room'[m] = NotedFloor(r, x, d.floor)
      BY <1>4, <2>7
    <3> HIDE DEF e
    <3>3. F2 = Higher(F, d.floor)
      <4>1. CASE r.sid = 0
        <5>1. room'[m] = [sid |-> x, floor |-> d.floor]
          BY <3>2, <4>1 DEF NotedFloor
        <5>2. F = 0 /\ F2 = d.floor
          BY <1>8, <1>10, <4>1, <5>1 DEF F, FloorOf
        <5> QED BY <1>2, <5>2 DEF Higher
      <4>2. CASE r.sid = s
        <5>1. F = r.floor
          BY <4>2 DEF F, FloorOf
        <5>2. CASE d.floor > r.floor
          <6>1. room'[m] = [r EXCEPT !.floor = d.floor]
            BY <1>8, <1>10, <3>2, <4>2, <5>2 DEF NotedFloor
          <6>2. room'[m].sid = s /\ room'[m].floor = d.floor
            BY <1>3, <4>2, <6>1 DEF Remembered
          <6> QED BY <1>2, <1>3, <1>8, <5>1, <5>2, <6>2 DEF Higher
        <5>3. CASE ~(d.floor > r.floor)
          <6>1. room'[m] = r
            BY <1>8, <3>2, <4>2, <5>3 DEF NotedFloor
          <6> QED BY <1>2, <1>3, <1>8, <4>2, <5>1, <5>3, <6>1 DEF Higher
        <5> QED BY <5>2, <5>3
      <4> QED BY <2>5, <2>7, <4>1, <4>2
    <3>4. ReportedIn(disk[m], q, s, F)
      BY <1>7 DEF Covered, F
    <3>5. /\ ReportedIn(disk[m], Append(q, e), s, F)
          /\ ReportedIn(disk[m], Append(q, e), s, d.floor)
      BY <1>2, <1>3, <3>1, <3>4, MoreReported
    <3>6. /\ F2 = F \/ F2 = d.floor
          /\ F <= F2 /\ d.floor <= F2 /\ F2 \in 0..MaxAt
      BY <1>2, <1>3, <3>3 DEF Higher
    <3>7. /\ top'[m][s] <= F2 /\ core'[m].floor <= F2
      BY <1>2, <1>3, <1>4, <2>2, <2>3, <3>6 DEF Higher
    <3>8. ReportedIn(disk'[m], ipc'[m], s, F2)
      BY <1>1, <3>2, <3>5, <3>6
    <3> QED BY <3>7, <3>8 DEF Covered, F2
  <2> QED BY <2>6, <2>7
<1> QED BY <1>9, <1>10

\* An opened session is remembered at least as far as before, and no further than
\* main remembers it.
LEMMA OpeningKeeps ==
    ASSUME Inv, NEW m \in Install, Concord(m), Concord(m)', Watermark(m),
           gone \subseteq gone', NEW s \in Sid, Tracked(m, s)', Opening(m)
    PROVE  Covered(m, s)'
<1>1. PICK x \in Sid :
        /\ room'[m] = Adopted(m, x)
        /\ disk'[m] = disk[m] /\ ipc'[m] = ipc[m] /\ top'[m] = top[m]
        /\ \/ core'[m] = core[m]
           \/ core'[m].sid = x /\ core'[m].floor = Adopted(m, x).floor
  BY DEF Opening
<1> DEFINE F == FloorOf(m, s)
           F2 == FloorOf(m, s)'
<1>2. /\ room[m].floor \in 0..MaxAt /\ disk[m].floor \in 0..MaxAt
      /\ top[m] \in [Sid -> 0..MaxAt] /\ F \in 0..MaxAt /\ core[m] \in Core
      /\ DiskFloor(m, s) \in 0..MaxAt
  BY AtType, BoundAssumption DEF FloorOf, DiskFloor
<1>3. Will(m)' = Will(m)
  BY <1>1 DEF Will
<1>4. Tracked(m, s)
  BY <1>3 DEF Tracked, Live
<1>5. /\ top[m][s] <= F /\ (core[m].sid = s => core[m].floor <= F)
      /\ ReportedIn(disk[m], ipc[m], s, F)
  BY <1>4 DEF Watermark, Covered
<1>6. room'[m].sid = x /\ s # 0
  BY <1>1 DEF Adopted, Sid
<1>7. CASE s = x
  <2>1. room'[m].floor = Higher(F, DiskFloor(m, s))
    BY <1>1, <1>7 DEF Adopted, FloorOf
  <2>2. F2 = Higher(F, DiskFloor(m, s))
    BY <1>6, <1>7, <2>1 DEF FloorOf
  <2>3. ReportedIn(disk[m], ipc[m], s, DiskFloor(m, s))
    BY <1>2 DEF DiskFloor, ReportedIn
  <2> HIDE DEF F, F2
  <2>4. F <= F2 /\ (F2 = F \/ F2 = DiskFloor(m, s)) /\ F2 \in 0..MaxAt
    BY <1>2, <2>2 DEF Higher
  <2>5. top'[m][s] <= F2
    BY <1>1, <1>2, <1>5, <2>4
  <2>6. core'[m].sid = s => core'[m].floor <= F2
    <3>1. CASE core'[m] = core[m]
      <4>1. core[m].floor \in 0..MaxAt
        BY <1>2 DEF Core
      <4> QED BY <1>2, <1>5, <2>4, <3>1, <4>1
    <3>2. CASE core'[m].floor = Adopted(m, x).floor
      BY <1>1, <1>7, <2>1, <2>2, <2>4, <3>2
    <3> QED BY <1>1, <3>1, <3>2
  <2>7. ReportedIn(disk'[m], ipc'[m], s, F2)
    BY <1>1, <1>5, <2>3, <2>4
  <2> QED BY <2>5, <2>6, <2>7 DEF Covered, F2
<1>8. CASE s # x
  <2>1. F2 = 0
    BY <1>6, <1>8 DEF FloorOf
  <2>2. s # Will(m)
    BY <1>3, <1>6, <1>8 DEF Concord
  <2>3. F = 0 /\ top[m][s] = 0
    BY <1>4, <2>2, OtherIsBlank
  <2> HIDE DEF F, F2
  <2>4. core'[m].sid = s => core'[m].floor <= F2
    BY <1>1, <1>5, <1>8, <2>1, <2>3
  <2>5. top'[m][s] <= F2 /\ ReportedIn(disk'[m], ipc'[m], s, F2)
    BY <1>1, <2>1, <2>3 DEF ReportedIn
  <2> QED BY <2>4, <2>5 DEF Covered, F2
<1> QED BY <1>7, <1>8

\* A session main remembers anew is the one its engine adopted, and nothing of it
\* was applied yet.
LEMMA StartKeeps ==
    ASSUME Inv, Bearings, NEW m \in Install, Concord(m), Watermark(m),
           gone \subseteq gone', NEW s \in Sid, Tracked(m, s)', StartReplied(m)
    PROVE  Covered(m, s)'
<1>1. /\ core' = core /\ room' = room /\ ipc' = ipc /\ top' = top
      /\ ipc[m] = <<>> /\ call[m].op = "reply"
      /\ disk'[m] = IF disk[m].sid = call[m].sid THEN disk[m]
                    ELSE [sid |-> call[m].sid, floor |-> 0]
  BY StartRepliedAt
<1>2. room[m].sid = call[m].sid /\ call[m].sid # 0
  BY <1>1 DEF Bearings, Adopting
<1>3. FloorOf(m, s)' = FloorOf(m, s)
  BY <1>1 DEF FloorOf
<1>4. Will(m) \in {0, call[m].sid} /\ Will(m) = disk[m].sid
  BY <1>1, <1>2 DEF Concord, Will
<1>5. CASE disk[m].sid = call[m].sid
  <2>1. disk'[m] = disk[m]
    BY <1>1, <1>5
  <2>2. Tracked(m, s)
    BY <1>1, <2>1 DEF Tracked, Live, Will
  <2> QED BY <1>1, <1>3, <2>1, <2>2 DEF Watermark, Covered
<1>6. CASE disk[m].sid # call[m].sid
  <2>1. Will(m) = 0
    BY <1>4, <1>6
  <2>2. Tracked(m, s) /\ s # 0
    BY <2>1 DEF Tracked, Live, Sid
  <2>3. FloorOf(m, s) = 0 /\ top[m][s] = 0
    BY <2>1, <2>2, OtherIsBlank
  <2>4. core[m].sid = s => core[m].floor <= 0
    BY <2>2, <2>3 DEF Watermark, Covered
  <2> QED BY <1>1, <1>3, <2>3, <2>4 DEF Covered, ReportedIn
<1> QED BY <1>5, <1>6

\* Main forgets a session that is gone.
LEMMA ForgottenKeeps ==
    ASSUME Inv, Bearings, Concord(Host), Watermark(Host),
           gone \subseteq gone', NEW s \in Sid, Tracked(Host, s)', EvictReplied
    PROVE  Covered(Host, s)'
<1>1. /\ core' = core /\ room' = room /\ ipc' = ipc /\ top' = top
      /\ ipc[Host] = <<>> /\ call[Host].op = "evict"
  BY EvictRepliedAt
<1>2. Host \in Install /\ Tracked(Host, s)
  BY MemberAssumption DEF Tracked, Live
<1>3. room[Host].sid \in gone /\ s \notin gone
  BY <1>1, <1>2 DEF Bearings, Leaving, Tracked, Live
<1>4. FloorOf(Host, s) = 0 /\ FloorOf(Host, s)' = 0
  BY <1>1, <1>3 DEF FloorOf
<1>5. Covered(Host, s)
  BY <1>2 DEF Watermark
<1> QED BY <1>1, <1>4, <1>5 DEF Covered, ReportedIn

\* Main handles a report.
LEMMA NotesKeeps ==
    ASSUME Inv, NEW m \in Install, Concord(m), Watermark(m),
           gone \subseteq gone', NEW s \in Sid, Tracked(m, s)', MainNotes(m)
    PROVE  Covered(m, s)'
<1>1. /\ core' = core /\ room' = room /\ top' = top
      /\ ipc[m] # <<>> /\ ipc'[m] = Tail(ipc[m])
      /\ disk'[m] = NotedFloor(disk[m], Head(ipc[m]).sid, Head(ipc[m]).at)
  BY MainNotesAt
<1>2. Will(m)' = Will(m)
  BY NotesWill
<1>3. Tracked(m, s) /\ FloorOf(m, s)' = FloorOf(m, s)
  BY <1>1, <1>2 DEF Tracked, Live, FloorOf
<1>4. Covered(m, s)
  BY <1>3 DEF Watermark
<1> DEFINE F == FloorOf(m, s)
<1>5. ReportedIn(disk'[m], ipc'[m], s, F)
  <2>1. CASE s = Will(m)
    <3>1. s = IF disk[m].sid # 0 THEN disk[m].sid ELSE Head(ipc[m]).sid
      BY <1>1, <2>1 DEF Will
    <3>2. /\ disk[m] \in Remembered /\ ipc[m] \in Seq(ReportSent) /\ F \in 0..MaxAt
      BY AtType, BoundAssumption DEF FloorOf
    <3>3. ReportedIn(disk[m], ipc[m], s, F)
      BY <1>4 DEF Covered
    <3> HIDE DEF F
    <3> QED BY <1>1, <3>1, <3>2, <3>3, StillReported
  <2>2. CASE s # Will(m)
    BY <1>3, <2>2, OtherIsBlank DEF ReportedIn
  <2> QED BY <2>1, <2>2
<1> QED BY <1>1, <1>3, <1>4, <1>5 DEF Covered

\* The application ends with every report handled, so that nothing is lost.
LEMMA RestartKeeps ==
    ASSUME Inv, NEW m \in Install, Watermark(m), ~Crash,
           gone \subseteq gone', NEW s \in Sid, Tracked(m, s)', Restart(m)
    PROVE  Covered(m, s)'
<1>1. /\ core'[m] = NoCore /\ room'[m] = disk[m] /\ ipc'[m] = <<>> /\ disk' = disk
      /\ top' = top /\ ipc[m] = <<>>
  BY RestartAt
<1>2. Tracked(m, s)
  BY <1>1 DEF Tracked, Live, Will
<1>3. Covered(m, s)
  BY <1>2 DEF Watermark
<1> DEFINE F == FloorOf(m, s)
           F2 == FloorOf(m, s)'
<1>4. F2 = IF disk[m].sid = s THEN disk[m].floor ELSE 0
  BY <1>1 DEF FloorOf
<1>5. /\ F \in 0..MaxAt /\ disk[m].floor \in 0..MaxAt /\ top[m][s] \in 0..MaxAt
      /\ DOMAIN ipc[m] = {}
  BY <1>1, AtType, BoundAssumption DEF FloorOf
<1>6. top[m][s] <= F /\ ReportedIn(disk[m], ipc[m], s, F)
  BY <1>3 DEF Covered
<1> HIDE DEF F, F2
<1>7. F <= F2 /\ F2 \in 0..MaxAt
  BY <1>4, <1>5, <1>6, BoundAssumption DEF ReportedIn
<1>8. top'[m][s] <= F2
  BY <1>1, <1>5, <1>6, <1>7
<1>9. ReportedIn(disk'[m], ipc'[m], s, F2)
  BY <1>1, <1>4, <1>5 DEF ReportedIn
<1>10. core'[m].sid # s
  BY <1>1 DEF NoCore, Sid
<1> QED BY <1>8, <1>9, <1>10 DEF Covered, F2

\* Nothing was applied at the start.
LEMMA WatermarkInit == \A m \in Install : Init => Watermark(m)
<1> SUFFICES ASSUME NEW m \in Install, Init, NEW s \in Sid PROVE Covered(m, s)
  BY DEF Watermark
<1>1. /\ core[m].sid = 0 /\ room[m].sid = 0 /\ top[m][s] = 0 /\ s # 0
  BY DEF Init, NoCore, NoSession, Sid
<1> QED BY <1>1 DEF Covered, FloorOf, ReportedIn

\* Every step keeps the watermark of an install whose copies agree.
LEMMA WatermarkStep ==
    ASSUME Inv, Bearings, ~Crash, NEW m \in Install, Concord(m), Concord(m)',
           Watermark(m), [Next]_vars
    PROVE  Watermark(m)'
<1>1. Kind(m) /\ gone \subseteq gone'
  BY StepKinds
<1>2. ASSUME NEW s \in Sid, Tracked(m, s)' PROVE Covered(m, s)'
  BY <1>1, <1>2, CalmKeeps, ApplyingKeeps, OpeningKeeps, StartKeeps, ForgottenKeeps,
     NotesKeeps, RestartKeeps DEF Kind
<1> QED BY <1>2 DEF Watermark

\* A core made in this step starts above what was applied in its session.
LEMMA SeedIsAbove ==
    ASSUME Inv, NEW m \in Install, Concord(m), Watermark(m), [Next]_vars,
           Created(m), NEW s \in Sid, core'[m].sid = s, disk[m].sid = s, Live(m, s)
    PROVE  core'[m].seed >= top[m][s]
<1>1. Kind(m)
  BY StepKinds
<1>2. Will(m) = s /\ room[m].sid = s /\ s # 0
  BY DEF Will, Concord, Sid
<1>3. Covered(m, s)
  BY <1>2 DEF Watermark, Tracked
<1>4. top[m][s] <= FloorOf(m, s) /\ FloorOf(m, s) = room[m].floor
  BY <1>2, <1>3 DEF Covered, FloorOf
<1>5. room[m].floor \in 0..MaxAt /\ disk[m].floor \in 0..MaxAt /\ top[m][s] \in 0..MaxAt
  BY AtType
<1>6. ASSUME NEW c, c.sid = s, Base(m, c), core[m].sid # s
      PROVE  c.seed = FloorOf(m, s)
  BY <1>2, <1>6 DEF Base, Kept, Passive
<1>7. CASE Calm(m)
  <2>1. core[m].sid # s
    BY <1>7 DEF Created, Calm, CallKept
  <2>2. core'[m].seed = FloorOf(m, s)
    BY <1>6, <1>7, <2>1 DEF Calm
  <2> QED BY <1>4, <1>5, <2>2
<1>8. CASE Applying(m)
  <2>1. PICK c \in Core, d \in Core, n \in 0..MaxAt :
          /\ Grew(m, c, d, n) /\ Report(m, c, d)
          /\ CallKept(m) \/ call'[m].op = "evict"
    BY <1>8 DEF Applying
  <2>2. core'[m] = d /\ d.sid = c.sid /\ d.seed = c.seed /\ Base(m, c)
    <3>1. core'[m] = d
      BY <2>1, ReportAt
    <3> QED BY <2>1, <3>1 DEF Grew
  <2>3. core[m].sid # s
    BY <2>1 DEF Created, CallKept
  <2>4. core'[m].seed = FloorOf(m, s)
    BY <1>6, <2>2, <2>3
  <2> QED BY <1>4, <1>5, <2>4
<1>9. CASE Opening(m)
  <2>1. PICK x \in Sid :
          \/ core'[m] = core[m] /\ ~core[m].isHost
          \/ core'[m].sid = x /\ core'[m].seed = Adopted(m, x).floor
    BY <1>9 DEF Opening
  <2>2. CASE core'[m] = core[m] /\ ~core[m].isHost
    BY <2>2 DEF Created
  <2>3. CASE core'[m].sid = x /\ core'[m].seed = Adopted(m, x).floor
    <3>1. core'[m].seed = Higher(room[m].floor, disk[m].floor)
      BY <1>2, <2>3 DEF Adopted, DiskFloor
    <3> QED BY <1>4, <1>5, <3>1 DEF Higher
  <2> QED BY <2>1, <2>2, <2>3
<1>10. CASE StartReplied(m) \/ (m = Host /\ EvictReplied) \/ MainNotes(m)
  <2>1. core' = core /\ (call'[m].op = "none" \/ call' = call)
    BY <1>10, StartRepliedAt, EvictRepliedAt, MainNotesAt
  <2> QED BY <2>1 DEF Created
<1>11. CASE Restart(m)
  <2>1. core'[m] = NoCore
    BY <1>11, RestartAt
  <2> QED BY <1>2, <2>1 DEF NoCore
<1> QED BY <1>1, <1>7, <1>8, <1>9, <1>10, <1>11 DEF Kind

-----------------------------------------------------------------------------
(* The host's own core *)

\* The floors of the host's core of a live session are at least what the host had
\* applied when it opened that session, and above it for whom it admits.
AboveBar ==
    core[Host].isHost /\ core[Host].sid \notin gone =>
        \A t \in Member :
            /\ bar <= core[Host].admitAt[t]
            /\ t \in core[Host].admitted => bar < core[Host].admitAt[t]

LEMMA AboveBarStep ==
    ASSUME Inv, Bearings, Concord(Host), Concord(Host)', Watermark(Host), AboveBar,
           [Next]_vars
    PROVE  AboveBar'
<1>1. Kind(Host) /\ gone \subseteq gone' /\ Host \in Install
  BY StepKinds, MemberAssumption
<1> SUFFICES ASSUME core'[Host].isHost, core'[Host].sid \notin gone', NEW t \in Member
             PROVE  /\ bar' <= core'[Host].admitAt[t]
                    /\ t \in core'[Host].admitted => bar' < core'[Host].admitAt[t]
  BY DEF AboveBar
<1>2. /\ core[Host] \in Core /\ bar \in 0..MaxAt /\ gone \subseteq Sid
      /\ room[Host].floor \in 0..MaxAt /\ disk[Host].floor \in 0..MaxAt
      /\ top[Host] \in [Sid -> 0..MaxAt]
  BY <1>1, InvFacts, AtType DEF RestOK
<1>3. core[Host].admitAt[t] \in 0..MaxAt
  BY <1>2 DEF Core
<1>4. ASSUME core[Host].isHost, core[Host].sid \notin gone
      PROVE  /\ bar <= core[Host].admitAt[t]
             /\ t \in core[Host].admitted => bar < core[Host].admitAt[t]
  BY <1>4 DEF AboveBar
<1>5. CASE Calm(Host)
  <2>1. Kept(core'[Host], core[Host]) /\ bar' = bar
    BY <1>5 DEF Calm, Base, Passive
  <2> QED BY <1>1, <1>4, <2>1 DEF Kept
<1>6. CASE Applying(Host)
  <2>1. PICK c \in Core, d \in Core, n \in 0..MaxAt :
          Grew(Host, c, d, n) /\ Report(Host, c, d) /\ bar' = bar
    BY <1>6 DEF Applying
  <2>2. core'[Host] = d /\ d.isHost = c.isHost /\ d.sid = c.sid /\ Base(Host, c)
    BY <1>1, <2>1, ReportAt DEF Grew
  <2>3. Kept(c, core[Host])
    BY <2>2 DEF Base, Passive
  <2>4. /\ bar <= c.admitAt[t] /\ (t \in c.admitted => bar < c.admitAt[t])
        /\ c.admitAt[t] \in 0..MaxAt
    BY <1>1, <1>3, <1>4, <2>2, <2>3 DEF Kept
  <2>5. /\ c.admitAt[t] <= d.admitAt[t] /\ d.admitAt[t] \in 0..MaxAt
        /\ t \in d.admitted => (t \in c.admitted \/ c.admitAt[t] < d.admitAt[t])
    BY <2>1 DEF Grew, Core
  <2> QED BY <1>2, <2>1, <2>2, <2>4, <2>5
<1>7. CASE Opening(Host)
  <2>1. PICK s \in Sid :
          \/ core'[Host] = core[Host] /\ ~core[Host].isHost
          \/ /\ bar' = top[Host][s] /\ core'[Host].sid = s
             /\ core'[Host].admitted = {}
             /\ core'[Host].admitAt = [u \in Member |-> Adopted(Host, s).floor]
    BY <1>7 DEF Opening
  <2>2. core'[Host].admitted = {} /\ s \notin gone /\ bar' = top[Host][s]
        /\ core'[Host].admitAt[t] = Adopted(Host, s).floor
    BY <1>1, <2>1
  <2>3. Covered(Host, s)
    BY <1>1, <2>2 DEF Watermark, Tracked, Live
  <2>4. Adopted(Host, s).floor = Higher(FloorOf(Host, s), DiskFloor(Host, s))
    BY DEF Adopted, FloorOf
  <2>5. /\ FloorOf(Host, s) \in 0..MaxAt /\ DiskFloor(Host, s) \in 0..MaxAt
        /\ top[Host][s] \in 0..MaxAt /\ top[Host][s] <= FloorOf(Host, s)
    BY <1>2, <2>3, BoundAssumption DEF FloorOf, DiskFloor, Covered
  <2> QED BY <2>2, <2>4, <2>5 DEF Higher
<1>8. CASE StartReplied(Host) \/ EvictReplied \/ MainNotes(Host)
  <2>1. core' = core /\ bar' = bar
    BY <1>1, <1>8, StartRepliedAt, EvictRepliedAt, MainNotesAt
  <2> QED BY <1>1, <1>4, <2>1
<1>9. CASE Restart(Host)
  <2>1. core'[Host] = NoCore
    BY <1>1, <1>9, RestartAt
  <2> QED BY <2>1 DEF NoCore
<1> QED BY <1>1, <1>5, <1>6, <1>7, <1>8, <1>9 DEF Kind

-----------------------------------------------------------------------------
(* The theorems *)

\* What always holds of an install's session, its memory and what is under way.
THEOREM BearingsCorrect == Spec => []Bearings
<1> QED BY InvCorrect, BearingsInit, BearingsStep, PTL DEF Spec

\* At an install whose two copies of the remembered session agree, the watermark
\* is never below what was applied, whatever the others do.
THEOREM WatermarkCorrect ==
    ASSUME NEW m \in Install, ~Crash
    PROVE  Spec /\ []Concord(m) => []Watermark(m)
<1>1. Init => Watermark(m)
  BY WatermarkInit
<1>2. Inv /\ Bearings /\ Concord(m) /\ Concord(m)' /\ Watermark(m) /\ [Next]_vars
        => Watermark(m)'
  BY WatermarkStep
<1> QED BY <1>1, <1>2, InvCorrect, BearingsCorrect, PTL DEF Spec

\* The part of SeedCoversHistory that is about one install.
SeedCovers(m) ==
    \A s \in Sid :
        (Created(m) /\ core'[m].sid = s /\ disk[m].sid = s /\ ~(m = Host /\ s \in gone))
            => core'[m].seed >= top[m][s]

\* At such an install, a core of the session main remembers starts above every grant
\* the install ever applied in it, as createLanSession means its floorSeed to be.
THEOREM SeedCoversAt ==
    ASSUME NEW m \in Install, ~Crash
    PROVE  Spec /\ []Concord(m) => [][SeedCovers(m)]_vars
<1>1. Inv /\ Concord(m) /\ Watermark(m) /\ [Next]_vars => [SeedCovers(m)]_vars
  BY SeedIsAbove DEF SeedCovers, Live
<1> QED BY <1>1, InvCorrect, WatermarkCorrect, PTL DEF Spec

\* With one session id, the copies cannot but agree.
LEMMA OneSession ==
    ASSUME MaxSid = 1, Inv, Bearings, NEW m \in Install
    PROVE  Concord(m)
<1>1. /\ disk[m] \in Remembered /\ room[m] \in Remembered /\ Known(m)
      /\ ipc[m] # <<>> => Head(ipc[m]) \in ReportSent
  BY AtType DEF Bearings
<1>2. Will(m) \in 0..1 /\ room[m].sid \in 0..1
  BY <1>1 DEF Will, Remembered, ReportSent, Sid
<1> QED BY <1>1, <1>2 DEF Known, Concord

LEMMA OneSessionCorrect ==
    ASSUME MaxSid = 1, NEW m \in Install
    PROVE  Spec => []Concord(m)
<1>1. Inv /\ Bearings => Concord(m)
  BY OneSession
<1> QED BY <1>1, InvCorrect, BearingsCorrect, PTL

\* The same of all the installs at once.
AllConcord == \A m \in Install : Concord(m)
AllWatermark == \A m \in Install : Watermark(m)

LEMMA AllWatermarkCorrect ==
    ASSUME ~Crash
    PROVE  Spec /\ []AllConcord => []AllWatermark
<1>1. Init => AllWatermark
  BY WatermarkInit DEF AllWatermark
<1>2. Inv /\ Bearings /\ AllConcord /\ AllConcord' /\ AllWatermark /\ [Next]_vars
        => AllWatermark'
  BY WatermarkStep DEF AllConcord, AllWatermark
<1> QED BY <1>1, <1>2, InvCorrect, BearingsCorrect, PTL DEF Spec

\* Without a crash, and as long as the copies agree everywhere, no install makes a
\* core that would apply a grant of an earlier run again.
THEOREM SeedCoversCorrect ==
    ASSUME ~Crash
    PROVE  Spec /\ []AllConcord => SeedCoversHistory
<1> DEFINE Covers == \A m \in Install : \A s \in Sid :
        (Created(m) /\ core'[m].sid = s /\ disk[m].sid = s /\ ~(m = Host /\ s \in gone))
            => core'[m].seed >= top[m][s]
<1>1. Inv /\ AllConcord /\ AllWatermark /\ [Next]_vars => [Covers]_vars
  BY SeedIsAbove DEF AllConcord, AllWatermark, Live
<1> QED BY <1>1, InvCorrect, AllWatermarkCorrect, PTL DEF Spec, SeedCoversHistory

\* As long as they agree at the host, whoever the host's core of a live session
\* admits was picked or invited in this run, however many sessions there were.
THEOREM HostAdmitsCorrect ==
    ASSUME ~Crash
    PROVE  Spec /\ []Concord(Host) => []HostAdmitsThisRun
<1>1. Init => Watermark(Host)
  BY WatermarkInit, MemberAssumption
<1>2. Init => AboveBar
  BY MemberAssumption DEF Init, AboveBar, NoCore
<1>3. Inv /\ Bearings /\ Concord(Host) /\ Concord(Host)' /\ Watermark(Host) /\ AboveBar
        /\ [Next]_vars => Watermark(Host)' /\ AboveBar'
  BY WatermarkStep, AboveBarStep, MemberAssumption
<1>4. Inv /\ AboveBar => HostAdmitsThisRun
  <2> SUFFICES ASSUME Inv, AboveBar, core[Host].isHost, core[Host].sid \notin gone,
                      NEW t \in core[Host].admitted
               PROVE  core[Host].admitAt[t] > bar
    BY DEF HostAdmitsThisRun
  <2>1. core[Host] \in Core /\ bar \in 0..MaxAt
    BY InvFacts, MemberAssumption DEF RestOK
  <2>2. t \in Member /\ core[Host].admitAt[t] \in 0..MaxAt
    BY <2>1 DEF Core
  <2>3. bar < core[Host].admitAt[t]
    BY <2>2 DEF AboveBar
  <2> QED BY <2>1, <2>2, <2>3
<1> QED BY <1>1, <1>2, <1>3, <1>4, InvCorrect, BearingsCorrect, PTL DEF Spec

\* Then also what the store remembers of a session is, once every report has been
\* handled, the highest grant any run of it applied.
THEOREM FloorIsHighestCorrect ==
    ASSUME ~Crash
    PROVE  Spec /\ []AllConcord => []FloorIsHighest
<1>1. Inv /\ AllConcord /\ AllWatermark => FloorIsHighest
  <2> SUFFICES ASSUME Inv, AllConcord, AllWatermark, NEW m \in Install, NEW s \in Sid,
                      disk[m].sid = s, ipc[m] = <<>>, Live(m, s)
               PROVE  disk[m].floor >= top[m][s]
    BY DEF FloorIsHighest, Live
  <2>1. Will(m) = s
    BY DEF Will, Sid
  <2>2. Covered(m, s) /\ DOMAIN ipc[m] = {}
    BY <2>1 DEF AllWatermark, Watermark, Tracked
  <2>3. /\ FloorOf(m, s) \in 0..MaxAt /\ disk[m].floor \in 0..MaxAt
        /\ top[m][s] \in 0..MaxAt
    BY AtType, BoundAssumption DEF FloorOf
  <2>4. FloorOf(m, s) <= disk[m].floor
    BY <2>2, <2>3 DEF Covered, ReportedIn
  <2> QED BY <2>2, <2>3, <2>4 DEF Covered
<1> QED BY <1>1, InvCorrect, AllWatermarkCorrect, PTL

\* In a room with one session id, nothing need be assumed of the copies.
THEOREM OneSessionSeed ==
    ASSUME ~Crash, MaxSid = 1
    PROVE  Spec => SeedCoversHistory
<1>1. Inv /\ Bearings => AllConcord
  BY OneSession DEF AllConcord
<1> QED BY <1>1, InvCorrect, BearingsCorrect, SeedCoversCorrect, PTL

\* The same of the host's admissions.
THEOREM OneSessionHost ==
    ASSUME ~Crash, MaxSid = 1
    PROVE  Spec => []HostAdmitsThisRun
<1>1. Inv /\ Bearings => Concord(Host)
  BY OneSession, MemberAssumption
<1> QED BY <1>1, InvCorrect, BearingsCorrect, HostAdmitsCorrect, PTL
=============================================================================
