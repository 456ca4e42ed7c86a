------------------------ MODULE LanAuthority_proofs ------------------------
(***************************************************************************)
(* Proofs about LanAuthority, for any room, any installs and any bounds.   *)
(*                                                                         *)
(* The invariant speaks of every core on its own (GoodCore).  The effects  *)
(* of the operators on a core are lemmas: their record updates are taken   *)
(* one field at a time, and only the lemmas are used after that.           *)
(***************************************************************************)
EXTENDS LanAuthority, FiniteSetTheorems, TLAPS

\* An admit the host has signed.
AdmitGrant(s, t, at) == [kind |-> "admit", sid |-> s, who |-> t, at |-> at]

\* The admissions of a core rest on grants, none of them was taken back, and a
\* core that hosts is the core of a session.
GoodCore(c, grants) ==
    /\ c \in Core
    /\ \A t \in c.admitted : AdmitGrant(c.sid, t, c.admitAt[t]) \in grants
    /\ c.admitted \cap c.evicted = {}
    /\ c.isHost => c.sid # 0

Inv ==
    /\ TypeOK
    /\ \A m \in Install : GoodCore(core[m], net)

\* d differs from c only in what admission does not depend on.
SameAdmission(d, c) ==
    /\ d \in Core
    /\ d.sid = c.sid /\ d.isHost = c.isHost
    /\ d.admitted = c.admitted /\ d.evicted = c.evicted /\ d.admitAt = c.admitAt

-----------------------------------------------------------------------------
(* The operators on a core *)

\* The higher of two clock values is one.
LEMMA HigherAt ==
    ASSUME NEW a \in 0..MaxAt, NEW b \in 0..MaxAt
    PROVE  Higher(a, b) \in 0..MaxAt
BY DEF Higher

\* One field of a core at a time.
LEMMA CoreExcept ==
    ASSUME NEW c \in Core
    PROVE  /\ \A v \in 0..MaxSid : [c EXCEPT !.sid = v] \in Core
           /\ \A v \in BOOLEAN : [c EXCEPT !.isHost = v] \in Core
           /\ \A v \in BOOLEAN : [c EXCEPT !.active = v] \in Core
           /\ \A v \in BOOLEAN : [c EXCEPT !.pinned = v] \in Core
           /\ \A v \in SUBSET Member : [c EXCEPT !.admitted = v] \in Core
           /\ \A v \in SUBSET Member : [c EXCEPT !.evicted = v] \in Core
           /\ \A v \in [Member -> 0..MaxAt] : [c EXCEPT !.admitAt = v] \in Core
           /\ \A v \in [Member -> 0..MaxAt] : [c EXCEPT !.evictAt = v] \in Core
           /\ \A v \in 0..MaxAt : [c EXCEPT !.seed = v] \in Core
           /\ \A v \in 0..MaxAt : [c EXCEPT !.floor = v] \in Core
           /\ \A v \in 0..MaxAt : [c EXCEPT !.lastAt = v] \in Core
BY DEF Core

\* The fields admission does not depend on.
LEMMA OtherFields ==
    ASSUME NEW c \in Core
    PROVE  /\ \A v \in BOOLEAN : SameAdmission([c EXCEPT !.active = v], c)
           /\ \A v \in BOOLEAN : SameAdmission([c EXCEPT !.pinned = v], c)
           /\ \A v \in 0..MaxAt : SameAdmission([c EXCEPT !.floor = v], c)
           /\ \A v \in 0..MaxAt : SameAdmission([c EXCEPT !.lastAt = v], c)
           /\ \A v \in [Member -> 0..MaxAt] : SameAdmission([c EXCEPT !.evictAt = v], c)
<1>1. ASSUME NEW v \in BOOLEAN PROVE SameAdmission([c EXCEPT !.active = v], c)
  <2>1. [c EXCEPT !.active = v] \in Core
    BY CoreExcept
  <2> QED BY <2>1 DEF SameAdmission, Core
<1>2. ASSUME NEW v \in 0..MaxAt PROVE SameAdmission([c EXCEPT !.floor = v], c)
  <2>1. [c EXCEPT !.floor = v] \in Core
    BY CoreExcept
  <2> QED BY <2>1 DEF SameAdmission, Core
<1>3. ASSUME NEW v \in 0..MaxAt PROVE SameAdmission([c EXCEPT !.lastAt = v], c)
  <2>1. [c EXCEPT !.lastAt = v] \in Core
    BY CoreExcept
  <2> QED BY <2>1 DEF SameAdmission, Core
<1>4. ASSUME NEW v \in [Member -> 0..MaxAt]
      PROVE  SameAdmission([c EXCEPT !.evictAt = v], c)
  <2>1. [c EXCEPT !.evictAt = v] \in Core
    BY CoreExcept
  <2> QED BY <2>1 DEF SameAdmission, Core
<1>5. ASSUME NEW v \in BOOLEAN PROVE SameAdmission([c EXCEPT !.pinned = v], c)
  <2>1. [c EXCEPT !.pinned = v] \in Core
    BY CoreExcept
  <2> QED BY <2>1 DEF SameAdmission, Core
<1> QED BY <1>1, <1>2, <1>3, <1>4, <1>5

\* Good depends on nothing else.
LEMMA SameIsGood ==
    ASSUME NEW c \in Core, NEW d, NEW grants, GoodCore(c, grants), SameAdmission(d, c)
    PROVE  GoodCore(d, grants)
BY DEF GoodCore, SameAdmission

\* More grants never hurt.
LEMMA MoreGrants ==
    ASSUME NEW c, NEW grants, NEW more, grants \subseteq more, GoodCore(c, grants)
    PROVE  GoodCore(c, more)
BY DEF GoodCore

\* The absent core admits nobody.
LEMMA NoCoreIsGood == \A grants : GoodCore(NoCore, grants)
BY BoundAssumption DEF GoodCore, NoCore, Core

\* A core just made, by the host or from gossip, admits nobody.
LEMMA NewCoreIsGood ==
    ASSUME NEW s \in Sid, NEW host \in BOOLEAN, NEW r \in Remembered, NEW grants
    PROVE  /\ GoodCore(NewCore(s, host, r), grants)
           /\ NewCore(s, host, r).sid = s
           /\ NewCore(s, host, r).admitted = {}
<1> DEFINE seed == IF r.sid = s THEN r.floor ELSE 0
           d1 == [NoCore EXCEPT !.sid = s]
           d2 == [d1 EXCEPT !.isHost = host]
           d3 == [d2 EXCEPT !.admitAt = [t \in Member |-> seed]]
           d4 == [d3 EXCEPT !.evictAt = [t \in Member |-> seed]]
           d5 == [d4 EXCEPT !.seed = seed]
           d6 == [d5 EXCEPT !.floor = seed]
           d7 == [d6 EXCEPT !.lastAt = seed]
           Blank(d) == d.admitted = {} /\ d.sid = s
<1>1. seed \in 0..MaxAt /\ s \in 0..MaxSid
  BY BoundAssumption DEF Remembered, Sid
<1>2. NoCore \in Core /\ NoCore.admitted = {}
  BY NoCoreIsGood DEF GoodCore, NoCore
<1>3. d1 \in Core /\ Blank(d1)
  <2>1. d1 \in Core
    BY <1>1, <1>2, CoreExcept
  <2> QED BY <1>2, <2>1 DEF Core
<1>4. d2 \in Core /\ Blank(d2)
  <2> HIDE DEF d1
  <2>1. d2 \in Core
    BY <1>3, CoreExcept
  <2> QED BY <1>3, <2>1 DEF Core
<1>5. d3 \in Core /\ Blank(d3)
  <2> HIDE DEF d2, seed
  <2>1. d3 \in Core
    BY <1>1, <1>4, CoreExcept
  <2> QED BY <1>4, <2>1 DEF Core
<1>6. d4 \in Core /\ Blank(d4)
  <2> HIDE DEF d3, seed
  <2>1. d4 \in Core
    BY <1>1, <1>5, CoreExcept
  <2> QED BY <1>5, <2>1 DEF Core
<1>7. d5 \in Core /\ Blank(d5)
  <2> HIDE DEF d4, seed
  <2>1. d5 \in Core
    BY <1>1, <1>6, CoreExcept
  <2> QED BY <1>6, <2>1 DEF Core
<1>8. d6 \in Core /\ Blank(d6)
  <2> HIDE DEF d5, seed
  <2>1. d6 \in Core
    BY <1>1, <1>7, CoreExcept
  <2> QED BY <1>7, <2>1 DEF Core
<1>9. d7 \in Core /\ Blank(d7)
  <2> HIDE DEF d6, seed
  <2>1. d7 \in Core
    BY <1>1, <1>8, CoreExcept
  <2> QED BY <1>8, <2>1 DEF Core
<1>10. NewCore(s, host, r) = d7
  BY DEF NewCore
<1> HIDE DEF d7
<1> QED BY <1>9, <1>10 DEF GoodCore, Sid

\* What admitting a member changes.
LEMMA AdmittingEffect ==
    ASSUME NEW c \in Core, NEW t \in Member, NEW at \in At
    PROVE  /\ Admitting(c, t, at) \in Core
           /\ Admitting(c, t, at).sid = c.sid /\ Admitting(c, t, at).isHost = c.isHost
           /\ Admitting(c, t, at).admitted = c.admitted \cup {t}
           /\ Admitting(c, t, at).evicted = c.evicted
           /\ Admitting(c, t, at).admitAt = [c.admitAt EXCEPT ![t] = at]
<1> DEFINE d1 == [c EXCEPT !.admitted = c.admitted \cup {t}]
           d2 == [d1 EXCEPT !.admitAt = [d1.admitAt EXCEPT ![t] = at]]
           d3 == [d2 EXCEPT !.floor = Higher(c.floor, at)]
<1>a. at \in 0..MaxAt
  BY BoundAssumption DEF At
<1>1. /\ d1 \in Core /\ d1.sid = c.sid /\ d1.isHost = c.isHost
      /\ d1.admitted = c.admitted \cup {t}
      /\ d1.evicted = c.evicted /\ d1.admitAt = c.admitAt
  <2>1. c.admitted \cup {t} \in SUBSET Member
    BY DEF Core
  <2>2. d1 \in Core
    BY <2>1, CoreExcept
  <2> QED BY <2>2 DEF Core
<1> HIDE DEF d1
<1>2. /\ d2 \in Core /\ d2.sid = c.sid /\ d2.isHost = c.isHost
      /\ d2.admitted = c.admitted \cup {t}
      /\ d2.evicted = c.evicted /\ d2.admitAt = [c.admitAt EXCEPT ![t] = at]
  <2>1. [d1.admitAt EXCEPT ![t] = at] \in [Member -> 0..MaxAt]
    BY <1>1, <1>a DEF Core
  <2>2. d2 \in Core
    BY <1>1, <2>1, CoreExcept
  <2> QED BY <1>1, <2>2 DEF Core
<1> HIDE DEF d2
<1>3. SameAdmission(d3, d2)
  <2>1. Higher(c.floor, at) \in 0..MaxAt
    BY <1>a, HigherAt DEF Core
  <2> QED BY <1>2, <2>1, OtherFields
<1>4. Admitting(c, t, at) = d3
  BY DEF Admitting, d1, d2
<1> HIDE DEF d3
<1> QED BY <1>2, <1>3, <1>4 DEF SameAdmission

\* What evicting a member changes.
LEMMA EvictingEffect ==
    ASSUME NEW c \in Core, NEW t \in Member, NEW at \in At
    PROVE  /\ Evicting(c, t, at) \in Core
           /\ Evicting(c, t, at).sid = c.sid /\ Evicting(c, t, at).isHost = c.isHost
           /\ Evicting(c, t, at).admitted = c.admitted \ {t}
           /\ Evicting(c, t, at).evicted = c.evicted \cup {t}
           /\ Evicting(c, t, at).admitAt = c.admitAt
<1> DEFINE d1 == [c EXCEPT !.admitted = c.admitted \ {t}]
           d2 == [d1 EXCEPT !.evicted = c.evicted \cup {t}]
           d3 == [d2 EXCEPT !.evictAt = [d2.evictAt EXCEPT ![t] = at]]
           d4 == [d3 EXCEPT !.floor = Higher(c.floor, at)]
<1>a. at \in 0..MaxAt
  BY BoundAssumption DEF At
<1>1. /\ d1 \in Core /\ d1.sid = c.sid /\ d1.isHost = c.isHost
      /\ d1.admitted = c.admitted \ {t}
      /\ d1.evicted = c.evicted /\ d1.admitAt = c.admitAt
  <2>1. c.admitted \ {t} \in SUBSET Member
    BY DEF Core
  <2>2. d1 \in Core
    BY <2>1, CoreExcept
  <2> QED BY <2>2 DEF Core
<1> HIDE DEF d1
<1>2. /\ d2 \in Core /\ d2.sid = c.sid /\ d2.isHost = c.isHost
      /\ d2.admitted = c.admitted \ {t}
      /\ d2.evicted = c.evicted \cup {t} /\ d2.admitAt = c.admitAt
  <2>1. c.evicted \cup {t} \in SUBSET Member
    BY DEF Core
  <2>2. d2 \in Core
    BY <1>1, <2>1, CoreExcept
  <2> QED BY <1>1, <2>2 DEF Core
<1> HIDE DEF d2
<1>3. SameAdmission(d3, d2)
  <2>1. [d2.evictAt EXCEPT ![t] = at] \in [Member -> 0..MaxAt]
    BY <1>2, <1>a DEF Core
  <2> QED BY <1>2, <2>1, OtherFields
<1> HIDE DEF d3
<1>4. SameAdmission(d4, d3)
  <2>1. Higher(c.floor, at) \in 0..MaxAt
    BY <1>a, HigherAt DEF Core
  <2> QED BY <1>3, <2>1, OtherFields DEF SameAdmission
<1>5. Evicting(c, t, at) = d4
  BY DEF Evicting, d1, d2, d3
<1> HIDE DEF d4
<1> QED BY <1>2, <1>3, <1>4, <1>5 DEF SameAdmission

-----------------------------------------------------------------------------
(* The effects of a step on the other variables and on one core *)

CallType == [op : {"none", "dial", "reply", "evict"}, sid : 0..MaxSid]
ReportSent == [sid : Sid, at : At]

\* TypeOK of everything but the cores.
RestOK ==
    /\ room \in [Install -> Remembered] /\ disk \in [Install -> Remembered]
    /\ ipc \in [Install -> Seq(ReportSent)]
    /\ call \in [Install -> CallType]
    /\ net \subseteq Grant \cup Genesis
    /\ minted \in 0..MaxSid /\ issued \in 0..MaxAt
    /\ top \in [Install -> [Sid -> 0..MaxAt]]
    /\ gone \subseteq Sid /\ bar \in 0..MaxAt

\* A step keeps who was evicted, or makes a core or clears it.
Advances(m) ==
    \/ core[m].evicted \subseteq core'[m].evicted
    \/ core'[m].admitted = {}
    \/ Created(m)

\* What one step does to all the cores.
CoresStep ==
    /\ core' \in [Install -> Core]
    /\ \A i \in Install : GoodCore(core'[i], net') /\ Advances(i)

\* The type invariant, the cores apart.
LEMMA TypeSplit == TypeOK <=> (core \in [Install -> Core] /\ RestOK)
BY DEF TypeOK, RestOK, CallType, ReportSent

\* A step that leaves every core alone.
LEMMA CoresKept ==
    ASSUME Inv, core' = core, net \subseteq net'
    PROVE  CoresStep
BY MoreGrants, TypeSplit DEF Inv, CoresStep, Advances

\* A step that changes the core of one install, to a good one.
LEMMA OneCoreChanged ==
    ASSUME Inv, NEW m \in Install, NEW d, core' = [core EXCEPT ![m] = d],
           net \subseteq net', GoodCore(d, net'),
           core[m].evicted \subseteq d.evicted \/ d.admitted = {} \/ Created(m)
    PROVE  CoresStep
<1>1. core \in [Install -> Core]
  BY TypeSplit DEF Inv
<1>2. core' \in [Install -> Core]
  BY <1>1 DEF GoodCore
<1>3. ASSUME NEW i \in Install PROVE GoodCore(core'[i], net') /\ Advances(i)
  <2>1. CASE i = m
    BY <1>1, <2>1 DEF Advances
  <2>2. CASE i # m
    <3>1. core'[i] = core[i]
      BY <1>1, <2>2
    <3> QED BY <3>1, MoreGrants DEF Inv, Advances
  <2> QED BY <2>1, <2>2
<1> QED BY <1>2, <1>3 DEF CoresStep

\* A remembered session stays one when a floor is noted,
LEMMA NotedFloorType ==
    ASSUME NEW r \in Remembered, NEW s \in Sid, NEW n \in At
    PROVE  NotedFloor(r, s, n) \in Remembered
BY BoundAssumption DEF NotedFloor, Remembered, Sid, At

\* and when a start adopts one.
LEMMA AdoptedType ==
    ASSUME RestOK, NEW m \in Install, NEW s \in Sid
    PROVE  Adopted(m, s) \in Remembered
<1> DEFINE floor == IF room[m].sid = s THEN room[m].floor ELSE 0
<1>1. room[m] \in Remembered /\ disk[m] \in Remembered
  BY DEF RestOK
<1>2. floor \in 0..MaxAt /\ DiskFloor(m, s) \in 0..MaxAt
  BY <1>1, BoundAssumption DEF DiskFloor, Remembered
<1>3. Higher(floor, DiskFloor(m, s)) \in 0..MaxAt
  BY <1>2, HigherAt
<1> QED BY <1>3, BoundAssumption DEF Adopted, Remembered, Sid

\* Reporting a floor touches the memory and the messages of one install.
LEMMA ReportRest ==
    ASSUME RestOK, NEW m \in Install, NEW before \in Core,
           NEW c \in Core, c.sid \in Sid, Report(m, before, c)
    PROVE  room' \in [Install -> Remembered] /\ ipc' \in [Install -> Seq(ReportSent)]
<1>1. CASE c.floor > before.floor
  <2>1. c.floor \in At
    BY <1>1, BoundAssumption DEF Core, At
  <2>2. room[m] \in Remembered /\ ipc[m] \in Seq(ReportSent)
    BY DEF RestOK
  <2>3. NotedFloor(room[m], c.sid, c.floor) \in Remembered
    BY <2>1, <2>2, NotedFloorType
  <2>4. [sid |-> c.sid, at |-> c.floor] \in ReportSent
    BY <2>1 DEF ReportSent
  <2>5. Append(ipc[m], [sid |-> c.sid, at |-> c.floor]) \in Seq(ReportSent)
    BY <2>2, <2>4
  <2> QED BY <1>1, <2>3, <2>5 DEF Report, RestOK
<1>2. CASE ~(c.floor > before.floor)
  BY <1>2 DEF Report, RestOK
<1> QED BY <1>1, <1>2

\* The history of what was applied stays one.
LEMMA LearntType ==
    ASSUME RestOK, NEW m \in Install, NEW s \in Sid, NEW n \in 0..MaxAt, Learnt(m, s, n)
    PROVE  top' \in [Install -> [Sid -> 0..MaxAt]]
<1>1. top[m][s] \in 0..MaxAt
  BY DEF RestOK
<1>2. Higher(top[m][s], n) \in 0..MaxAt
  BY <1>1, HigherAt
<1> QED BY <1>2 DEF Learnt, RestOK

\* The clock values of one pass are clock values.
LEMMA TimesType ==
    ASSUME NEW T \in SUBSET Member, NEW base \in 0..MaxAt,
           base + Cardinality(T) <= MaxAt, NEW f \in Times(base, T)
    PROVE  f \in [T -> At] /\ base + Cardinality(T) \in 0..MaxAt
<1>1. Cardinality(T) \in Nat
  BY MemberAssumption, FS_Subset, FS_CardinalityType
<1> QED BY <1>1, BoundAssumption DEF Times, At

\* nextAt() starts from a clock value.
LEMMA BasesType ==
    ASSUME RestOK, NEW c \in Core, NEW base \in Bases(c)
    PROVE  base \in 0..MaxAt
<1>1. c.lastAt \in 0..MaxAt /\ issued \in 0..MaxAt
  BY DEF Core, RestOK
<1> QED BY <1>1, HigherAt DEF Bases

\* One pass of signed admits: every new admission is broadcast, nobody who was
\* evicted is among them.
LEMMA SignAdmitsEffect ==
    ASSUME Inv, NEW c, GoodCore(c, net), c.sid \in Sid,
           NEW T \in SUBSET Member, NEW extra \in SUBSET Genesis,
           c.evicted = core[Host].evicted,
           SignAdmits(c, T, extra)
    PROVE  /\ CoresStep
           /\ room' \in [Install -> Remembered] /\ ipc' \in [Install -> Seq(ReportSent)]
           /\ net' \subseteq Grant \cup Genesis
           /\ issued' \in 0..MaxAt
           /\ top' \in [Install -> [Sid -> 0..MaxAt]]
<1> DEFINE Ok(f) == {t \in T : CanAdmit(c, c.sid, t, f[t])}
           Signed(f, base, n) ==
               [c EXCEPT
                   !.admitted = @ \cup Ok(f),
                   !.admitAt = [t \in Member |-> IF t \in Ok(f) THEN f[t] ELSE @[t]],
                   !.floor = n, !.lastAt = base + Cardinality(T)]
           Sent(f) == {AdmitGrant(c.sid, t, f[t]) : t \in Ok(f)}
<1>1. /\ RestOK /\ core \in [Install -> Core] /\ Host \in Install
      /\ c \in Core
  BY TypeSplit, MemberAssumption DEF Inv, GoodCore
<1>2. PICK base \in Bases(c) :
        /\ base + Cardinality(T) <= MaxAt
        /\ \E f \in Times(base, T), n \in 0..MaxAt :
              /\ Report(Host, c, Signed(f, base, n))
              /\ net' = net \cup extra \cup Sent(f)
              /\ IF Ok(f) = {} THEN UNCHANGED <<issued, top>>
                 ELSE issued' = Higher(issued, n) /\ Learnt(Host, c.sid, n)
  BY DEF SignAdmits, AdmitGrant
<1>3. PICK f \in Times(base, T), n \in 0..MaxAt :
              /\ Report(Host, c, Signed(f, base, n))
              /\ net' = net \cup extra \cup Sent(f)
              /\ IF Ok(f) = {} THEN UNCHANGED <<issued, top>>
                 ELSE issued' = Higher(issued, n) /\ Learnt(Host, c.sid, n)
  BY <1>2
<1> DEFINE ok == Ok(f)
           last == base + Cardinality(T)
           d1 == [c EXCEPT !.admitted = c.admitted \cup ok]
           at == [t \in Member |-> IF t \in ok THEN f[t] ELSE d1.admitAt[t]]
           d2 == [d1 EXCEPT !.admitAt = at]
           d3 == [d2 EXCEPT !.floor = n]
           d4 == [d3 EXCEPT !.lastAt = last]
<1>4. base \in 0..MaxAt /\ f \in [T -> At] /\ last \in 0..MaxAt
  BY <1>1, <1>2, BasesType, TimesType
<1>5. ok \subseteq T /\ \A t \in ok : t \notin c.evicted
  BY DEF CanAdmit
<1>6. Sent(f) \subseteq Grant /\ \A t \in ok : AdmitGrant(c.sid, t, f[t]) \in net'
  BY <1>3, <1>4, <1>5 DEF Grant, AdmitGrant
<1>7. Signed(f, base, n) = d4
  OBVIOUS
<1> HIDE DEF Signed, ok, last
<1>8. /\ d1 \in Core /\ d1.sid = c.sid /\ d1.isHost = c.isHost
      /\ d1.admitted = c.admitted \cup ok
      /\ d1.evicted = c.evicted /\ d1.admitAt = c.admitAt
  <2>1. c.admitted \cup ok \in SUBSET Member
    BY <1>1, <1>5 DEF Core
  <2>2. d1 \in Core
    BY <1>1, <2>1, CoreExcept
  <2> QED BY <1>1, <2>2 DEF Core
<1> HIDE DEF d1
<1>9. at \in [Member -> 0..MaxAt]
  BY <1>4, <1>5, <1>8, BoundAssumption DEF Core, At
<1> HIDE DEF at
<1>10. /\ d2 \in Core /\ d2.sid = c.sid /\ d2.isHost = c.isHost
       /\ d2.admitted = c.admitted \cup ok
       /\ d2.evicted = c.evicted /\ d2.admitAt = at
  <2>1. d2 \in Core
    BY <1>8, <1>9, CoreExcept
  <2> QED BY <1>8, <2>1 DEF Core
<1> HIDE DEF d2
<1>11. SameAdmission(d3, d2)
  BY <1>10, OtherFields
<1> HIDE DEF d3
<1>12. SameAdmission(d4, d3)
  BY <1>4, <1>11, OtherFields DEF SameAdmission
<1> HIDE DEF d4
<1>13. /\ d4 \in Core /\ d4.sid = c.sid /\ d4.isHost = c.isHost
       /\ d4.admitted = c.admitted \cup ok
       /\ d4.evicted = c.evicted /\ d4.admitAt = at
  BY <1>10, <1>11, <1>12 DEF SameAdmission
<1>14. GoodCore(d4, net')
  <2>1. d4.admitted \cap d4.evicted = {}
    BY <1>5, <1>13 DEF GoodCore
  <2>2. ASSUME NEW t \in d4.admitted
        PROVE  AdmitGrant(d4.sid, t, d4.admitAt[t]) \in net'
    <3>0. t \in Member /\ net \subseteq net'
      BY <1>3, <1>13 DEF Core
    <3>1. CASE t \in ok
      BY <1>6, <1>13, <3>0, <3>1 DEF at
    <3>2. CASE t \notin ok
      BY <1>8, <1>13, <3>0, <3>2 DEF at, GoodCore
    <3> QED BY <3>1, <3>2
  <2> QED BY <1>13, <2>1, <2>2 DEF GoodCore
<1>15. Report(Host, c, d4) /\ net \subseteq net'
  BY <1>3, <1>7
<1>16. CoresStep
  BY <1>1, <1>13, <1>14, <1>15, OneCoreChanged DEF Report
<1>17. room' \in [Install -> Remembered] /\ ipc' \in [Install -> Seq(ReportSent)]
  BY <1>1, <1>13, <1>15, ReportRest
<1>18. net' \subseteq Grant \cup Genesis
  BY <1>1, <1>3, <1>6 DEF RestOK
<1>19. issued' \in 0..MaxAt /\ top' \in [Install -> [Sid -> 0..MaxAt]]
  BY <1>1, <1>3, HigherAt, LearntType DEF RestOK
<1> QED BY <1>16, <1>17, <1>18, <1>19

-----------------------------------------------------------------------------
(* The steps *)

\* What every step establishes about the next state.
StepOK == CoresStep /\ RestOK'

\* The parts of the invariant.
LEMMA InvFacts ==
    ASSUME Inv
    PROVE  /\ RestOK /\ core \in [Install -> Core]
           /\ \A m \in Install : GoodCore(core[m], net)
BY TypeSplit DEF Inv

\* A core whose admission is as before may take the place of core[m].
LEMMA SameCoreChanged ==
    ASSUME Inv, NEW m \in Install, NEW d, SameAdmission(d, core[m]),
           core' = [core EXCEPT ![m] = d], net \subseteq net'
    PROVE  CoresStep
<1>1. GoodCore(d, net)
  BY SameIsGood, InvFacts
<1> QED BY <1>1, MoreGrants, OneCoreChanged DEF SameAdmission

\* The core gossip is applied to: the one there is, or a new one.
LEMMA EnsuredIsGood ==
    ASSUME Inv, NEW m \in Install, NEW s \in Sid
    PROVE  /\ GoodCore(Ensured(m, s), net)
           /\ Ensured(m, s).sid = s
           /\ core[m].evicted \subseteq Ensured(m, s).evicted \/ s # core[m].sid
<1>1. CASE core[m].sid = s
  BY <1>1, InvFacts DEF Ensured
<1>2. CASE core[m].sid # s
  <2>1. room[m] \in Remembered
    BY InvFacts DEF RestOK
  <2> QED BY <1>2, <2>1, NewCoreIsGood DEF Ensured
<1> QED BY <1>1, <1>2

\* A step that changes no core and sends nothing.
LEMMA QuietStep ==
    ASSUME Inv, UNCHANGED <<core, net>>, RestOK'
    PROVE  StepOK
BY CoresKept DEF StepOK

\* The operation of an install whose main process awaits nothing.
NoCall == [op |-> "none", sid |-> 0]

\* What a member remembers before any session.
LEMMA BlankTypes == NoSession \in Remembered /\ NoCall \in CallType
BY BoundAssumption DEF NoSession, Remembered, NoCall, CallType

\* The host opens a session: a new core, seeded from what is remembered.
LEMMA HostOpenStep == Inv /\ HostOpen => StepOK
<1> SUFFICES ASSUME Inv, HostOpen PROVE StepOK
  OBVIOUS
<1> DEFINE d == NewCore(HostSid, TRUE, Adopted(Host, HostSid))
<1>1. RestOK /\ Host \in Install /\ HostSid \in Sid /\ HostSid \in 0..MaxSid
  BY InvFacts, MemberAssumption DEF HostOpen, Sid
<1>2. Adopted(Host, HostSid) \in Remembered
  BY <1>1, AdoptedType
<1>3. GoodCore(d, net) /\ d.admitted = {}
  BY <1>1, <1>2, NewCoreIsGood
<1>4. core' = [core EXCEPT ![Host] = d] /\ net' = net
  BY DEF HostOpen
<1> HIDE DEF d
<1>5. CoresStep
  BY <1>1, <1>3, <1>4, OneCoreChanged
<1>6. minted' \in 0..MaxSid
  BY <1>1 DEF HostOpen, Higher, RestOK
<1>7. [op |-> "dial", sid |-> HostSid] \in CallType
  BY <1>1 DEF CallType
<1>8. RestOK'
  BY <1>1, <1>2, <1>6, <1>7 DEF HostOpen, RestOK
<1> QED BY <1>5, <1>8 DEF StepOK

\* What the three actions in which the host signs admits have in common.
LEMMA SignedRest ==
    ASSUME Inv, NEW c, GoodCore(c, net), c.sid \in Sid,
           NEW T \in SUBSET Member, NEW extra \in SUBSET Genesis,
           c.evicted = core[Host].evicted, SignAdmits(c, T, extra),
           UNCHANGED <<disk, minted, gone, bar>>, call' \in [Install -> CallType]
    PROVE  StepOK
<1>1. RestOK
  BY InvFacts
<1>2. /\ CoresStep
      /\ room' \in [Install -> Remembered] /\ ipc' \in [Install -> Seq(ReportSent)]
      /\ net' \subseteq Grant \cup Genesis
      /\ issued' \in 0..MaxAt
      /\ top' \in [Install -> [Sid -> 0..MaxAt]]
  BY SignAdmitsEffect
<1> QED BY <1>1, <1>2 DEF StepOK, RestOK

\* A genesis is one.
LEMMA GenesisType == \A s \in Sid : {GenesisOf(s)} \in SUBSET Genesis
BY DEF GenesisOf, Genesis

\* The host goes active: its core is pinned, then signs its first admits.
LEMMA HostConnectedStep ==
    \A picks \in SUBSET (Member \ {Host}) : Inv /\ HostConnected(picks) => StepOK
<1> SUFFICES ASSUME NEW picks \in SUBSET (Member \ {Host}), Inv, HostConnected(picks)
             PROVE  StepOK
  OBVIOUS
<1> DEFINE d1 == [core[Host] EXCEPT !.active = TRUE]
           d2 == [d1 EXCEPT !.pinned = TRUE]
<1>1. /\ RestOK /\ core[Host] \in Core /\ Host \in Install /\ GoodCore(core[Host], net)
      /\ Host \in Member /\ call[Host] \in CallType
  BY InvFacts, MemberAssumption DEF RestOK
<1>2. SameAdmission(d1, core[Host])
  BY <1>1, OtherFields
<1> HIDE DEF d1
<1>3. SameAdmission(d2, d1)
  BY <1>2, OtherFields DEF SameAdmission
<1>4. /\ SignAdmits(d2, {Host} \cup picks, {GenesisOf(core[Host].sid)})
      /\ core[Host].sid = call[Host].sid
      /\ call' = [call EXCEPT ![Host].op = "reply"]
      /\ UNCHANGED <<disk, minted, gone, bar>>
  BY DEF HostConnected, d1
<1> HIDE DEF d2
<1>5. GoodCore(d2, net) /\ d2.evicted = core[Host].evicted /\ d2.sid = core[Host].sid
  BY <1>1, <1>2, <1>3, SameIsGood DEF SameAdmission
<1>6. core[Host].sid \in Sid
  BY <1>1 DEF HostConnected, GoodCore, Core, Sid
<1>7. call' \in [Install -> CallType]
  BY <1>1, <1>4 DEF RestOK, CallType
<1> QED BY <1>1, <1>4, <1>5, <1>6, <1>7, GenesisType, SignedRest

\* The host invites one more member.
LEMMA InviteStep == \A t \in Member : Inv /\ Invite(t) => StepOK
<1> SUFFICES ASSUME NEW t \in Member, Inv, Invite(t) PROVE StepOK
  OBVIOUS
<1>1. RestOK /\ core[Host] \in Core /\ GoodCore(core[Host], net)
  BY InvFacts, MemberAssumption
<1>2. core[Host].sid \in Sid
  BY <1>1 DEF Invite, GoodCore, Core, Sid
<1>3. /\ SignAdmits(core[Host], {t}, {}) /\ UNCHANGED <<disk, minted, gone, bar>>
      /\ call' \in [Install -> CallType]
  BY <1>1 DEF Invite, RestOK
<1> QED BY <1>1, <1>2, <1>3, SignedRest

\* The host signs a fresh admit for everybody still admitted.
LEMMA RemintStep == Inv /\ Remint => StepOK
<1> SUFFICES ASSUME Inv, Remint PROVE StepOK
  OBVIOUS
<1>1. RestOK /\ core[Host] \in Core /\ GoodCore(core[Host], net)
  BY InvFacts, MemberAssumption
<1>2. core[Host].sid \in Sid /\ core[Host].admitted \in SUBSET Member
  BY <1>1 DEF Remint, GoodCore, Core, Sid
<1>3. /\ SignAdmits(core[Host], core[Host].admitted, {GenesisOf(core[Host].sid)})
      /\ UNCHANGED <<disk, minted, gone, bar>>
      /\ call' \in [Install -> CallType]
  BY <1>1 DEF Remint, RestOK
<1> QED BY <1>1, <1>2, <1>3, GenesisType, SignedRest

\* A core that evicts t on the strength of the grants that are in net'.
LEMMA EvictingIsGood ==
    ASSUME NEW c, NEW grants, GoodCore(c, grants), NEW t \in Member, NEW at \in At
    PROVE  GoodCore(Evicting(c, t, at), grants)
<1> DEFINE d == Evicting(c, t, at)
<1>1. c \in Core
  BY DEF GoodCore
<1>2. /\ d \in Core /\ d.sid = c.sid /\ d.isHost = c.isHost
      /\ d.admitted = c.admitted \ {t} /\ d.evicted = c.evicted \cup {t}
      /\ d.admitAt = c.admitAt
  BY <1>1, EvictingEffect
<1> HIDE DEF d
<1>3. GoodCore(d, grants)
  BY <1>2 DEF GoodCore
<1> QED BY <1>3 DEF d

\* The host evicts: applied to its own core, then broadcast.
LEMMA EvictStep == \A t \in Member : Inv /\ Evict(t) => StepOK
<1> SUFFICES ASSUME NEW t \in Member, Inv, Evict(t) PROVE StepOK
  OBVIOUS
<1> DEFINE c == core[Host]
           s == core[Host].sid
<1>1. RestOK /\ c \in Core /\ GoodCore(c, net) /\ Host \in Install
  BY InvFacts, MemberAssumption
<1>2. s \in Sid
  BY <1>1 DEF Evict, GoodCore, Core, Sid
<1>3. PICK base \in Bases(c) :
        /\ base + 1 <= MaxAt
        /\ Report(Host, c, [Evicting(c, t, base + 1) EXCEPT !.lastAt = base + 1])
        /\ net' = net \cup {[kind |-> "evict", sid |-> s, who |-> t, at |-> base + 1]}
        /\ issued' = Higher(issued, base + 1)
        /\ Learnt(Host, s, base + 1)
  BY DEF Evict
<1> DEFINE at == base + 1
           d1 == Evicting(c, t, at)
           d2 == [d1 EXCEPT !.lastAt = at]
<1>4. at \in At /\ at \in 0..MaxAt
  BY <1>1, <1>3, BasesType, BoundAssumption DEF At
<1>5. net \subseteq net' /\ net' \subseteq Grant \cup Genesis
  BY <1>1, <1>2, <1>3, <1>4 DEF RestOK, Grant
<1>6. Report(Host, c, d2) /\ Learnt(Host, s, at) /\ issued' = Higher(issued, at)
  BY <1>3
<1> HIDE DEF at
<1>7. d1 \in Core /\ GoodCore(d1, net) /\ d1.sid = s /\ c.evicted \subseteq d1.evicted
  BY <1>1, <1>4, EvictingIsGood, EvictingEffect
<1> HIDE DEF d1
<1>8. SameAdmission(d2, d1)
  BY <1>4, <1>7, OtherFields
<1> HIDE DEF d2
<1>9. GoodCore(d2, net') /\ d2 \in Core /\ d2.sid = s /\ c.evicted \subseteq d2.evicted
  BY <1>5, <1>7, <1>8, SameIsGood, MoreGrants DEF SameAdmission
<1>10. CoresStep
  BY <1>1, <1>5, <1>6, <1>9, OneCoreChanged DEF Report
<1>11. room' \in [Install -> Remembered] /\ ipc' \in [Install -> Seq(ReportSent)]
  BY <1>1, <1>2, <1>6, <1>9, ReportRest
<1>12. issued' \in 0..MaxAt /\ top' \in [Install -> [Sid -> 0..MaxAt]]
  BY <1>1, <1>2, <1>4, <1>6, HigherAt, LearntType DEF RestOK
<1>13. /\ UNCHANGED <<disk, minted, bar>>
       /\ gone' = gone \cup {s}
       /\ call' = [call EXCEPT ![Host] = [op |-> "evict", sid |-> s]]
  BY DEF Evict
<1>14. [op |-> "evict", sid |-> s] \in CallType
  BY <1>1 DEF CallType, Core
<1> HIDE DEF s, c
<1>15. RestOK'
  BY <1>1, <1>2, <1>5, <1>11, <1>12, <1>13, <1>14 DEF RestOK
<1> QED BY <1>10, <1>15 DEF StepOK

\* Main forgets the session id.
LEMMA EvictRepliedStep == Inv /\ EvictReplied => StepOK
<1> SUFFICES ASSUME Inv, EvictReplied PROVE StepOK
  OBVIOUS
<1>1. RestOK /\ UNCHANGED <<core, net>>
  BY InvFacts DEF EvictReplied
<1>2. NoSession \in Remembered /\ NoCall \in CallType
  BY BlankTypes
<1>3. RestOK'
  BY <1>1, <1>2 DEF EvictReplied, RestOK, NoCall
<1> QED BY <1>1, <1>3, QuietStep

\* A joiner accepts: its passive core is kept.
LEMMA JoinerOpenStep == \A m \in Install : Inv /\ JoinerOpen(m) => StepOK
<1> SUFFICES ASSUME NEW m \in Install, Inv, JoinerOpen(m) PROVE StepOK
  OBVIOUS
<1>1. RestOK /\ core[m] \in Core /\ UNCHANGED <<core, net>>
  BY InvFacts DEF JoinerOpen
<1>2. core[m].sid \in Sid
  BY <1>1 DEF JoinerOpen, Core, Sid
<1>3. Adopted(m, core[m].sid) \in Remembered
  BY <1>1, <1>2, AdoptedType
<1>4. [op |-> "dial", sid |-> core[m].sid] \in CallType
  BY <1>1 DEF CallType, Core
<1>5. RestOK'
  BY <1>1, <1>3, <1>4 DEF JoinerOpen, RestOK
<1> QED BY <1>1, <1>5, QuietStep

\* A joiner goes active.
LEMMA JoinerConnectedStep == \A m \in Install : Inv /\ JoinerConnected(m) => StepOK
<1> SUFFICES ASSUME NEW m \in Install, Inv, JoinerConnected(m) PROVE StepOK
  OBVIOUS
<1> DEFINE d == [core[m] EXCEPT !.active = TRUE]
<1>1. RestOK /\ core[m] \in Core /\ core' = [core EXCEPT ![m] = d] /\ net' = net
  BY InvFacts DEF JoinerConnected
<1>2. SameAdmission(d, core[m])
  BY <1>1, OtherFields
<1> HIDE DEF d
<1>3. CoresStep
  BY <1>1, <1>2, SameCoreChanged
<1>4. RestOK'
  BY <1>1 DEF JoinerConnected, RestOK, CallType
<1> QED BY <1>3, <1>4 DEF StepOK

\* A start fails.
LEMMA DialFailsStep == \A m \in Install : Inv /\ DialFails(m) => StepOK
<1> SUFFICES ASSUME NEW m \in Install, Inv, DialFails(m) PROVE StepOK
  OBVIOUS
<1>1. PICK c \in {NoCore} \cup {d \in {core[m]} : d.sid # call[m].sid} :
        core' = [core EXCEPT ![m] = c]
  BY DEF DialFails
<1>2. GoodCore(c, net) /\ (c = NoCore \/ c = core[m])
  BY InvFacts, NoCoreIsGood
<1>3. net' = net /\ NoCore.admitted = {}
  BY DEF DialFails, NoCore
<1>4. CoresStep
  BY <1>1, <1>2, <1>3, OneCoreChanged
<1>5. RestOK'
  BY InvFacts, BlankTypes DEF DialFails, RestOK, NoCall
<1> QED BY <1>4, <1>5 DEF StepOK

\* Main remembers the session.
LEMMA StartRepliedStep == \A m \in Install : Inv /\ StartReplied(m) => StepOK
<1> SUFFICES ASSUME NEW m \in Install, Inv, StartReplied(m) PROVE StepOK
  OBVIOUS
<1> DEFINE r == IF disk[m].sid = call[m].sid THEN disk[m]
                ELSE [sid |-> call[m].sid, floor |-> 0]
<1>1. RestOK /\ UNCHANGED <<core, net>>
  BY InvFacts DEF StartReplied
<1>2. r \in Remembered
  BY <1>1, BoundAssumption DEF RestOK, CallType, Remembered
<1>3. disk' = [disk EXCEPT ![m] = r]
  BY <1>1 DEF StartReplied, RestOK
<1> HIDE DEF r
<1>4. RestOK'
  BY <1>1, <1>2, <1>3, BlankTypes DEF StartReplied, RestOK, NoCall
<1> QED BY <1>1, <1>4, QuietStep

\* Whatever takes the core away leaves one that admits nobody.
LEMMA CoreGone ==
    ASSUME Inv, NEW m \in Install, core' = [core EXCEPT ![m] = NoCore], net' = net
    PROVE  CoresStep
<1>1. GoodCore(NoCore, net) /\ NoCore.admitted = {}
  BY NoCoreIsGood DEF NoCore
<1> QED BY <1>1, OneCoreChanged

\* The session is stopped.
LEMMA StopStep == \A m \in Install : Inv /\ Stop(m) => StepOK
BY CoreGone, InvFacts DEF Stop, StepOK, RestOK

\* The helper is lost; the core is kept.
LEMMA HelperLostStep == \A m \in Install : Inv /\ HelperLost(m) => StepOK
<1> SUFFICES ASSUME NEW m \in Install, Inv, HelperLost(m) PROVE StepOK
  OBVIOUS
<1> DEFINE d == [core[m] EXCEPT !.active = FALSE]
<1>1. RestOK /\ core[m] \in Core /\ core' = [core EXCEPT ![m] = d] /\ net' = net
  BY InvFacts DEF HelperLost
<1>2. SameAdmission(d, core[m])
  BY <1>1, OtherFields
<1> HIDE DEF d
<1>3. CoresStep
  BY <1>1, <1>2, SameCoreChanged
<1>4. RestOK'
  BY <1>1 DEF HelperLost, RestOK
<1> QED BY <1>3, <1>4 DEF StepOK

\* A floor report reaches main.
LEMMA MainNotesStep == \A m \in Install : Inv /\ MainNotes(m) => StepOK
<1> SUFFICES ASSUME NEW m \in Install, Inv, MainNotes(m) PROVE StepOK
  OBVIOUS
<1>1. RestOK /\ UNCHANGED <<core, net>> /\ ipc[m] \in Seq(ReportSent) /\ ipc[m] # <<>>
  BY InvFacts DEF MainNotes, RestOK
<1>2. Head(ipc[m]) \in ReportSent /\ Tail(ipc[m]) \in Seq(ReportSent)
  BY <1>1
<1>3. Head(ipc[m]).sid \in Sid /\ Head(ipc[m]).at \in At
  BY <1>2 DEF ReportSent
<1>4. NotedFloor(disk[m], Head(ipc[m]).sid, Head(ipc[m]).at) \in Remembered
  BY <1>1, <1>3, NotedFloorType DEF RestOK
<1>5. RestOK'
  BY <1>1, <1>2, <1>4 DEF MainNotes, RestOK
<1> QED BY <1>1, <1>5, QuietStep

\* The application ends and starts again.
LEMMA RestartStep == \A m \in Install : Inv /\ Restart(m) => StepOK
<1> SUFFICES ASSUME NEW m \in Install, Inv, Restart(m) PROVE StepOK
  OBVIOUS
<1>1. RestOK /\ core' = [core EXCEPT ![m] = NoCore] /\ net' = net
  BY InvFacts DEF Restart
<1>2. disk[m] \in Remembered /\ <<>> \in Seq(ReportSent)
  BY <1>1 DEF RestOK
<1>3. RestOK'
  BY <1>1, <1>2, BlankTypes DEF Restart, RestOK, NoCall
<1> QED BY <1>1, <1>3, CoreGone DEF StepOK

\* A member is gone, and its admission with it.
LEMMA MemberGoneStep ==
    \A m \in Install, t \in Member : Inv /\ MemberGone(m, t) => StepOK
<1> SUFFICES ASSUME NEW m \in Install, NEW t \in Member, Inv, MemberGone(m, t)
             PROVE  StepOK
  OBVIOUS
<1> DEFINE d == [core[m] EXCEPT !.admitted = core[m].admitted \ {t}]
<1>1. /\ RestOK /\ core[m] \in Core /\ GoodCore(core[m], net)
      /\ core' = [core EXCEPT ![m] = d] /\ net' = net
  BY InvFacts DEF MemberGone
<1>2. /\ d \in Core /\ d.sid = core[m].sid /\ d.isHost = core[m].isHost
      /\ d.admitted = core[m].admitted \ {t} /\ d.evicted = core[m].evicted
      /\ d.admitAt = core[m].admitAt
  <2>1. core[m].admitted \ {t} \in SUBSET Member
    BY <1>1 DEF Core
  <2>2. d \in Core
    BY <1>1, <2>1, CoreExcept
  <2> QED BY <1>1, <2>2 DEF Core
<1> HIDE DEF d
<1>3. GoodCore(d, net)
  BY <1>1, <1>2 DEF GoodCore
<1>4. CoresStep
  BY <1>1, <1>2, <1>3, OneCoreChanged
<1>5. RestOK'
  BY <1>1 DEF MemberGone, RestOK
<1> QED BY <1>4, <1>5 DEF StepOK

\* A genesis arrives and pins the host.
LEMMA OnGenesisStep ==
    \A m \in Install, g \in net : Inv /\ OnGenesis(m, g) => StepOK
<1> SUFFICES ASSUME NEW m \in Install, NEW g \in net, Inv, OnGenesis(m, g)
             PROVE  StepOK
  OBVIOUS
<1> DEFINE e == Ensured(m, g.sid)
           d == [e EXCEPT !.pinned = TRUE]
<1>1. RestOK /\ core' = [core EXCEPT ![m] = d] /\ net' = net
  BY InvFacts DEF OnGenesis
<1>2. g.sid \in Sid
  BY <1>1 DEF OnGenesis, RestOK, Grant, Genesis
<1>3. /\ GoodCore(e, net) /\ e.sid = g.sid
      /\ core[m].evicted \subseteq e.evicted \/ g.sid # core[m].sid
  BY <1>2, EnsuredIsGood
<1> HIDE DEF e
<1>4. SameAdmission(d, e)
  BY <1>3, OtherFields DEF GoodCore
<1> HIDE DEF d
<1>5. GoodCore(d, net)
  BY <1>3, <1>4, SameIsGood DEF GoodCore
<1>6. core[m].evicted \subseteq d.evicted \/ Created(m)
  <2>1. core'[m] = d
    BY <1>1, InvFacts
  <2> QED BY <1>2, <1>3, <1>4, <2>1 DEF Created, SameAdmission, Sid
<1>7. CoresStep
  BY <1>1, <1>5, <1>6, OneCoreChanged
<1>8. RestOK'
  BY <1>1 DEF OnGenesis, RestOK
<1> QED BY <1>7, <1>8 DEF StepOK

\* A grant that arrives is one of the host's; so is what the core does with it.
LEMMA GrantType ==
    ASSUME RestOK, NEW g \in net, g.kind \in {"admit", "evict"}
    PROVE  g \in Grant
BY DEF RestOK, Grant, Genesis

\* An admit arrives and is applied: it is its own authority.
LEMMA OnAdmitStep == \A m \in Install, g \in net : Inv /\ OnAdmit(m, g) => StepOK
<1> SUFFICES ASSUME NEW m \in Install, NEW g \in net, Inv, OnAdmit(m, g)
             PROVE  StepOK
  OBVIOUS
<1> DEFINE e == Ensured(m, g.sid)
           d == Admitting(e, g.who, g.at)
<1>1. RestOK /\ core \in [Install -> Core] /\ g \in Grant /\ g.kind = "admit"
  BY InvFacts, GrantType DEF OnAdmit
<1>2. /\ g.sid \in Sid /\ g.who \in Member /\ g.at \in At
      /\ g = AdmitGrant(g.sid, g.who, g.at)
  BY <1>1 DEF Grant, AdmitGrant
<1>3. /\ GoodCore(e, net) /\ e.sid = g.sid
      /\ core[m].evicted \subseteq e.evicted \/ g.sid # core[m].sid
  BY <1>2, EnsuredIsGood
<1>4. /\ g.who \notin e.evicted
      /\ Report(m, e, d) /\ Learnt(m, g.sid, g.at)
      /\ UNCHANGED <<disk, call, net, minted, issued, gone, bar>>
  BY DEF OnAdmit, CanAdmit
<1> HIDE DEF e
<1>5. /\ d \in Core /\ d.sid = g.sid /\ d.isHost = e.isHost
      /\ d.admitted = e.admitted \cup {g.who} /\ d.evicted = e.evicted
      /\ d.admitAt = [e.admitAt EXCEPT ![g.who] = g.at]
  BY <1>2, <1>3, AdmittingEffect DEF GoodCore
<1> HIDE DEF d
<1>6. GoodCore(d, net)
  <2>1. ASSUME NEW t \in d.admitted
        PROVE  AdmitGrant(d.sid, t, d.admitAt[t]) \in net
    <3>1. e.admitAt \in [Member -> 0..MaxAt] /\ t \in Member
      BY <1>3, <1>5 DEF GoodCore, Core
    <3>2. CASE t = g.who
      BY <1>2, <1>5, <3>1, <3>2
    <3>3. CASE t # g.who
      BY <1>3, <1>5, <3>1, <3>3 DEF GoodCore
    <3> QED BY <3>2, <3>3
  <2>2. d.admitted \cap d.evicted = {} /\ (d.isHost => d.sid # 0)
    BY <1>3, <1>4, <1>5 DEF GoodCore
  <2> QED BY <1>5, <2>1, <2>2 DEF GoodCore
<1>7. core' = [core EXCEPT ![m] = d]
  BY <1>4 DEF Report
<1>8. core[m].evicted \subseteq d.evicted \/ Created(m)
  <2>1. core'[m] = d
    BY <1>1, <1>7
  <2> QED BY <1>2, <1>3, <1>5, <2>1 DEF Created, Sid
<1>9. CoresStep
  BY <1>4, <1>6, <1>7, <1>8, OneCoreChanged
<1>10. room' \in [Install -> Remembered] /\ ipc' \in [Install -> Seq(ReportSent)]
  BY <1>1, <1>2, <1>3, <1>4, <1>5, ReportRest DEF GoodCore
<1>11. top' \in [Install -> [Sid -> 0..MaxAt]]
  BY <1>1, <1>2, <1>4, LearntType, BoundAssumption DEF At
<1>12. RestOK'
  BY <1>1, <1>4, <1>10, <1>11 DEF RestOK
<1> QED BY <1>9, <1>12 DEF StepOK

\* An admit arrives and is refused; a passive core may have been made.
LEMMA OnAdmitRefusedStep ==
    \A m \in Install, g \in net : Inv /\ OnAdmitRefused(m, g) => StepOK
<1> SUFFICES ASSUME NEW m \in Install, NEW g \in net, Inv, OnAdmitRefused(m, g)
             PROVE  StepOK
  OBVIOUS
<1> DEFINE e == Ensured(m, g.sid)
<1>1. /\ RestOK /\ core \in [Install -> Core] /\ g.kind = "admit"
      /\ core' = [core EXCEPT ![m] = e] /\ net' = net /\ core[m].sid # g.sid
  BY InvFacts DEF OnAdmitRefused
<1>2. g.sid \in Sid
  BY <1>1, GrantType DEF Grant
<1>3. GoodCore(e, net) /\ e.sid = g.sid
  BY <1>2, EnsuredIsGood
<1> HIDE DEF e
<1>4. Created(m)
  BY <1>1, <1>2, <1>3 DEF Created, Sid
<1>5. CoresStep
  BY <1>1, <1>3, <1>4, OneCoreChanged
<1>6. RestOK'
  BY <1>1 DEF OnAdmitRefused, RestOK
<1> QED BY <1>5, <1>6 DEF StepOK

\* An evict arrives and is applied.
LEMMA OnEvictStep == \A m \in Install, g \in net : Inv /\ OnEvict(m, g) => StepOK
<1> SUFFICES ASSUME NEW m \in Install, NEW g \in net, Inv, OnEvict(m, g)
             PROVE  StepOK
  OBVIOUS
<1> DEFINE d1 == Evicting(core[m], g.who, g.at)
           on == d1.active /\ g.who # m
           d2 == [d1 EXCEPT !.active = on]
<1>1. /\ RestOK /\ core[m] \in Core /\ GoodCore(core[m], net)
      /\ g \in Grant
  BY InvFacts, GrantType DEF OnEvict
<1>2. g.sid \in Sid /\ g.who \in Member /\ g.at \in At
  BY <1>1 DEF Grant
<1>3. /\ core[m].sid = g.sid /\ Report(m, core[m], d2) /\ Learnt(m, g.sid, g.at)
      /\ UNCHANGED <<disk, call, net, minted, issued, gone, bar>>
  BY DEF OnEvict, CanEvict
<1>4. /\ d1 \in Core /\ GoodCore(d1, net) /\ d1.sid = g.sid
      /\ core[m].evicted \subseteq d1.evicted
  BY <1>1, <1>2, <1>3, EvictingIsGood, EvictingEffect
<1> HIDE DEF d1
<1>5. on \in BOOLEAN
  OBVIOUS
<1> HIDE DEF on
<1>6. SameAdmission(d2, d1)
  BY <1>4, <1>5, OtherFields
<1> HIDE DEF d2
<1>7. /\ GoodCore(d2, net) /\ d2 \in Core /\ d2.sid = g.sid
      /\ core[m].evicted \subseteq d2.evicted
  BY <1>4, <1>6, SameIsGood DEF SameAdmission
<1>8. CoresStep
  BY <1>3, <1>7, OneCoreChanged DEF Report
<1>9. room' \in [Install -> Remembered] /\ ipc' \in [Install -> Seq(ReportSent)]
  BY <1>1, <1>2, <1>3, <1>7, ReportRest
<1>10. top' \in [Install -> [Sid -> 0..MaxAt]]
  BY <1>1, <1>2, <1>3, LearntType, BoundAssumption DEF At
<1>11. RestOK'
  BY <1>1, <1>3, <1>9, <1>10 DEF RestOK
<1> QED BY <1>8, <1>11 DEF StepOK

\* Stuttering.
LEMMA UnchangedStep == Inv /\ UNCHANGED vars => StepOK
BY InvFacts, QuietStep DEF vars, RestOK

-----------------------------------------------------------------------------
(* The invariant, and what follows from it *)

\* Nobody is admitted anywhere at the start.
LEMMA InvInit == Init => Inv
<1> SUFFICES ASSUME Init PROVE Inv
  OBVIOUS
<1>1. \A m \in Install : core[m] = NoCore
  BY DEF Init
<1>2. core \in [Install -> Core] /\ \A m \in Install : GoodCore(core[m], net)
  BY <1>1, NoCoreIsGood DEF Init, GoodCore
<1>3. RestOK
  <2>1. room \in [Install -> Remembered] /\ disk \in [Install -> Remembered]
    BY BlankTypes DEF Init
  <2>2. ipc \in [Install -> Seq(ReportSent)]
    BY DEF Init
  <2>3. call \in [Install -> CallType]
    BY BlankTypes DEF Init, NoCall
  <2>4. top \in [Install -> [Sid -> 0..MaxAt]]
    BY BoundAssumption DEF Init
  <2> QED BY <2>1, <2>2, <2>3, <2>4, BoundAssumption DEF Init, RestOK
<1> QED BY <1>2, <1>3, TypeSplit DEF Inv

\* Every step, action by action.
LEMMA StepIsOK == Inv /\ [Next]_vars => StepOK
<1> SUFFICES ASSUME Inv, [Next]_vars PROVE StepOK
  OBVIOUS
<1>1. CASE HostNext
  BY <1>1, HostOpenStep, HostConnectedStep, InviteStep, EvictStep, EvictRepliedStep,
     RemintStep DEF HostNext
<1>2. ASSUME NEW m \in Install, MemberNext(m) PROVE StepOK
  BY <1>2, JoinerOpenStep, JoinerConnectedStep, DialFailsStep, StartRepliedStep,
     StopStep, HelperLostStep, MainNotesStep, RestartStep, MemberGoneStep
     DEF MemberNext
<1>3. ASSUME NEW m \in Install, NEW g \in net, Gossip(m, g) PROVE StepOK
  BY <1>3, OnGenesisStep, OnAdmitStep, OnAdmitRefusedStep, OnEvictStep DEF Gossip
<1>4. CASE UNCHANGED vars
  BY <1>4, UnchangedStep
<1> QED BY <1>1, <1>2, <1>3, <1>4 DEF Next

\* The invariant is inductive.
LEMMA InvStep == Inv /\ [Next]_vars => Inv'
<1> SUFFICES ASSUME Inv, [Next]_vars PROVE Inv'
  OBVIOUS
<1>1. RestOK' /\ core' \in [Install -> Core]
  BY StepIsOK DEF StepOK, CoresStep
<1>2. TypeOK'
  BY <1>1 DEF TypeOK, RestOK, CallType, ReportSent
<1>3. \A m \in Install : GoodCore(core'[m], net')
  BY StepIsOK DEF StepOK, CoresStep
<1> QED BY <1>2, <1>3 DEF Inv, GoodCore

\* In every reachable state the admissions of every core are in order.
THEOREM InvCorrect == Spec => []Inv
<1> QED BY InvInit, InvStep, PTL DEF Spec

\* The state is of the types the model declares.
THEOREM TypeCorrect == Spec => []TypeOK
<1>1. Inv => TypeOK
  BY DEF Inv
<1> QED BY <1>1, InvCorrect, PTL

\* At every install, in every reachable state, each admitted member is admitted
\* by a grant the host signed for the very session the core is of, and its floor
\* is that grant's clock value.
THEOREM AuthorisedCorrect == Spec => []Authorised
<1>1. Inv => Authorised
  BY DEF Inv, Authorised, GoodCore, AdmitGrant, Core
<1> QED BY <1>1, InvCorrect, PTL

\* No grant, of whatever age and in whatever order, brings an evicted member
\* back into a core that lives on.
THEOREM EvictionTerminalCorrect == Spec => EvictionTerminal
<1> DEFINE Kept == \A m \in Install : \A t \in core[m].evicted :
                       Created(m) \/ t \notin core'[m].admitted
<1>1. Inv /\ [Next]_vars => Kept
  <2> SUFFICES ASSUME Inv, [Next]_vars, NEW m \in Install, NEW t \in core[m].evicted,
                      ~Created(m)
               PROVE  t \notin core'[m].admitted
    OBVIOUS
  <2>1. GoodCore(core'[m], net') /\ Advances(m)
    BY StepIsOK DEF StepOK, CoresStep
  <2> QED BY <2>1 DEF GoodCore, Advances
<1>2. Inv /\ [Next]_vars => [Kept]_vars
  BY <1>1
<1> QED BY <1>2, InvCorrect, PTL DEF Spec, EvictionTerminal
=============================================================================
