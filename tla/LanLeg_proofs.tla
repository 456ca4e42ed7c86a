---------------------------- MODULE LanLeg_proofs ----------------------------
(***************************************************************************)
(* Proofs about LanLeg: who may be connected to, and what a failing leg    *)
(* costs, for any budget, any gossip and any behaviour of the browser.     *)
(*                                                                         *)
(* All of it is about one end at a time: Good says what every end is like, *)
(* one lemma per operation says that it keeps an end good, and the steps   *)
(* only put the lemmas together.                                           *)
(***************************************************************************)
EXTENDS LanLeg, TLAPS

\* The connections that the budget has paid for are those that failed and the
\* one there is.
Spent(e) == IF HasLeg(e) THEN e.fails + 1 ELSE e.fails

\* An end as every step leaves it.
Good(e) ==
    /\ e \in Side
    /\ e.tries = Spent(e) /\ e.tries <= e.made
    /\ e.terminal <=> e.fails >= MaxRebuilds
    /\ HasLeg(e) => e.active /\ e.admitted /\ ~e.terminal
    /\ ~HasLeg(e) => e.leg = NoPc

\* Every retry obeyed in this membership is below the floor.
Inv ==
    /\ TypeOK
    /\ \A m \in End : Good(side[m])
    /\ \A m \in End : \A r \in obeyed[m] : r <= side[m].floor

\* What neither gossip nor the browser may do to an end e that becomes d.
Steady(e, d) ==
    /\ e.terminal => d.terminal
    /\ e.leg.conn = "connected" => d.leg.id = e.leg.id
    /\ d.floor = e.floor

-----------------------------------------------------------------------------
(* The operations on an end *)

\* No connection is a value of the type.
LEMMA NoPcFacts == NoPc \in Pc /\ NoPc.id = 0 /\ NoPc.remote = 0 /\ ~NoPc.offered
  BY ParameterAssumption DEF NoPc, Pc

\* dropPeer leaves everything but the connection.
LEMMA DroppedFacts ==
    ASSUME NEW e, e \in Side
    PROVE  /\ Dropped(e) \in Side /\ ~HasLeg(Dropped(e)) /\ Dropped(e).leg = NoPc
           /\ Dropped(e).made = e.made /\ Dropped(e).fails = e.fails
           /\ Dropped(e).terminal = e.terminal /\ Dropped(e).tries = e.tries
           /\ Dropped(e).active = e.active /\ Dropped(e).admitted = e.admitted
           /\ Dropped(e).floor = e.floor
  BY NoPcFacts DEF Dropped, Side, HasLeg

\* Forgetting restores the whole budget of an end without a connection.
LEMMA ForgottenFacts ==
    ASSUME NEW e, e \in Side, e.leg = NoPc
    PROVE  /\ Good(Forgotten(e)) /\ ~HasLeg(Forgotten(e)) /\ Forgotten(e).made = e.made
           /\ Forgotten(e).floor = e.floor
           /\ Forgotten(e).active = e.active /\ Forgotten(e).admitted = e.admitted
  <1> DEFINE a == [e EXCEPT !.fails = 0]
             b == [a EXCEPT !.terminal = FALSE]
             c == [b EXCEPT !.tries = 0]
  <1>1. /\ a \in Side /\ a.fails = 0 /\ a.leg = NoPc /\ a.made = e.made
        /\ a.active = e.active /\ a.admitted = e.admitted /\ a.floor = e.floor
    BY ParameterAssumption DEF Side
  <1> HIDE DEF a
  <1>2. /\ b \in Side /\ b.fails = 0 /\ ~b.terminal /\ b.leg = NoPc /\ b.made = e.made
        /\ b.active = e.active /\ b.admitted = e.admitted /\ b.floor = e.floor
    BY <1>1 DEF Side
  <1> HIDE DEF b
  <1>3. /\ c \in Side /\ c.fails = 0 /\ ~c.terminal /\ c.tries = 0 /\ c.leg = NoPc
        /\ c.made = e.made /\ c.active = e.active /\ c.admitted = e.admitted /\ c.floor = e.floor
    BY <1>2, ParameterAssumption DEF Side
  <1>4. Forgotten(e) = c
    BY DEF Forgotten, a, b, c
  <1> HIDE DEF c
  <1>5. c.made \in Nat
    BY <1>3, ParameterAssumption DEF Side
  <1> QED
    BY <1>3, <1>4, <1>5, NoPcFacts, ParameterAssumption DEF Good, Spent, HasLeg

\* ensurePeer keeps an end good that has a session, if the bound allows it.
LEMMA EnsuredFacts ==
    ASSUME NEW e, Good(e), e.active, Ensured(e).made <= MaxMade
    PROVE  /\ Good(Ensured(e))
           /\ Ensured(e).active /\ Ensured(e).admitted = e.admitted
           /\ Steady(e, Ensured(e))
  <1>1. CASE HasLeg(e) \/ e.terminal \/ ~e.admitted
    BY <1>1 DEF Ensured, Steady
  <1>2. CASE ~(HasLeg(e) \/ e.terminal \/ ~e.admitted)
    <2> DEFINE n == e.made + 1
               k == e.tries + 1
               p == [NoPc EXCEPT !.id = n, !.need = TRUE]
               a == [e EXCEPT !.leg = p]
               b == [a EXCEPT !.made = n]
               c == [b EXCEPT !.tries = k]
    <2>2. /\ e \in Side /\ e.made \in Nat /\ e.tries \in Nat /\ e.fails \in Nat
          /\ e.tries = e.fails /\ e.tries <= e.made /\ e.fails < MaxRebuilds
      BY <1>2, ParameterAssumption DEF Good, Spent, Side
    <2>1. Ensured(e) = c
      BY <1>2, <2>2 DEF Ensured, Side
    <2>3. c.made = n
      BY <2>2 DEF Side
    <2>4. n \in 0..MaxMade /\ n # 0 /\ k \in 0..MaxMade /\ k = e.fails + 1 /\ k <= n
      BY <2>1, <2>2, <2>3, ParameterAssumption
    <2> HIDE DEF n, k
    <2>5. p \in Pc /\ p.id = n
      <3> DEFINE q == [NoPc EXCEPT !.id = n]
      <3>1. q \in Pc /\ q.id = n
        BY <2>4, NoPcFacts DEF Pc
      <3>2. p = [q EXCEPT !.need = TRUE]
        BY NoPcFacts DEF Pc
      <3> HIDE DEF q
      <3> QED
        BY <3>1, <3>2 DEF Pc
    <2> HIDE DEF p
    <2>6. /\ a \in Side /\ a.leg = p /\ a.made = e.made /\ a.tries = e.tries
          /\ a.fails = e.fails /\ a.active = e.active /\ a.admitted = e.admitted
          /\ a.terminal = e.terminal /\ a.floor = e.floor
      BY <2>2, <2>5 DEF Side
    <2> HIDE DEF a
    <2>7. /\ b \in Side /\ b.leg = p /\ b.made = n /\ b.tries = e.tries
          /\ b.fails = e.fails /\ b.active = e.active /\ b.admitted = e.admitted
          /\ b.terminal = e.terminal /\ b.floor = e.floor
      BY <2>4, <2>6 DEF Side
    <2> HIDE DEF b
    <2>9. /\ c \in Side /\ c.leg = p /\ c.made = n /\ c.tries = k
          /\ c.fails = e.fails /\ c.active = e.active /\ c.admitted = e.admitted
          /\ c.terminal = e.terminal /\ c.floor = e.floor
      BY <2>4, <2>7 DEF Side
    <2> HIDE DEF c
    <2>10. HasLeg(c)
      BY <2>4, <2>5, <2>9 DEF HasLeg
    <2>11. Steady(e, c)
      <3>1. e.leg.conn # "connected"
        BY <1>2 DEF Good, NoPc
      <3> QED
        BY <1>2, <2>9, <3>1 DEF Steady
    <2> QED
      BY <1>2, <2>1, <2>2, <2>4, <2>9, <2>10, <2>11, ParameterAssumption DEF Good, Spent
  <1> QED
    BY <1>1, <1>2

\* An update of the connection that keeps its number changes nothing else.
LEMMA LegFacts ==
    ASSUME NEW e, Good(e), HasLeg(e), NEW p \in Pc, p.id = e.leg.id
    PROVE  /\ Good([e EXCEPT !.leg = p]) /\ HasLeg([e EXCEPT !.leg = p])
           /\ Steady(e, [e EXCEPT !.leg = p]) /\ [e EXCEPT !.leg = p].made = e.made
  <1> DEFINE a == [e EXCEPT !.leg = p]
  <1>1. /\ a \in Side /\ a.leg = p /\ a.made = e.made /\ a.tries = e.tries
        /\ a.fails = e.fails /\ a.active = e.active /\ a.admitted = e.admitted
        /\ a.terminal = e.terminal /\ a.floor = e.floor
    BY DEF Good, Side
  <1> HIDE DEF a
  <1>2. HasLeg(a)
    BY <1>1 DEF HasLeg
  <1>3. Good(a) /\ Steady(e, a)
    BY <1>1, <1>2 DEF Good, Spent, Steady
  <1> QED
    BY <1>1, <1>2, <1>3 DEF a

\* onPeerFailed pays for the connection, and for the next one if it can.
LEMMA FailedFacts ==
    ASSUME NEW e, Good(e), HasLeg(e), e.leg.conn # "connected", Failed(e).made <= MaxMade
    PROVE  Good(Failed(e)) /\ Steady(e, Failed(e))
  <1> DEFINE d == Dropped(e)
             f == [d EXCEPT !.fails = @ + 1]
             g == [f EXCEPT !.terminal = TRUE]
  <1>1. /\ e \in Side /\ e.active /\ e.admitted /\ ~e.terminal
        /\ e.fails \in Nat /\ e.fails < MaxRebuilds /\ e.tries = e.fails + 1
        /\ e.tries <= e.made /\ e.made \in Nat
    BY ParameterAssumption DEF Good, Spent, Side
  <1>2. /\ d \in Side /\ d.leg = NoPc /\ d.made = e.made /\ d.fails = e.fails
        /\ d.terminal = e.terminal /\ d.tries = e.tries
        /\ d.active = e.active /\ d.admitted = e.admitted /\ d.floor = e.floor
    BY <1>1, DroppedFacts
  <1>3. Failed(e) = IF f.admitted /\ f.fails >= MaxRebuilds THEN g ELSE Ensured(f)
    BY DEF Failed
  <1> HIDE DEF d
  <1>4. e.fails + 1 \in 0..MaxRebuilds
    BY <1>1, ParameterAssumption
  <1>5. /\ f \in Side /\ f.leg = NoPc /\ f.made = e.made /\ f.fails = e.fails + 1
        /\ ~f.terminal /\ f.tries = e.fails + 1 /\ f.active /\ f.admitted
        /\ f.floor = e.floor
    BY <1>1, <1>2, <1>4 DEF Side
  <1> HIDE DEF f
  <1>6. /\ g \in Side /\ g.leg = NoPc /\ g.made = e.made /\ g.fails = e.fails + 1
        /\ g.terminal /\ g.tries = e.fails + 1 /\ g.floor = e.floor
    BY <1>5 DEF Side
  <1> HIDE DEF g
  <1>7. CASE f.fails >= MaxRebuilds
    BY <1>1, <1>3, <1>5, <1>6, <1>7, NoPcFacts DEF Good, Spent, HasLeg, Steady
  <1>8. CASE ~(f.fails >= MaxRebuilds)
    <2>1. Good(f)
      BY <1>1, <1>5, <1>8, NoPcFacts DEF Good, Spent, HasLeg
    <2>2. Failed(e) = Ensured(f)
      BY <1>3, <1>8
    <2> QED
      BY <1>1, <1>5, <2>1, <2>2, EnsuredFacts DEF Steady
  <1> QED
    BY <1>7, <1>8

\* The flags that the budget does not look at.
LEMMA FlagFacts ==
    ASSUME NEW e, Good(e), NEW d \in Side,
           d.leg = e.leg, d.made = e.made, d.fails = e.fails, d.tries = e.tries,
           d.terminal = e.terminal, HasLeg(e) => d.active /\ d.admitted
    PROVE  Good(d) /\ (d.floor = e.floor => Steady(e, d))
  BY DEF Good, Spent, HasLeg, Steady

\* A session that starts, and an admission.
LEMMA JoinedFacts ==
    ASSUME NEW e, Good(e)
    PROVE  /\ Good([e EXCEPT !.active = TRUE]) /\ [e EXCEPT !.active = TRUE].active
           /\ Steady(e, [e EXCEPT !.active = TRUE])
           /\ Good([e EXCEPT !.admitted = TRUE]) /\ Steady(e, [e EXCEPT !.admitted = TRUE])
           /\ [e EXCEPT !.admitted = TRUE].active = e.active
           /\ [e EXCEPT !.active = TRUE].floor = e.floor
           /\ [e EXCEPT !.admitted = TRUE].floor = e.floor
  <1> DEFINE a == [e EXCEPT !.active = TRUE]
             b == [e EXCEPT !.admitted = TRUE]
  <1>1. /\ e \in Side /\ a \in Side /\ a.leg = e.leg /\ a.made = e.made /\ a.fails = e.fails
        /\ a.tries = e.tries /\ a.terminal = e.terminal /\ a.active /\ a.floor = e.floor
        /\ a.admitted = e.admitted
    BY DEF Good, Side
  <1>2. /\ b \in Side /\ b.leg = e.leg /\ b.made = e.made /\ b.fails = e.fails
        /\ b.tries = e.tries /\ b.terminal = e.terminal /\ b.admitted /\ b.floor = e.floor
        /\ b.active = e.active
    BY DEF Good, Side
  <1> HIDE DEF a, b
  <1>3. HasLeg(e) => e.active /\ e.admitted
    BY DEF Good
  <1>4. Good(a) /\ Steady(e, a)
    BY <1>1, <1>3, FlagFacts
  <1>5. Good(b) /\ Steady(e, b)
    BY <1>2, <1>3, FlagFacts
  <1> QED
    BY <1>1, <1>2, <1>4, <1>5 DEF a, b

\* The time since the last retry.
LEMMA CoolFacts ==
    ASSUME NEW e, Good(e), NEW c \in BOOLEAN
    PROVE  /\ Good([e EXCEPT !.cool = c]) /\ Steady(e, [e EXCEPT !.cool = c])
           /\ [e EXCEPT !.cool = c].active = e.active
           /\ [e EXCEPT !.cool = c].admitted = e.admitted
  <1> DEFINE a == [e EXCEPT !.cool = c]
  <1>1. /\ a \in Side /\ a.leg = e.leg /\ a.made = e.made /\ a.fails = e.fails
        /\ a.tries = e.tries /\ a.terminal = e.terminal /\ a.floor = e.floor
        /\ a.active = e.active /\ a.admitted = e.admitted
    BY DEF Good, Side
  <1> HIDE DEF a
  <1>2. HasLeg(e) => e.active /\ e.admitted
    BY DEF Good
  <1>3. Good(a) /\ Steady(e, a)
    BY <1>1, <1>2, FlagFacts
  <1> QED
    BY <1>1, <1>3 DEF a

\* A steady step after a steady step is one.
LEMMA SteadyTransitive ==
    ASSUME NEW e, NEW d, NEW f, Steady(e, d), Steady(d, f), Good(e), Good(d),
           d.leg = e.leg
    PROVE  Steady(e, f)
  BY DEF Steady

\* Both orders in which a retry clears an end.
LEMMA ClearedFacts ==
    ASSUME NEW e, e \in Side
    PROVE  /\ Good(Forgotten(Dropped(e))) /\ ~HasLeg(Forgotten(Dropped(e)))
           /\ Forgotten(Dropped(e)).active = e.active
           /\ Forgotten(Dropped(e)).admitted = e.admitted
           /\ Forgotten(Dropped(e)).floor = e.floor
           /\ Dropped(Forgotten(e)) = Forgotten(Dropped(e))
  <1>1. /\ Dropped(e) \in Side /\ Dropped(e).leg = NoPc
        /\ Dropped(e).active = e.active /\ Dropped(e).admitted = e.admitted
        /\ Dropped(e).floor = e.floor
    BY DroppedFacts
  <1>2. Dropped(Forgotten(e)) = Forgotten(Dropped(e))
    BY DEF Dropped, Forgotten, Side
  <1> QED
    BY <1>1, <1>2, ForgottenFacts

\* What an end without a connection forgets on top of that.
LEMMA GoneFacts ==
    ASSUME NEW e, Good(e), ~HasLeg(e)
    PROVE  /\ Good([e EXCEPT !.active = FALSE, !.cool = FALSE, !.floor = 0])
           /\ ~[e EXCEPT !.active = FALSE, !.cool = FALSE, !.floor = 0].active
           /\ Good([e EXCEPT !.admitted = FALSE, !.cool = FALSE, !.floor = 0])
           /\ ~[e EXCEPT !.admitted = FALSE, !.cool = FALSE, !.floor = 0].admitted
           /\ Good([e EXCEPT !.admitted = FALSE, !.barred = FALSE])
           /\ ~[e EXCEPT !.admitted = FALSE, !.barred = FALSE].admitted
  <1> DEFINE a == [e EXCEPT !.active = FALSE, !.cool = FALSE, !.floor = 0]
             b == [e EXCEPT !.admitted = FALSE, !.cool = FALSE, !.floor = 0]
             c == [e EXCEPT !.admitted = FALSE, !.barred = FALSE]
  <1>0. e \in Side /\ FALSE \in BOOLEAN /\ 0 \in 0..MaxRetries
    BY ParameterAssumption DEF Good
  <1>1. /\ a \in Side /\ a.leg = e.leg /\ a.made = e.made /\ a.fails = e.fails
        /\ a.tries = e.tries /\ a.terminal = e.terminal
    BY <1>0 DEF Side
  <1>2. /\ b \in Side /\ b.leg = e.leg /\ b.made = e.made /\ b.fails = e.fails
        /\ b.tries = e.tries /\ b.terminal = e.terminal
    BY <1>0 DEF Side
  <1>3. /\ c \in Side /\ c.leg = e.leg /\ c.made = e.made /\ c.fails = e.fails
        /\ c.tries = e.tries /\ c.terminal = e.terminal
    BY <1>0 DEF Side
  <1>4. ~a.active /\ ~b.admitted /\ ~c.admitted
    BY <1>0 DEF Side
  <1> HIDE DEF a, b, c
  <1>5. Good(a) /\ Good(b) /\ Good(c)
    BY <1>1, <1>2, <1>3, FlagFacts
  <1> QED
    BY <1>4, <1>5 DEF a, b, c

-----------------------------------------------------------------------------
(* The steps *)

\* What a step of m's may come to: gossip or the browser leaves the end steady,
\* the session or the membership ends, a retry is sent, or one is obeyed.
Outcome(m, e) ==
    /\ Good(e) /\ side' = [side EXCEPT ![m] = e]
    /\ net' \subseteq Signal /\ announced' \in [End -> BOOLEAN]
    /\ \/ Steady(side[m], e) /\ sent' = sent /\ obeyed' = obeyed
       \/ /\ ~e.active \/ ~e.admitted
          /\ sent' = sent
          /\ \/ obeyed' = [obeyed EXCEPT ![m] = {}]
             \/ obeyed' = obeyed /\ e.floor = side[m].floor
       \/ /\ ~HasLeg(side[m]) /\ e.floor = side[m].floor
          /\ sent[m] < MaxRetries /\ sent' = [sent EXCEPT ![m] = @ + 1]
          /\ obeyed' = obeyed
       \/ \E r \in 1..MaxRetries :
             /\ r > side[m].floor /\ e.floor = r
             /\ sent' = sent /\ obeyed' = [obeyed EXCEPT ![m] = @ \cup {r}]

Settles(m) == \E e : Outcome(m, e)

\* The other end is one, and what is posted to it is a signal.
LEMMA PostFacts ==
    ASSUME NEW m \in End, NEW id
    PROVE  /\ id \in 1..MaxMade => /\ Post(m, "offer", id) \in Signal
                                   /\ Post(m, "answer", id) \in Signal
           /\ id \in 1..MaxRetries => Post(m, "retry", id) \in Signal
  <1>1. \E o \in End : o # m
    BY ParameterAssumption
  <1>2. Other(m) \in End
    BY <1>1 DEF Other
  <1> QED
    BY <1>2 DEF Post, Signal

LEMMA StartStep == ASSUME Inv, NEW m \in End, Start(m) PROVE Settles(m)
  <1> DEFINE s == side[m]
             a == [s EXCEPT !.active = TRUE]
             e == Ensured(a)
  <1>1. Good(s)
    BY DEF Inv
  <1>2. /\ e.made <= MaxMade /\ side' = [side EXCEPT ![m] = e]
        /\ net' \subseteq Signal /\ announced' \in [End -> BOOLEAN]
        /\ sent' = sent /\ obeyed' = obeyed
    BY DEF Start, Becomes, Inv, TypeOK
  <1>3. Good(a) /\ a.active /\ Steady(s, a)
    BY <1>1, JoinedFacts
  <1>4. a.leg = s.leg
    BY <1>1 DEF Good, Side
  <1> HIDE DEF a
  <1>5. Good(e) /\ Steady(a, e)
    BY <1>2, <1>3, EnsuredFacts
  <1> HIDE DEF e
  <1>6. Steady(s, e)
    BY <1>1, <1>3, <1>4, <1>5, SteadyTransitive
  <1> QED
    BY <1>2, <1>5, <1>6 DEF Settles, Outcome

LEMMA StopStep == ASSUME Inv, NEW m \in End, Stop(m) PROVE Settles(m)
  <1> DEFINE s == side[m]
             d == Forgotten(Dropped(s))
             h == Halted(s)
             g == [h EXCEPT !.admitted = FALSE, !.barred = FALSE]
  <1>1. s \in Side
    BY DEF Inv, Good
  <1>2. Good(d) /\ ~HasLeg(d)
    BY <1>1, ClearedFacts
  <1>3. Good(h) /\ ~h.active
    BY <1>2, GoneFacts DEF Halted
  <1>4. ~HasLeg(h)
    BY <1>3 DEF Good
  <1>5. Good(g) /\ ~g.admitted
    BY <1>3, <1>4, GoneFacts
  <1>6. /\ side' = [side EXCEPT ![m] = h] \/ side' = [side EXCEPT ![m] = g]
        /\ net' \subseteq Signal /\ announced' \in [End -> BOOLEAN]
        /\ sent' = sent /\ obeyed' = [obeyed EXCEPT ![m] = {}]
    BY DEF Stop, Becomes, Inv, TypeOK
  <1> HIDE DEF h, g
  <1> QED
    BY <1>3, <1>5, <1>6 DEF Settles, Outcome

LEMMA AdmitStep == ASSUME Inv, NEW m \in End, Admit(m) PROVE Settles(m)
  <1> DEFINE s == side[m]
             a == [s EXCEPT !.admitted = TRUE]
             e == IF a.active THEN Ensured(a) ELSE a
  <1>1. Good(s)
    BY DEF Inv
  <1>2. /\ e.made <= MaxMade /\ side' = [side EXCEPT ![m] = e]
        /\ net' \subseteq Signal /\ announced' \in [End -> BOOLEAN]
        /\ sent' = sent /\ obeyed' = obeyed
    BY DEF Admit, Becomes, Inv, TypeOK
  <1>3. Good(a) /\ Steady(s, a)
    BY <1>1, JoinedFacts
  <1>4. a.leg = s.leg
    BY <1>1 DEF Good, Side
  <1> HIDE DEF a
  <1>5. Good(e) /\ Steady(s, e)
    <2>1. CASE a.active
      <3>1. Good(e) /\ Steady(a, e)
        BY <1>2, <1>3, <2>1, EnsuredFacts
      <3> QED
        BY <1>1, <1>3, <1>4, <3>1, SteadyTransitive
    <2>2. CASE ~a.active
      BY <1>3, <2>2
    <2> QED
      BY <2>1, <2>2
  <1> HIDE DEF e
  <1> QED
    BY <1>2, <1>5 DEF Settles, Outcome

LEMMA EvictStep == ASSUME Inv, NEW m \in End, Evict(m) PROVE Settles(m)
  <1> DEFINE s == side[m]
             a == [s EXCEPT !.admitted = FALSE, !.barred = TRUE]
             e == Forgotten(Dropped(a))
  <1>1. s \in Side
    BY DEF Inv, Good
  <1>2. a \in Side /\ ~a.admitted /\ a.floor = s.floor
    BY <1>1 DEF Side
  <1>3. /\ side' = [side EXCEPT ![m] = e]
        /\ net' \subseteq Signal /\ announced' \in [End -> BOOLEAN]
        /\ sent' = sent /\ obeyed' = obeyed
    BY DEF Evict, Becomes, Inv, TypeOK
  <1> HIDE DEF a
  <1>4. Good(e) /\ ~e.admitted /\ e.floor = s.floor
    BY <1>2, ClearedFacts
  <1> HIDE DEF e
  <1> QED
    BY <1>3, <1>4 DEF Settles, Outcome

LEMMA GoneStep == ASSUME Inv, NEW m \in End, Gone(m) PROVE Settles(m)
  <1> DEFINE d == Forgotten(Dropped(side[m]))
             e == [d EXCEPT !.admitted = FALSE, !.cool = FALSE, !.floor = 0]
  <1>1. Good(d) /\ ~HasLeg(d)
    BY ClearedFacts DEF Inv, Good
  <1>2. /\ side' = [side EXCEPT ![m] = e]
        /\ net' \subseteq Signal /\ announced' \in [End -> BOOLEAN]
        /\ sent' = sent /\ obeyed' = [obeyed EXCEPT ![m] = {}]
    BY DEF Gone, Becomes, Inv, TypeOK
  <1>3. Good(e) /\ ~e.admitted
    BY <1>1, GoneFacts
  <1> HIDE DEF e
  <1> QED
    BY <1>2, <1>3 DEF Settles, Outcome

LEMMA PresenceStep == ASSUME Inv, NEW m \in End, Presence(m) PROVE Settles(m)
  <1> DEFINE e == Ensured(side[m])
  <1>1. Good(side[m]) /\ side[m].active
    BY DEF Inv, Presence
  <1>2. /\ e.made <= MaxMade /\ side' = [side EXCEPT ![m] = e]
        /\ net' \subseteq Signal /\ announced' \in [End -> BOOLEAN]
        /\ sent' = sent /\ obeyed' = obeyed
    BY DEF Presence, Becomes, Inv, TypeOK
  <1>3. Good(e) /\ Steady(side[m], e)
    BY <1>1, <1>2, EnsuredFacts
  <1> HIDE DEF e
  <1> QED
    BY <1>2, <1>3 DEF Settles, Outcome

\* A leg that exists has a number, which its signals carry.
LEMMA LegNumber ==
    ASSUME NEW e, Good(e), HasLeg(e)
    PROVE  e.leg \in Pc /\ e.leg.id \in 1..MaxMade
  BY ParameterAssumption DEF Good, Side, HasLeg, Pc

\* Whatever has a negotiation, a description or a connection state is a leg.
LEMMA LegBusy ==
    ASSUME NEW e, Good(e),
           \/ e.leg.need \/ e.leg.making \/ e.leg.offered
           \/ e.leg.remote # 0 \/ e.leg.conn # "new"
    PROVE  HasLeg(e)
  BY DEF Good, NoPc

LEMMA NegotiateStep == ASSUME Inv, NEW m \in End, Negotiate(m) PROVE Settles(m)
  <1> DEFINE s == side[m]
             p == [s.leg EXCEPT !.need = FALSE, !.making = TRUE]
             e == [s EXCEPT !.leg = p]
  <1>1. Good(s) /\ HasLeg(s)
    BY LegBusy DEF Inv, Negotiate
  <1>2. s.leg \in Pc
    BY <1>1, LegNumber
  <1>3. p \in Pc /\ p.id = s.leg.id
    BY <1>2 DEF Pc
  <1>4. side' = [side EXCEPT ![m] = e]
    BY <1>1 DEF Negotiate, Becomes, Good, Side
  <1>5. /\ net' \subseteq Signal /\ announced' \in [End -> BOOLEAN]
        /\ sent' = sent /\ obeyed' = obeyed
    BY DEF Negotiate, Inv, TypeOK
  <1> HIDE DEF p
  <1>6. Good(e) /\ Steady(s, e)
    BY <1>1, <1>3, LegFacts
  <1> HIDE DEF e
  <1> QED
    BY <1>4, <1>5, <1>6 DEF Settles, Outcome

LEMMA OfferStep == ASSUME Inv, NEW m \in End, Offer(m) PROVE Settles(m)
  <1> DEFINE s == side[m]
             p == [s.leg EXCEPT !.making = FALSE, !.offered = TRUE]
             e == [s EXCEPT !.leg = p]
  <1>1. Good(s) /\ HasLeg(s)
    BY LegBusy DEF Inv, Offer
  <1>2. s.leg \in Pc /\ s.leg.id \in 1..MaxMade
    BY <1>1, LegNumber
  <1>3. p \in Pc /\ p.id = s.leg.id
    BY <1>2 DEF Pc
  <1>4. side' = [side EXCEPT ![m] = e]
    BY <1>1 DEF Offer, Becomes, Good, Side
  <1>5. Post(m, "offer", s.leg.id) \in Signal
    BY <1>2, PostFacts
  <1>6. /\ net' \subseteq Signal /\ announced' \in [End -> BOOLEAN]
        /\ sent' = sent /\ obeyed' = obeyed
    BY <1>5 DEF Offer, Inv, TypeOK
  <1> HIDE DEF p
  <1>7. Good(e) /\ Steady(s, e)
    BY <1>1, <1>3, LegFacts
  <1> HIDE DEF e
  <1> QED
    BY <1>4, <1>6, <1>7 DEF Settles, Outcome

LEMMA DisconnectStep == ASSUME Inv, NEW m \in End, Disconnect(m) PROVE Settles(m)
  <1> DEFINE s == side[m]
             p == [s.leg EXCEPT !.conn = "disconnected"]
             e == [s EXCEPT !.leg = p]
  <1>1. Good(s) /\ HasLeg(s)
    BY LegBusy DEF Inv, Disconnect
  <1>2. s.leg \in Pc
    BY <1>1, LegNumber
  <1>3. p \in Pc /\ p.id = s.leg.id
    BY <1>2 DEF Pc
  <1>4. side' = [side EXCEPT ![m] = e]
    BY <1>1 DEF Disconnect, Becomes, Good, Side
  <1>5. /\ net' \subseteq Signal /\ announced' \in [End -> BOOLEAN]
        /\ sent' = sent /\ obeyed' = obeyed
    BY DEF Disconnect, Inv, TypeOK
  <1> HIDE DEF p
  <1>6. Good(e) /\ Steady(s, e)
    BY <1>1, <1>3, LegFacts
  <1> HIDE DEF e
  <1> QED
    BY <1>4, <1>5, <1>6 DEF Settles, Outcome

\* A connection that works has cost one, and the rest of the budget is back.
LEMMA ConnectStep == ASSUME Inv, NEW m \in End, Connect(m) PROVE Settles(m)
  <1> DEFINE s == side[m]
             p == [s.leg EXCEPT !.conn = "connected"]
             a == [s EXCEPT !.leg = p]
             b == [a EXCEPT !.fails = 0]
             c == [b EXCEPT !.terminal = FALSE]
             e == [c EXCEPT !.tries = 1]
  <1>1. Good(s) /\ HasLeg(s)
    BY DEF Inv, Connect, Paired, HasLeg
  <1>2. /\ s.leg \in Pc /\ s.leg.id \in 1..MaxMade /\ s \in Side /\ ~s.terminal
        /\ s.fails \in Nat /\ s.tries = s.fails + 1 /\ s.tries <= s.made /\ s.made \in Nat
        /\ 1 \in 0..MaxMade
    BY <1>1, LegNumber, ParameterAssumption DEF Good, Side, Spent
  <1>3. p \in Pc /\ p.id = s.leg.id
    BY <1>2 DEF Pc
  <1>4. side' = [side EXCEPT ![m] = e]
    BY <1>2 DEF Connect, Becomes, Side
  <1>5. /\ net' \subseteq Signal /\ announced' \in [End -> BOOLEAN]
        /\ sent' = sent /\ obeyed' = obeyed
    BY DEF Connect, Inv, TypeOK
  <1> HIDE DEF p
  <1>6. Good(a) /\ HasLeg(a) /\ Steady(s, a) /\ a.made = s.made
    BY <1>1, <1>3, LegFacts
  <1>7. /\ a \in Side /\ a.active /\ a.admitted /\ ~a.terminal /\ a.leg.id = s.leg.id
    BY <1>3, <1>6, <1>2 DEF Good, Side
  <1> HIDE DEF a
  <1>8. /\ b \in Side /\ b.leg = a.leg /\ b.made = s.made /\ b.fails = 0
        /\ b.active /\ b.admitted /\ b.floor = a.floor
    BY <1>6, <1>7, ParameterAssumption DEF Side
  <1> HIDE DEF b
  <1>9. /\ c \in Side /\ c.leg = a.leg /\ c.made = s.made /\ c.fails = 0
        /\ c.active /\ c.admitted /\ c.floor = a.floor /\ ~c.terminal
    BY <1>8 DEF Side
  <1> HIDE DEF c
  <1>10. /\ e \in Side /\ e.leg = a.leg /\ e.made = s.made /\ e.fails = 0
         /\ e.active /\ e.admitted /\ e.floor = a.floor /\ ~e.terminal /\ e.tries = 1
    BY <1>2, <1>9 DEF Side
  <1> HIDE DEF e
  <1>11. Good(e)
    BY <1>2, <1>6, <1>10, ParameterAssumption DEF Good, Spent, HasLeg
  <1>12. Steady(s, e)
    BY <1>2, <1>6, <1>7, <1>10 DEF Steady
  <1> QED
    BY <1>4, <1>5, <1>11, <1>12 DEF Settles, Outcome

LEMMA FailStep == ASSUME Inv, NEW m \in End, Fail(m) PROVE Settles(m)
  <1> DEFINE e == Failed(side[m])
  <1>1. Good(side[m]) /\ HasLeg(side[m]) /\ side[m].leg.conn # "connected"
    BY LegBusy DEF Inv, Fail
  <1>2. /\ e.made <= MaxMade /\ side' = [side EXCEPT ![m] = e]
        /\ net' \subseteq Signal /\ announced' \in [End -> BOOLEAN]
        /\ sent' = sent /\ obeyed' = obeyed
    BY DEF Fail, Becomes, Inv, TypeOK
  <1>3. Good(e) /\ Steady(side[m], e)
    BY <1>1, <1>2, FailedFacts
  <1> HIDE DEF e
  <1> QED
    BY <1>2, <1>3 DEF Settles, Outcome

\* A new description does not change how many connections there were.
LEMMA MadeFacts ==
    ASSUME NEW e, e \in Side, NEW p
    PROVE  [Ensured(e) EXCEPT !.leg = p].made = Ensured(e).made
  BY DEF Ensured, Side

\* The end that hears a signal, once ensurePeer is done with it.
LEMMA HeardFacts ==
    ASSUME Inv, NEW m \in End, NEW e,
           e = (IF Hears(m) THEN Ensured(side[m]) ELSE side[m]), e.made <= MaxMade
    PROVE  Good(e) /\ Steady(side[m], e) /\ side[m] \in Side
  <1>1. Good(side[m]) /\ side[m] \in Side
    BY DEF Inv, Good
  <1>2. CASE Hears(m)
    BY <1>1, <1>2, EnsuredFacts DEF Hears
  <1>3. CASE ~Hears(m)
    BY <1>1, <1>3 DEF Steady
  <1> QED
    BY <1>1, <1>2, <1>3

\* A description on top of it.
LEMMA DescribedFacts ==
    ASSUME NEW s, NEW e, Good(s), Good(e), Steady(s, e), HasLeg(e),
           NEW p \in Pc, p.id = e.leg.id
    PROVE  Good([e EXCEPT !.leg = p]) /\ Steady(s, [e EXCEPT !.leg = p])
  <1>1. /\ Good([e EXCEPT !.leg = p]) /\ Steady(e, [e EXCEPT !.leg = p])
        /\ [e EXCEPT !.leg = p].leg.id = e.leg.id
    <2>1. [e EXCEPT !.leg = p].leg = p
      BY DEF Good, Side
    <2> QED
      BY <2>1, LegFacts
  <1> QED
    BY <1>1 DEF Steady

\* A step that puts one there.
LEMMA DescribedStep ==
    ASSUME Inv, NEW m \in End, NEW e, NEW p,
           e = (IF Hears(m) THEN Ensured(side[m]) ELSE side[m]), HasLeg(e),
           e.leg \in Pc => p \in Pc /\ p.id = e.leg.id,
           Becomes(m, [e EXCEPT !.leg = p]),
           announced' \in [End -> BOOLEAN], net' \subseteq Signal, sent' = sent, obeyed' = obeyed
    PROVE  Settles(m)
  <1> DEFINE d == [e EXCEPT !.leg = p]
  <1>1. d.made <= MaxMade /\ side' = [side EXCEPT ![m] = d]
    BY DEF Becomes
  <1>2. side[m] \in Side
    BY DEF Inv, Good
  <1>3. d.made = e.made
    BY <1>2, MadeFacts DEF Side
  <1>4. Good(e) /\ Steady(side[m], e) /\ e.leg \in Pc
    BY <1>1, <1>3, HeardFacts, LegNumber
  <1>5. Good(d) /\ Steady(side[m], d)
    BY <1>4, DescribedFacts DEF Inv
  <1> HIDE DEF d
  <1> QED
    BY <1>1, <1>5 DEF Settles, Outcome

\* A step that only makes sure of the leg.
LEMMA HeardStep ==
    ASSUME Inv, NEW m \in End, NEW e,
           e = (IF Hears(m) THEN Ensured(side[m]) ELSE side[m]), Becomes(m, e),
           announced' \in [End -> BOOLEAN], net' \subseteq Signal, sent' = sent, obeyed' = obeyed
    PROVE  Settles(m)
  <1>1. e.made <= MaxMade /\ side' = [side EXCEPT ![m] = e]
    BY DEF Becomes
  <1>2. Good(e) /\ Steady(side[m], e)
    BY <1>1, HeardFacts
  <1> QED
    BY <1>1, <1>2 DEF Settles, Outcome

LEMMA OnOfferStep ==
    ASSUME Inv, NEW m \in End, NEW s \in net, OnOffer(m, s)
    PROVE  Settles(m)
  <1> DEFINE e == IF Hears(m) THEN Ensured(side[m]) ELSE side[m]
             p == [e.leg EXCEPT !.setting = FALSE]
             q == [e.leg EXCEPT !.need = FALSE, !.offered = FALSE, !.setting = FALSE,
                                !.remote = s.id]
             tried == [e EXCEPT !.leg = [@ EXCEPT !.setting = FALSE]]
             taken == [e EXCEPT !.leg = [@ EXCEPT !.need = FALSE, !.offered = FALSE,
                                                  !.setting = FALSE, !.remote = s.id]]
  <1>1. announced' \in [End -> BOOLEAN] /\ sent' = sent /\ obeyed' = obeyed
    BY DEF OnOffer, Inv, TypeOK
  <1>2. s \in Signal /\ s.kind = "offer" /\ net \ {s} \subseteq Signal
    BY DEF OnOffer, Inv, TypeOK
  <1>3. s.id \in 0..MaxMade
    BY <1>2, ParameterAssumption DEF Signal
  <1>4. /\ side[m] \in Side
        /\ e.leg \in Pc => p \in Pc /\ p.id = e.leg.id /\ q \in Pc /\ q.id = e.leg.id
    BY <1>3 DEF Pc, Inv, Good
  <1>5. tried = [e EXCEPT !.leg = p] /\ taken = [e EXCEPT !.leg = q]
    BY <1>4 DEF Side, Ensured
  <1>6. \/ Becomes(m, e) /\ net' = net \ {s}
        \/ HasLeg(e) /\ Becomes(m, tried) /\ net' = net \ {s}
        \/ HasLeg(e) /\ Becomes(m, taken) /\ net' = (net \ {s}) \cup {Post(m, "answer", e.leg.id)}
    BY DEF OnOffer
  <1>7. taken.made = e.made
    BY <1>4, <1>5, MadeFacts DEF Side
  <1>8. HasLeg(e) /\ Becomes(m, taken) => Post(m, "answer", e.leg.id) \in Signal
    BY <1>7, HeardFacts, LegNumber, PostFacts DEF Becomes
  <1> HIDE DEF p, q, tried, taken, e
  <1>9. CASE Becomes(m, e) /\ net' = net \ {s}
    BY <1>1, <1>2, <1>9, HeardStep DEF e
  <1>10. CASE HasLeg(e) /\ Becomes(m, tried) /\ net' = net \ {s}
    BY <1>1, <1>2, <1>4, <1>5, <1>10, DescribedStep DEF e
  <1>11. CASE /\ HasLeg(e) /\ Becomes(m, taken)
              /\ net' = (net \ {s}) \cup {Post(m, "answer", e.leg.id)}
    <2>1. net' \subseteq Signal
      BY <1>2, <1>8, <1>11
    <2> QED
      BY <1>1, <1>4, <1>5, <1>11, <2>1, DescribedStep DEF e
  <1> QED
    BY <1>6, <1>9, <1>10, <1>11

LEMMA OnAnswerStep ==
    ASSUME Inv, NEW m \in End, NEW s \in net, OnAnswer(m, s)
    PROVE  Settles(m)
  <1> DEFINE e == IF Hears(m) THEN Ensured(side[m]) ELSE side[m]
             p == [e.leg EXCEPT !.setting = TRUE]
             q == [e.leg EXCEPT !.offered = FALSE, !.setting = FALSE, !.remote = s.id]
             failed == [e EXCEPT !.leg = [@ EXCEPT !.setting = TRUE]]
             taken == [e EXCEPT !.leg = [@ EXCEPT !.offered = FALSE, !.setting = FALSE,
                                                  !.remote = s.id]]
  <1>1. /\ announced' \in [End -> BOOLEAN] /\ net' \subseteq Signal
        /\ sent' = sent /\ obeyed' = obeyed
    BY DEF OnAnswer, Inv, TypeOK
  <1>2. s \in Signal /\ s.kind = "answer"
    BY DEF OnAnswer, Inv, TypeOK
  <1>3. s.id \in 0..MaxMade
    BY <1>2, ParameterAssumption DEF Signal
  <1>4. /\ side[m] \in Side
        /\ e.leg \in Pc => p \in Pc /\ p.id = e.leg.id /\ q \in Pc /\ q.id = e.leg.id
    BY <1>3 DEF Pc, Inv, Good
  <1>5. failed = [e EXCEPT !.leg = p] /\ taken = [e EXCEPT !.leg = q]
    BY <1>4 DEF Side, Ensured
  <1>6. \/ Becomes(m, e)
        \/ HasLeg(e) /\ (Becomes(m, taken) \/ Becomes(m, failed))
    BY DEF OnAnswer
  <1> HIDE DEF p, q, failed, taken, e
  <1>7. CASE Becomes(m, e)
    BY <1>1, <1>7, HeardStep DEF e
  <1>8. CASE HasLeg(e) /\ Becomes(m, taken)
    BY <1>1, <1>4, <1>5, <1>8, DescribedStep DEF e
  <1>9. CASE HasLeg(e) /\ Becomes(m, failed)
    BY <1>1, <1>4, <1>5, <1>9, DescribedStep DEF e
  <1> QED
    BY <1>6, <1>7, <1>8, <1>9

LEMMA RetryStep == ASSUME Inv, NEW m \in End, Retry(m) PROVE Settles(m)
  <1> DEFINE s == side[m]
             a == [s EXCEPT !.cool = TRUE]
             d == Forgotten(Dropped(a))
             e == Ensured(d)
  <1>1. /\ Good(s) /\ s.active /\ s.terminal /\ ~HasLeg(s) /\ sent[m] < MaxRetries
        /\ sent \in [End -> 0..MaxRetries]
    BY DEF Inv, TypeOK, Good, Retry
  <1>2. Good(a) /\ a.active
    BY <1>1, CoolFacts
  <1>3. a \in Side /\ a.floor = s.floor
    BY <1>1, <1>2 DEF Good, Side
  <1> HIDE DEF a
  <1>4. Good(d) /\ d.active /\ d.floor = s.floor /\ Dropped(Forgotten(a)) = d
    BY <1>2, <1>3, ClearedFacts
  <1> HIDE DEF d
  <1>5. e.made <= MaxMade /\ side' = [side EXCEPT ![m] = e]
    BY <1>4 DEF Retry, Becomes, a
  <1>6. Good(e) /\ e.floor = s.floor
    BY <1>4, <1>5, EnsuredFacts DEF Steady
  <1> HIDE DEF e
  <1>7. sent[m] + 1 \in 1..MaxRetries
    BY <1>1, ParameterAssumption
  <1>8. Post(m, "retry", sent[m] + 1) \in Signal
    BY <1>7, PostFacts
  <1>9. /\ net' \subseteq Signal /\ announced' \in [End -> BOOLEAN]
        /\ sent' = [sent EXCEPT ![m] = @ + 1] /\ obeyed' = obeyed
    BY <1>8 DEF Retry, Inv, TypeOK
  <1> QED
    BY <1>1, <1>5, <1>6, <1>9 DEF Settles, Outcome

LEMMA OnRetryStep ==
    ASSUME Inv, NEW m \in End, NEW r \in net, OnRetry(m, r)
    PROVE  Settles(m)
  <1> DEFINE s == side[m]
             a == [s EXCEPT !.cool = TRUE, !.floor = r.id]
             d == Forgotten(Dropped(a))
             e == Ensured(d)
  <1>1. /\ s \in Side /\ s.active /\ r.id > s.floor
        /\ r \in Signal /\ r.kind = "retry"
    BY DEF Inv, TypeOK, Good, OnRetry, Hears
  <1>2. r.id \in 1..MaxRetries
    BY <1>1 DEF Signal
  <1>3. a \in Side /\ a.active /\ a.floor = r.id
    <2> DEFINE b == [s EXCEPT !.cool = TRUE]
    <2>1. b \in Side /\ b.active
      BY <1>1 DEF Side
    <2>2. r.id \in 0..MaxRetries /\ a = [b EXCEPT !.floor = r.id]
      BY <1>2, ParameterAssumption
    <2> HIDE DEF b, a
    <2> QED
      BY <2>1, <2>2 DEF Side
  <1>4. side' = [side EXCEPT ![m] = e] /\ e.made <= MaxMade
    BY DEF OnRetry, Becomes
  <1> HIDE DEF a
  <1>5. Good(d) /\ d.active /\ d.floor = r.id
    BY <1>3, ClearedFacts
  <1> HIDE DEF d
  <1>6. Good(e) /\ e.floor = r.id
    BY <1>4, <1>5, EnsuredFacts DEF Steady
  <1> HIDE DEF e
  <1>7. /\ net' \subseteq Signal /\ announced' \in [End -> BOOLEAN]
        /\ sent' = sent /\ obeyed' = [obeyed EXCEPT ![m] = @ \cup {r.id}]
    BY DEF OnRetry, Inv, TypeOK
  <1> QED
    BY <1>1, <1>2, <1>4, <1>6, <1>7 DEF Settles, Outcome

LEMMA CoolStep == ASSUME Inv, NEW m \in End, Cool(m) PROVE Settles(m)
  <1> DEFINE e == [side[m] EXCEPT !.cool = FALSE]
  <1>1. /\ side' = [side EXCEPT ![m] = e]
        /\ net' \subseteq Signal /\ announced' \in [End -> BOOLEAN]
        /\ sent' = sent /\ obeyed' = obeyed
    BY DEF Cool, Becomes, Inv, TypeOK
  <1>2. Good(e) /\ Steady(side[m], e)
    BY CoolFacts DEF Inv
  <1> HIDE DEF e
  <1> QED
    BY <1>1, <1>2 DEF Settles, Outcome

\* A lost signal disturbs no end.
LEMMA LoseStep ==
    ASSUME Inv, NEW s \in net, Lose(s)
    PROVE  /\ net' \subseteq Signal
           /\ side' = side /\ announced' = announced /\ sent' = sent /\ obeyed' = obeyed
  BY DEF Lose, Inv, TypeOK

\* Every step settles some end, or disturbs none.
LEMMA Steps ==
    ASSUME Inv, [Next]_vars
    PROVE  \/ \E m \in End : Settles(m)
           \/ /\ net' \subseteq Signal
              /\ side' = side /\ announced' = announced /\ sent' = sent /\ obeyed' = obeyed
  <1>1. ASSUME NEW m \in End, Member(m) PROVE Settles(m)
    BY <1>1, StartStep, StopStep, AdmitStep, EvictStep, GoneStep, PresenceStep DEF Member
  <1>2. ASSUME NEW m \in End, Hear(m) PROVE Settles(m)
    BY <1>2, OnOfferStep, OnAnswerStep DEF Hear
  <1>3. ASSUME NEW m \in End, Browser(m) PROVE Settles(m)
    BY <1>3, NegotiateStep, OfferStep, ConnectStep, DisconnectStep, FailStep DEF Browser
  <1>4. ASSUME NEW m \in End, Retry(m) \/ Cool(m) \/ \E s \in net : OnRetry(m, s)
        PROVE  Settles(m)
    BY <1>4, RetryStep, CoolStep, OnRetryStep
  <1>5. ASSUME UNCHANGED vars
        PROVE  /\ net' \subseteq Signal
               /\ side' = side /\ announced' = announced /\ sent' = sent /\ obeyed' = obeyed
    BY <1>5 DEF vars, Inv, TypeOK
  <1> QED
    BY <1>1, <1>2, <1>3, <1>4, <1>5, LoseStep DEF Next

-----------------------------------------------------------------------------
(* The theorems *)

LEMMA InvInit == ASSUME Init PROVE Inv
  <1> DEFINE e == [active |-> FALSE, admitted |-> FALSE, barred |-> FALSE,
                   leg |-> NoPc, fails |-> 0, terminal |-> FALSE, cool |-> FALSE,
                   floor |-> 0, made |-> 0, tries |-> 0]
  <1>1. \A m \in End : side[m] = e
    BY DEF Init
  <1>2. e \in Side
    BY NoPcFacts, ParameterAssumption DEF Side
  <1>3. Good(e)
    BY <1>2, NoPcFacts, ParameterAssumption DEF Good, Spent, HasLeg
  <1>4. TypeOK
    BY <1>2, ParameterAssumption DEF Init, TypeOK
  <1>5. \A m \in End : obeyed[m] = {}
    BY DEF Init
  <1> HIDE DEF e
  <1> QED
    BY <1>1, <1>3, <1>4, <1>5 DEF Inv

\* What settling an end does to the invariant.
LEMMA SettledFacts ==
    ASSUME Inv, NEW m \in End, NEW e, Outcome(m, e)
    PROVE  Inv'
  <1>1. Good(e) /\ e \in Side /\ side' = [side EXCEPT ![m] = e] /\ side \in [End -> Side]
    BY DEF Outcome, Good, Inv, TypeOK
  <1>2. /\ net' \subseteq Signal /\ announced' \in [End -> BOOLEAN]
        /\ sent \in [End -> 0..MaxRetries] /\ obeyed \in [End -> SUBSET (1..MaxRetries)]
        /\ e.floor \in Nat /\ side[m].floor \in Nat
    BY <1>1, ParameterAssumption DEF Outcome, Inv, TypeOK, Side
  <1>3. /\ sent' \in [End -> 0..MaxRetries]
        /\ obeyed' \in [End -> SUBSET (1..MaxRetries)]
    BY <1>2, ParameterAssumption DEF Outcome
  <1>4. /\ \A n \in End \ {m} : obeyed'[n] = obeyed[n] /\ side'[n] = side[n]
        /\ side'[m] = e
    BY <1>1, <1>2 DEF Outcome
  <1>5. \A r \in obeyed'[m] : r <= e.floor
    <2>1. \A r \in obeyed[m] : r <= side[m].floor /\ r \in Nat
      BY <1>2 DEF Inv
    <2> QED
      BY <1>2, <2>1, ParameterAssumption DEF Outcome, Steady
  <1>6. TypeOK'
    BY <1>1, <1>2, <1>3 DEF TypeOK
  <1>7. \A n \in End : Good(side'[n])
    BY <1>1, <1>4 DEF Inv
  <1>8. \A n \in End : \A r \in obeyed'[n] : r <= side'[n].floor
    BY <1>4, <1>5 DEF Inv
  <1> QED
    BY <1>6, <1>7, <1>8 DEF Inv

LEMMA InvStep == ASSUME Inv, [Next]_vars PROVE Inv'
  <1>1. CASE \E m \in End : Settles(m)
    BY <1>1, SettledFacts DEF Settles
  <1>2. CASE /\ net' \subseteq Signal
             /\ side' = side /\ announced' = announced /\ sent' = sent /\ obeyed' = obeyed
    BY <1>2 DEF Inv, TypeOK
  <1> QED
    BY <1>1, <1>2, Steps

\* Type correctness: no step leaves the bounds, whatever is heard and in whatever
\* order.
THEOREM TypeCorrect == Spec => []TypeOK
  <1>1. Inv => TypeOK
    BY DEF Inv
  <1> QED
    BY InvInit, InvStep, <1>1, PTL DEF Spec

\* A connection exists only to an admitted member of a running session.
THEOREM LegAdmittedCorrect == Spec => []LegAdmitted
  <1>1. Inv => LegAdmitted
    BY DEF Inv, Good, LegAdmitted
  <1> QED
    BY InvInit, InvStep, <1>1, PTL DEF Spec

\* An end is terminal exactly when its budget is spent, and then holds nothing.
THEOREM TerminalIsSpentCorrect == Spec => []TerminalIsSpent
  <1>1. Inv => TerminalIsSpent
    BY DEF Inv, Good, TerminalIsSpent
  <1> QED
    BY InvInit, InvStep, <1>1, PTL DEF Spec

\* No interplay of gossip and failures makes more connections than the budget:
\* Good gives tries = Spent, and a connection exists only while fails is below it.
THEOREM StormBoundedCorrect == Spec => []StormBounded
  <1>1. ASSUME Inv, NEW m \in End PROVE side[m].tries <= MaxRebuilds
    <2>1. Good(side[m]) /\ side[m].fails \in 0..MaxRebuilds
      BY <1>1 DEF Inv, Good, Side
    <2> QED
      BY <2>1, ParameterAssumption DEF Good, Spent
  <1>2. Inv => StormBounded
    BY <1>1 DEF StormBounded
  <1> QED
    BY InvInit, InvStep, <1>2, PTL DEF Spec

\* Gossip never lifts a terminal failure.
THEOREM TerminalSticksCorrect == Spec => TerminalSticks
  <1> DEFINE Sticks == \A m \in End : side[m].terminal /\ ~side'[m].terminal =>
                          \/ ~side'[m].active \/ ~side'[m].admitted
                          \/ sent'[m] > sent[m] \/ side'[m].floor > side[m].floor
  <1>1. ASSUME Inv, NEW n \in End, Settles(n) PROVE Sticks
    <2> PICK e : Outcome(n, e)
      BY <1>1 DEF Settles
    <2>1. side' = [side EXCEPT ![n] = e] /\ side \in [End -> Side]
      BY <1>1 DEF Outcome, Inv, TypeOK
    <2>2. side[n].floor \in Nat /\ sent \in [End -> 0..MaxRetries]
      BY <1>1, ParameterAssumption DEF Inv, TypeOK, Side
    <2>3. ASSUME NEW m \in End, side[m].terminal, ~side'[m].terminal
          PROVE  \/ ~side'[m].active \/ ~side'[m].admitted
                 \/ sent'[m] > sent[m] \/ side'[m].floor > side[m].floor
      <3>1. m = n /\ side'[m] = e
        BY <2>1, <2>3
      <3>2. ~Steady(side[n], e)
        BY <2>3, <3>1 DEF Steady
      <3> QED
        BY <2>2, <3>1, <3>2, ParameterAssumption DEF Outcome
    <2> QED
      BY <2>3
  <1>2. ASSUME side' = side PROVE Sticks
    BY <1>2
  <1>3. Inv /\ [Next]_vars => [Sticks]_vars
    BY <1>1, <1>2, Steps
  <1> QED
    BY InvInit, InvStep, <1>3, PTL DEF Spec, TerminalSticks

\* A connection that works is reaped only with the session or the membership, or
\* for a retry that was never obeyed before: the floor is above all of them.
THEOREM GoodLegKeptCorrect == Spec => GoodLegKept
  <1> DEFINE Kept == \A m \in End :
                 side[m].leg.conn = "connected" /\ side'[m].leg.id # side[m].leg.id =>
                    \/ ~side'[m].active \/ ~side'[m].admitted
                    \/ obeyed'[m] # obeyed[m]
  <1>1. ASSUME Inv, NEW n \in End, Settles(n) PROVE Kept
    <2> PICK e : Outcome(n, e)
      BY <1>1 DEF Settles
    <2>1. side' = [side EXCEPT ![n] = e] /\ side \in [End -> Side]
      BY <1>1 DEF Outcome, Inv, TypeOK
    <2>2. /\ side[n].floor \in Nat /\ \A r \in obeyed[n] : r <= side[n].floor
          /\ obeyed \in [End -> SUBSET (1..MaxRetries)]
      BY <1>1, ParameterAssumption DEF Inv, TypeOK, Side
    <2>3. ASSUME NEW m \in End, side[m].leg.conn = "connected",
                 side'[m].leg.id # side[m].leg.id
          PROVE  \/ ~side'[m].active \/ ~side'[m].admitted
                 \/ obeyed'[m] # obeyed[m]
      <3>1. m = n /\ side'[m] = e
        BY <2>1, <2>3
      <3>2. ~Steady(side[n], e)
        BY <2>3, <3>1 DEF Steady
      <3>3. HasLeg(side[n])
        BY <1>1, <2>3, <3>1, LegBusy DEF Inv
      <3>4. CASE ~e.active \/ ~e.admitted
        BY <3>1, <3>4
      <3>5. CASE \E r \in 1..MaxRetries :
                    /\ r > side[n].floor
                    /\ obeyed' = [obeyed EXCEPT ![n] = @ \cup {r}]
        <4> PICK r \in 1..MaxRetries :
                    /\ r > side[n].floor
                    /\ obeyed' = [obeyed EXCEPT ![n] = @ \cup {r}]
          BY <3>5
        <4>1. r \notin obeyed[n]
          BY <2>2, ParameterAssumption
        <4>2. r \in obeyed'[n]
          BY <2>2
        <4> QED
          BY <3>1, <4>1, <4>2
      <3> QED
        BY <3>2, <3>3, <3>4, <3>5 DEF Outcome
    <2> QED
      BY <2>3
  <1>2. ASSUME side' = side PROVE Kept
    BY <1>2
  <1>3. Inv /\ [Next]_vars => [Kept]_vars
    BY <1>1, <1>2, Steps
  <1> QED
    BY InvInit, InvStep, <1>3, PTL DEF Spec, GoodLegKept
=============================================================================
