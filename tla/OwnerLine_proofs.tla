-------------------------- MODULE OwnerLine_proofs --------------------------
(***************************************************************************)
(* The line of owners has one acting owner, and it is the last.            *)
(***************************************************************************)
EXTENDS OwnerLine, TLAPS, SequenceTheorems

LineAssumption == Founder \in Member /\ NoOne \notin Member

LInv == LineTypeOK /\ ActingIsLast

LEMMA HandOverKeeps ==
    ASSUME LInv, NEW m \in Member, NEW n \in Member, HandOver(m, n)
    PROVE  LInv'
  <1>1. /\ line' = Append(line, n) /\ owner' = [owner EXCEPT ![m] = n]
        /\ proved' = [proved EXCEPT ![m] = Len(line)] /\ owner[m] = m /\ n # m
    BY DEF HandOver
  <1>2. /\ line' \in Seq(Member) /\ Len(line') = Len(line) + 1 /\ Len(line) \in Nat
        /\ line' # << >>
    BY <1>1, AppendProperties, LenProperties, EmptySeq DEF LInv, LineTypeOK
  <1>3. LineTypeOK'
    BY <1>1, <1>2 DEF LInv, LineTypeOK
  <1>4. \A x \in Member : owner'[x] # x
    <2> TAKE x \in Member
    <2>1. owner[x] = x => x = m
      BY <1>1 DEF LInv, ActingIsLast
    <2> QED
      BY <2>1, <1>1 DEF LInv, LineTypeOK
  <1> QED
    BY <1>3, <1>4 DEF LInv, ActingIsLast

LEMMA LearnKeeps ==
    ASSUME LineAssumption, LInv, NEW m \in Member, Learn(m)
    PROVE  LInv'
  <1>1. /\ line' = line /\ owner' = [owner EXCEPT ![m] = owner'[m]]
        /\ proved' = [proved EXCEPT ![m] = proved'[m]]
    BY DEF Learn
  <1>2. Len(line) \in Nat /\ \A i \in 1..Len(line) : line[i] \in Member
    BY LenProperties, ElementOfSeq DEF LInv, LineTypeOK
  <1>3. /\ owner'[m] \in Member \union {NoOne} /\ proved'[m] \in Nat
        /\ owner'[m] = m => line[Len(line)] = m /\ proved'[m] = Len(line) - 1
    <2>1. CASE Learns(m)
      <3>1. PICK k \in (proved[m] + 1)..(Len(line) - 1) :
              /\ line[k + 1] = m => k + 1 = Len(line)
              /\ owner'[m] = line[k + 1] /\ proved'[m] = k
        BY <2>1 DEF Learns
      <3>2. k \in Nat /\ k + 1 \in 1..Len(line)
        BY <3>1, <1>2 DEF LInv, LineTypeOK
      <3> QED
        BY <3>1, <3>2, <1>2
    <2>2. CASE Trusts(m)
      BY <2>2, <1>2 DEF Trusts, LInv, LineTypeOK
    <2>3. CASE Forgets(m)
      BY <2>3 DEF Forgets, LineAssumption
    <2> QED
      BY <2>1, <2>2, <2>3 DEF Learn
  <1>4. LineTypeOK'
    BY <1>1, <1>3 DEF LInv, LineTypeOK
  <1>5. ActingIsLast'
    BY <1>1, <1>3 DEF LInv, LineTypeOK, ActingIsLast
  <1> QED
    BY <1>4, <1>5 DEF LInv

\* Who acts as the owner is the last of the line, and can prove it; so there is
\* one at most.
THEOREM LastActs ==
    ASSUME LineAssumption
    PROVE  LineSpec => []ActingIsLast /\ []AtMostOne
  <1>1. LineInit => LInv
    BY DEF LineInit, LInv, LineTypeOK, ActingIsLast, LineAssumption
  <1>2. LInv /\ [LineNext]_lineVars => LInv'
    <2> SUFFICES ASSUME LInv, [LineNext]_lineVars PROVE LInv'
      OBVIOUS
    <2>1. CASE LineNext
      BY <2>1, HandOverKeeps, LearnKeeps DEF LineNext
    <2>2. CASE UNCHANGED lineVars
      BY <2>2 DEF lineVars, LInv, LineTypeOK, ActingIsLast
    <2> QED
      BY <2>1, <2>2
  <1>3. LInv => ActingIsLast /\ AtMostOne
    BY DEF LInv, ActingIsLast, AtMostOne
  <1> QED
    BY <1>1, <1>2, <1>3, PTL DEF LineSpec
=============================================================================
