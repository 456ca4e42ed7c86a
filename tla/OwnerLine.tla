----------------------------- MODULE OwnerLine ------------------------------
(***************************************************************************)
(* What a room promises about its owner, with no messages in sight.        *)
(*                                                                         *)
(* The room has one line of owners, which only grows, and only at its end, *)
(* by the owner at its end.  A member believes in one of the owners of the *)
(* line; it may have proof, which is to hold the handover to that owner,   *)
(* and then it never goes back.  Nobody comes to believe that it is the    *)
(* owner itself unless it is the last of the line.                         *)
(*                                                                         *)
(* RoomOwner implements this module.                                       *)
(***************************************************************************)
EXTENDS Integers, Sequences

CONSTANTS
    Member,     \* the members the room ever has
    Founder,    \* the one that created it
    NoOne       \* no owner known

VARIABLES
    line,       \* the owners so far, the founder first
    owner,      \* owner[m]: the member m takes for the owner
    proved      \* proved[m]: the last handover m holds, by its number

lineVars == <<line, owner, proved>>

LineInit ==
    /\ line = <<Founder>>
    /\ owner = [m \in Member |-> IF m = Founder THEN Founder ELSE NoOne]
    /\ proved = [m \in Member |-> 0]

\* The owner m hands the room to n, and is an ordinary member from then on.
HandOver(m, n) ==
    /\ owner[m] = m /\ n # m
    /\ proved[m] = Len(line) - 1
    /\ line' = Append(line, n)
    /\ owner' = [owner EXCEPT ![m] = n]
    /\ proved' = [proved EXCEPT ![m] = Len(line)]

\* m sees proof of a later handover than it knew.
Learns(m) ==
    \E k \in (proved[m] + 1)..(Len(line) - 1) :
        /\ line[k + 1] = m => k + 1 = Len(line)
        /\ owner'[m] = line[k + 1]
        /\ proved'[m] = k

\* m, who knows of no owner, takes somebody's word for it.
Trusts(m) ==
    /\ owner[m] = NoOne
    /\ \E i \in 1..Len(line) : line[i] # m /\ owner'[m] = line[i]
    /\ proved'[m] = proved[m]

\* m, who never was an owner, leaves and comes back knowing nothing.
Forgets(m) ==
    /\ \A i \in 1..Len(line) : line[i] # m
    /\ owner'[m] = NoOne
    /\ proved'[m] = 0

Learn(m) ==
    /\ Learns(m) \/ Trusts(m) \/ Forgets(m)
    /\ owner' = [owner EXCEPT ![m] = owner'[m]]
    /\ proved' = [proved EXCEPT ![m] = proved'[m]]
    /\ UNCHANGED line

LineNext ==
    \/ \E m, n \in Member : HandOver(m, n)
    \/ \E m \in Member : Learn(m)

LineSpec == LineInit /\ [][LineNext]_lineVars

-----------------------------------------------------------------------------
\* The state has its types.
LineTypeOK ==
    /\ line \in Seq(Member) /\ line # << >>
    /\ owner \in [Member -> Member \union {NoOne}]
    /\ proved \in [Member -> Nat]

\* Whoever takes itself for the owner is the last of the line and can prove it,
\* so there are never two of them.
ActingIsLast ==
    \A m \in Member : owner[m] = m =>
        line[Len(line)] = m /\ proved[m] = Len(line) - 1

\* Two members never act as the owner at once.
AtMostOne == \A m, n \in Member : owner[m] = m /\ owner[n] = n => m = n
=============================================================================
