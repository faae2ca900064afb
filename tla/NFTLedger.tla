----------------------------- MODULE NFTLedger -----------------------------
(***************************************************************************)
(* What the universal NFT contracts promise together: an NFT is minted     *)
(* once, is in one place at a time, and keeps the chain it was minted on.  *)
(* It may also be lost on the way, for good: neither contract restores an  *)
(* NFT whose message is refused.                                           *)
(***************************************************************************)
CONSTANTS Nfts, Places, Owners, NoPlace

VARIABLES
    place,      \* where each NFT is: unminted, held, moving or lost
    provenance  \* the chain it was minted on

Unminted == [kind |-> "unminted"]
Moving   == [kind |-> "moving"]
Lost     == [kind |-> "lost"]
Held(p, o) == [kind |-> "held", at |-> p, by |-> o]

Init ==
    /\ place = [n \in Nfts |-> Unminted]
    /\ provenance = [n \in Nfts |-> NoPlace]

Mint(n, p, o) ==
    /\ place[n] = Unminted
    /\ place' = [place EXCEPT ![n] = Held(p, o)]
    /\ provenance' = [provenance EXCEPT ![n] = p]

Move(n, after) ==
    /\ place' = [place EXCEPT ![n] = after]
    /\ UNCHANGED provenance

Give(n, p, from, to) == place[n] = Held(p, from) /\ Move(n, Held(p, to))

Depart(n, p, o) == place[n] = Held(p, o) /\ Move(n, Moving)

Arrive(n, p, o) == place[n] = Moving /\ Move(n, Held(p, o))

Lose(n) == place[n] = Moving /\ Move(n, Lost)

Next ==
    \E n \in Nfts :
        \/ Lose(n)
        \/ \E p \in Places, o \in Owners :
              \/ Mint(n, p, o)
              \/ Depart(n, p, o)
              \/ Arrive(n, p, o)
              \/ \E q \in Owners : Give(n, p, o, q)

Spec == Init /\ [][Next]_<<place, provenance>>
============================================================================
