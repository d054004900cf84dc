---------------------------- MODULE LinkService ----------------------------
(***************************************************************************)
(* What one direction of an emulated link promises to those at its ends,   *)
(* whatever its trace, its queue and the clock: packets come out in the    *)
(* order they went in, each at most once; a packet is lost only at the     *)
(* moment another one is offered, one loss per offer, and never once its   *)
(* transmission has begun; a link without limits loses nothing.            *)
(***************************************************************************)
EXTENDS Naturals, Sequences

CONSTANT Lossy   \* a truth value: the queue has a limit

VARIABLES
  offers,     \* how many packets have been offered; they are numbered from 1
  inside,     \* the packets on the link, oldest first
  committed,  \* the oldest of them is partly transmitted
  out         \* the packets that came out and were not picked up

serviceVars == <<offers, inside, committed, out>>

Without(s, i) == SubSeq(s, 1, i - 1) \o SubSeq(s, i + 1, Len(s))

Init ==
  /\ offers = 0
  /\ inside = <<>>
  /\ committed = FALSE
  /\ out = <<>>

Offer ==
  /\ offers' = offers + 1
  /\ LET line == Append(inside, offers')
     IN  \/ inside' = line
         \/ /\ Lossy
            /\ \E i \in 1..Len(line) :
                 /\ committed => i # 1
                 /\ inside' = Without(line, i)
  /\ UNCHANGED <<committed, out>>

Commit ==
  /\ inside # <<>>
  /\ committed' = TRUE
  /\ UNCHANGED <<offers, inside, out>>

Deliver ==
  /\ inside # <<>>
  /\ out' = Append(out, Head(inside))
  /\ inside' = Tail(inside)
  /\ committed' = FALSE
  /\ UNCHANGED offers

PickUp ==
  /\ out # <<>>
  /\ out' = <<>>
  /\ UNCHANGED <<offers, inside, committed>>

Next == Offer \/ Commit \/ Deliver \/ PickUp

Spec == Init /\ [][Next]_serviceVars
=============================================================================
