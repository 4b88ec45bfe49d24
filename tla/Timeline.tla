------------------------------ MODULE Timeline ------------------------------
(***************************************************************************)
(* What util/eventbus promises of order: "there is one true timeline of    *)
(* all published events", and the view each client has of it "always moves *)
(* forward in time, never backwards".  EventBus is shown to implement this *)
(* specification.                                                          *)
(***************************************************************************)
EXTENDS Naturals, Sequences

CONSTANT Clients

VARIABLES
  published,  \* how many events have been published
  view        \* view[c]: the numbers of the events that c was given, in order

vars == <<published, view>>

Init == published = 0 /\ view = [c \in Clients |-> <<>>]

Publish == published' = published + 1 /\ UNCHANGED view

\* A client may skip events it did not subscribe to, and never goes back.
Deliver(c) ==
  /\ \E n \in 1..published :
       /\ \A i \in DOMAIN view[c] : view[c][i] < n
       /\ view' = [view EXCEPT ![c] = Append(@, n)]
  /\ UNCHANGED published

Next == Publish \/ \E c \in Clients : Deliver(c)

Spec == Init /\ [][Next]_vars
=============================================================================
