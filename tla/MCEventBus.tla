----------------------------- MODULE MCEventBus -----------------------------
(* A client with a callback and a channel, which also publishes, and a second *)
(* client that subscribes to one of the two types.                            *)
EXTENDS EventBus, TLC

CONSTANTS a, b, chan, func

MCWants == (a :> {chan, func}) @@ (b :> {chan})
MCPublishes == (a :> {chan, func}) @@ (b :> {})

\* b only publishes.
MCLiveWants == (a :> {chan, func}) @@ (b :> {})
MCLivePublishes == (a :> {chan}) @@ (b :> {func})
=============================================================================
