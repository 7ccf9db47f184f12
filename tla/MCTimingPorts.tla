--------------------------- MODULE MCTimingPorts ---------------------------
(* Two DMA devices and three calls of dmaAction, the first of two cache lines. *)
EXTENDS TimingPorts

CONSTANTS d1, d2, a1, a2, a3

MCActDev == a1 :> d1 @@ a2 :> d2 @@ a3 :> d2
MCChunks == a1 :> 2 @@ a2 :> 1 @@ a3 :> 1

\* Where they go: both devices contend for the bridge, for the memory, or for
\* the PIO port, and the responses for a device come from different slaves.
MCActDests ==
    {a1 :> "bridge" @@ a2 :> "bridge" @@ a3 :> "pio",
     a1 :> "near" @@ a2 :> "near" @@ a3 :> "bridge",
     a1 :> "pio" @@ a2 :> "pio" @@ a3 :> "near"}
=============================================================================
