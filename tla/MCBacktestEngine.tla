-------------------------- MODULE MCBacktestEngine --------------------------
EXTENDS BacktestEngine

CONSTANTS MaxTime, MaxEvents

\* Blocks in the order of the chain; an event may be announced before its block
\* (available_at below its time) or late.  A shutdown marker has no cursor.
Market == [timestamp : 1..MaxTime, available_at : 0..MaxTime, kind : Kinds, cursor : {0}]
Marker == [timestamp : 1..MaxTime, available_at : {0}, kind : {"SHUTDOWN"}, cursor : {0}]
Placed(s) == [i \in DOMAIN s |-> [s[i] EXCEPT !.cursor = i]]
Chains ==
    {Placed(s) : s \in {s \in UNION {[1..n -> Market] : n \in 0..MaxEvents} :
                            \A i, j \in DOMAIN s : i < j => s[i].timestamp <= s[j].timestamp}}
MCManifests == Chains \cup {Append(c, m) : c \in {c \in Chains : Len(c) < MaxEvents}, m \in Marker}
\* What the T112 bridge makes of swaps in blocks of their own: each is available
\* at its block.
BridgeManifests ==
    {c \in Chains : /\ \A i \in DOMAIN c : c[i].kind = "SWAP" /\ c[i].available_at = c[i].timestamp
                    /\ \A i, j \in DOMAIN c : i < j => c[i].timestamp < c[j].timestamp}
=============================================================================
