---------------------------- MODULE DurableVault ----------------------------
(***************************************************************************)
(* What the Vault store promises to its clients, without slots, files or   *)
(* generations: one current graph, the graphs a power loss may still       *)
(* replace it by, and the edits that have been acknowledged as durable.    *)
(* The credential coordinator is written against this promise.             *)
(***************************************************************************)
CONSTANT Edits

VARIABLES
    graph,  \* the current graph
    risk,   \* the graphs that may be current after a power loss now
    acked   \* the edits acknowledged as durable

vvars == <<graph, risk, acked>>

VInit ==
    /\ graph = {}
    /\ risk = {{}}
    /\ acked = {}

\* A commit makes one graph current that extends the current one by one edit.
\* Until it is settled a power loss may still take it back.
VPublish ==
    /\ \E e \in Edits \ graph : graph' = graph \cup {e}
    /\ risk' = risk \cup {graph'}
    /\ acked' = acked

\* A directory sync: some of the graphs at risk are ruled out, not the current one.
VSettle ==
    /\ graph' = graph
    /\ risk' \subseteq risk
    /\ graph \in risk'
    /\ acked' = acked

\* A graph is acknowledged only when it is the only one a power loss can leave.
VAcknowledge ==
    /\ risk = {graph}
    /\ acked' = acked \cup graph
    /\ UNCHANGED <<graph, risk>>

VPowerLoss ==
    /\ graph' \in risk
    /\ risk' = {graph'}
    /\ acked' = acked

VNext == VPublish \/ VSettle \/ VAcknowledge \/ VPowerLoss

VSpec == VInit /\ [][VNext]_vvars

\* Every graph a power loss may leave has all acknowledged edits.
AckedIsSafe == \A g \in risk : acked \subseteq g
=============================================================================
