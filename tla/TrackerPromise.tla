--------------------------- MODULE TrackerPromise ---------------------------
(***************************************************************************)
(* What the tracker promises, apart from how it stores it: a peer that     *)
(* announces a file is listed for it during the next Ttl seconds unless it *)
(* leaves, and at most one second longer.                                  *)
(***************************************************************************)
EXTENDS Naturals

CONSTANTS File, Peer, Ttl

VARIABLES
    clock,      \* the time in seconds
    listed      \* the announcements that are remembered

promiseVars == <<clock, listed>>

PromiseInit == clock = 0 /\ listed = {}

Announced(f, p) ==
    /\ listed' = listed \cup {[file |-> f, peer |-> p, until |-> clock + Ttl]}
    /\ UNCHANGED clock

Departed(p) ==
    /\ listed' = {a \in listed : a.peer # p}
    /\ UNCHANGED clock

Forgotten ==
    /\ listed' = {a \in listed : a.until >= clock}
    /\ UNCHANGED clock

Second ==
    /\ clock' = clock + 1
    /\ \A a \in listed : clock <= a.until
    /\ UNCHANGED listed

PromiseNext ==
    \/ \E f \in File, p \in Peer : Announced(f, p)
    \/ \E p \in Peer : Departed(p)
    \/ Forgotten
    \/ Second

PromiseSpec == PromiseInit /\ [][PromiseNext]_promiseVars
=============================================================================
