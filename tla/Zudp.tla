-------------------------------- MODULE Zudp -------------------------------
(***************************************************************************)
(* The kernel module src/src/kernel/linux_network/udp_sock/zudp.c, which   *)
(* lists the sockets of the kernel's UDP hash table when it is loaded.     *)
(*                                                                         *)
(* The table is external: a slot is a chain of sockets that ends in a mark,*)
(* a socket is bound at the head of its chain, and one that is closed keeps*)
(* its pointer to the next.  zudp.c walks the chains without a lock and    *)
(* does not look at the mark a chain ended in.                             *)
(***************************************************************************)
EXTENDS Integers, FiniteSets

CONSTANTS
    Socks,          \* sockets, the memory of which is used again after close
    mask,           \* udp_table.mask, the number of the last slot
    MaxBinds        \* times a socket is bound

Slots == 0 .. mask
Mark  == "mark"     \* the end of a chain; its slot is not looked at

ASSUME ZudpAssumption ==
    mask \in Nat \ {0} /\ MaxBinds \in Nat /\ Mark \notin Socks /\ IsFiniteSet(Socks)

VARIABLES
    head,           \* slot -> its first socket
    next,           \* socket -> the socket after it
    slot,           \* socket -> the slot it is bound in, or -1
    binds,          \* socket -> times it was bound
    wi, node,       \* i, and the socket looked at or Mark
    wpc,            \* "out", "slot", "chain" or "in"
    listed,         \* socket -> times it was printed
    steady,         \* sockets bound since before the walk
    reused          \* whether a socket was bound again during the walk

table    == <<head, next, slot, binds>>
zudpvars == <<head, next, slot, binds, wi, node, wpc, listed, steady, reused>>

ZudpInit ==
    /\ head = [i \in Slots |-> Mark] /\ next = [s \in Socks |-> Mark]
    /\ slot = [s \in Socks |-> -1] /\ binds = [s \in Socks |-> 0]
    /\ wi = 0 /\ node = Mark /\ wpc = "out" /\ listed = [s \in Socks |-> 0]
    /\ steady = {} /\ reused = FALSE

Bound(s)  == slot[s] # -1
Count(i)  == Cardinality({s \in Socks : slot[s] = i})

\* A socket gets a port, and with it a slot.
Bind(s, i) ==
    /\ ~Bound(s) /\ binds[s] < MaxBinds
    /\ head' = [head EXCEPT ![i] = s] /\ next' = [next EXCEPT ![s] = head[i]]
    /\ slot' = [slot EXCEPT ![s] = i] /\ binds' = [binds EXCEPT ![s] = @ + 1]
    /\ reused' = (reused \/ (wpc \in {"slot", "chain"} /\ binds[s] > 0))
    /\ UNCHANGED <<wi, node, wpc, listed, steady>>

CloseSock(s) ==
    /\ Bound(s)
    /\ head' = [i \in Slots |-> IF head[i] = s THEN next[s] ELSE head[i]]
    /\ next' = [t \in Socks |-> IF Bound(t) /\ next[t] = s THEN next[s] ELSE next[t]]
    /\ slot' = [slot EXCEPT ![s] = -1] /\ steady' = steady \ {s}
    /\ UNCHANGED <<binds, wi, node, wpc, listed, reused>>

----------------------------------------------------------------------------
(* zudp_init *)

ZudpInsmod ==
    /\ wpc = "out" /\ wpc' = "slot" /\ wi' = 0
    /\ steady' = {s \in Socks : Bound(s)}
    /\ UNCHANGED <<table, node, listed, reused>>

\* Mutant: a slot with a single socket is passed over.
WalkSlotMany ==
    /\ wpc = "slot"
    /\ IF wi = mask THEN wpc' = "in" /\ UNCHANGED <<wi, node>>
       ELSE IF Count(wi) > 1 THEN wpc' = "chain" /\ node' = head[wi] /\ UNCHANGED wi
       ELSE wi' = wi + 1 /\ UNCHANGED <<wpc, node>>
    /\ UNCHANGED <<table, listed, steady, reused>>

\* for (i = 0; i < udp_table.mask; i++): the last slot is not looked at.
WalkSlot ==
    /\ wpc = "slot"
    /\ IF wi = mask THEN wpc' = "in" /\ UNCHANGED <<wi, node>>
       ELSE IF Count(wi) > 0 THEN wpc' = "chain" /\ node' = head[wi] /\ UNCHANGED wi
       ELSE wi' = wi + 1 /\ UNCHANGED <<wpc, node>>
    /\ UNCHANGED <<table, listed, steady, reused>>

\* sk_nulls_for_each_rcu.
WalkSocket ==
    /\ wpc = "chain"
    /\ IF node = Mark
       THEN wpc' = "slot" /\ wi' = wi + 1 /\ UNCHANGED <<node, listed>>
       ELSE /\ listed' = [listed EXCEPT ![node] = @ + 1] /\ node' = next[node]
            /\ UNCHANGED <<wpc, wi>>
    /\ UNCHANGED <<table, steady, reused>>

ZudpDone ==
    /\ wpc = "in" /\ \A s \in Socks : binds[s] = MaxBinds /\ ~Bound(s)
    /\ UNCHANGED zudpvars

ZudpNext ==
    \/ \E s \in Socks : CloseSock(s) \/ \E i \in Slots : Bind(s, i)
    \/ ZudpInsmod \/ WalkSlot \/ WalkSocket
    \/ ZudpDone

----------------------------------------------------------------------------
(* Properties *)

ZudpTypeOK ==
    /\ head \in [Slots -> Socks \cup {Mark}] /\ next \in [Socks -> Socks \cup {Mark}]
    /\ slot \in [Socks -> Slots \cup {-1}] /\ wi \in Slots /\ node \in Socks \cup {Mark}
    /\ wpc \in {"out", "slot", "chain", "in"} /\ steady \subseteq Socks

\* "Use udp_table list udp sockets" (zudp.c:2): a socket that was bound all the
\* time in a slot the loop reaches is listed, once, however the chains changed
\* meanwhile, unless the memory of a closed socket was bound again: that one
\* may lead the walk into another chain.
ListsLasting ==
    wpc = "in" /\ ~reused => \A s \in steady : slot[s] < mask => listed[s] = 1
=============================================================================
