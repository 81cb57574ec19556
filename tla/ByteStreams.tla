---------------------------- MODULE ByteStreams ----------------------------
(***************************************************************************)
(* What connections promise to the two programs at their ends, as far as   *)
(* bytes are counted: what one writes the other reads, once, until the     *)
(* writer closes or the connection breaks, and the reader is told of an    *)
(* end only after all that will arrive.  The connections of Stream         *)
(* (tcp_speed, vsock) and of TcpServer (tcp) are shown to be such streams. *)
(***************************************************************************)
EXTENDS Integers

CONSTANTS
    Streams,
    Bytes       \* the most bytes one call writes or reads

VARIABLES       \* functions of the stream
    sent,       \* bytes written
    flight,     \* bytes written and neither read nor lost
    received,   \* bytes read
    state,      \* "open", "closed" by the writer, or "broken"
    ended       \* whether the reader has seen the end

vars == <<sent, flight, received, state, ended>>

Init ==
    /\ sent = [s \in Streams |-> 0] /\ flight = [s \in Streams |-> 0]
    /\ received = [s \in Streams |-> 0]
    /\ state = [s \in Streams |-> "open"] /\ ended = [s \in Streams |-> FALSE]

\* A step changes these numbers of stream s by so much, and nothing else.
Change(s, out, on, in) ==
    sent'[s] = sent[s] + out /\ flight'[s] = flight[s] + on /\ received'[s] = received[s] + in

\* The writer writes k bytes, and may close with the last of them.
Write(s, k) ==
    /\ state[s] = "open" /\ state'[s] \in {"open", "closed"} /\ ended'[s] = ended[s]
    /\ Change(s, k, k, 0)

Close(s) ==
    /\ state[s] = "open" /\ state'[s] = "closed" /\ ended'[s] = ended[s]
    /\ Change(s, 0, 0, 0)

\* A writer may not know yet that the connection is broken.
WriteLost(s, k) ==
    /\ state[s] = "broken" /\ state'[s] = "broken" /\ ended'[s] = ended[s]
    /\ Change(s, k, 0, 0)

Read(s, k) ==
    /\ ~ended[s] /\ k =< flight[s] /\ state'[s] = state[s] /\ ~ended'[s]
    /\ Change(s, 0, -k, k)

ReadEnd(s) ==
    /\ ~ended[s] /\ flight[s] = 0 /\ state[s] # "open"
    /\ ended'[s] /\ state'[s] = state[s] /\ Change(s, 0, 0, 0)

\* The connection breaks and loses k of the bytes on their way.
Break(s, k) ==
    /\ state[s] # "broken" /\ k =< flight[s] /\ state'[s] = "broken" /\ ended'[s] = ended[s]
    /\ Change(s, 0, -k, 0)

Idle(s) == state'[s] = state[s] /\ ended'[s] = ended[s] /\ Change(s, 0, 0, 0)

Step(s) ==
    \/ \E k \in 1 .. Bytes : Write(s, k) \/ WriteLost(s, k) \/ Read(s, k)
    \/ \E k \in 0 .. flight[s] : Break(s, k)
    \/ Close(s) \/ ReadEnd(s) \/ Idle(s)

Next == \A s \in Streams : Step(s)

Spec == Init /\ [][Next]_vars
=============================================================================
