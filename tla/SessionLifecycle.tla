------------------------- MODULE SessionLifecycle --------------------------
(***************************************************************************)
(* What the R2WP session machine promises, without messages, senders or    *)
(* graph generations: a connection walks the bootstrap and authentication  *)
(* ladder once, a terminal phase is final, and every channel id walks      *)
(*     Unused -> Pending -> Active -> Closed,   Pending -> Failed          *)
(* once, one channel per step, only while the session is Ready.            *)
(***************************************************************************)
CONSTANT Ids    \* channel ids

VARIABLES
    phase,      \* where the connection is on the ladder
    state       \* [Ids -> channel state]

vars == <<phase, state>>

Init ==
    /\ phase = "AwaitClientHello"
    /\ state = [c \in Ids |-> "Unused"]

Rung ==
    {<<"AwaitClientHello", "AwaitServerHello">>,
     <<"AwaitServerHello", "SelectedAwaitAuthenticate">>,
     <<"AwaitServerHello", "BootstrapFailed">>,
     <<"SelectedAwaitAuthenticate", "SelectedAwaitSessionReady">>,
     <<"SelectedAwaitAuthenticate", "Failed">>,
     <<"SelectedAwaitSessionReady", "Ready">>,
     <<"SelectedAwaitSessionReady", "Failed">>}

Climb ==
    /\ <<phase, phase'>> \in Rung
    /\ UNCHANGED state

Edge ==
    {<<"Unused", "Pending">>, <<"Pending", "Active">>,
     <<"Pending", "Failed">>, <<"Active", "Closed">>}

MoveChannel(c) ==
    /\ phase = "Ready"
    /\ \E to \in {"Pending", "Active", "Failed", "Closed"} :
          /\ <<state[c], to>> \in Edge
          /\ state' = [state EXCEPT ![c] = to]
    /\ UNCHANGED phase

Next == Climb \/ \E c \in Ids : MoveChannel(c)

Spec == Init /\ [][Next]_vars
=============================================================================
