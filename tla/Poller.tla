------------------------------- MODULE Poller -------------------------------
(***************************************************************************)
(* What dwater/net/poller.h promises the event loop: for every channel it  *)
(* has been told of, the kernel is asked for exactly the events the channel*)
(* wants, until the channel is removed.                                    *)
(***************************************************************************)
EXTENDS Functions

CONSTANT Fds        \* the file descriptors

VARIABLE interest   \* [fds of the poller's channels -> the events asked for]

Events == SUBSET {"read", "write"}

Init == interest = [fd \in {} |-> {}]

UpdateChannel(fd, ev) ==
    interest' = [f \in DOMAIN interest \cup {fd} |->
                    IF f = fd THEN ev ELSE interest[f]]

RemoveChannel(fd) ==
    /\ fd \in DOMAIN interest /\ interest[fd] = {}
    /\ interest' = Restrict(interest, DOMAIN interest \ {fd})

Next ==
    \E fd \in Fds : RemoveChannel(fd) \/ \E ev \in Events : UpdateChannel(fd, ev)

Spec == Init /\ [][Next]_interest
=============================================================================
