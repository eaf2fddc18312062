---------------------------- MODULE EpollPoller ----------------------------
(***************************************************************************)
(* dwater/net/poller/epoll_poller.cc: the interest list lives in the       *)
(* kernel; the index_ of a channel says whether its fd is in it.           *)
(***************************************************************************)
EXTENDS Integers, FiniteSets, Functions

CONSTANTS
    Fds,
    kinit_event_list_size   \* how many events the first epoll_wait can return

VARIABLES
    index_,         \* Channel::index_ of the channel of each fd
    channels_,      \* the fds in the map
    epoll,          \* the kernel's interest list: [fds -> events]
    events_size,    \* events_.size()
    failed          \* TRUE iff an assertion, or an epoll_ctl, failed

vars == <<index_, channels_, epoll, events_size, failed>>

knew == -1
kadded == 1
kdelete == 2

Init ==
    /\ index_ = [fd \in Fds |-> knew]
    /\ channels_ = {} /\ epoll = [fd \in {} |-> {}]
    /\ events_size = kinit_event_list_size /\ failed = FALSE

(* assert(A), which ends the process if it fails, and then the step *)
Asserting(A, Step) ==
    IF A THEN Step /\ UNCHANGED failed
         ELSE failed' = TRUE /\ UNCHANGED <<index_, channels_, epoll>>

(* epoll_ctl(ADD or MOD) and epoll_ctl(DEL); the kernel refuses to add what *)
(* is there and to change or delete what is not                             *)
Ask(fd, ev) ==
    epoll' = [f \in DOMAIN epoll \cup {fd} |-> IF f = fd THEN ev ELSE epoll[f]]
Forget(fd) == epoll' = Restrict(epoll, DOMAIN epoll \ {fd})

(* the second half of UpdateChannel, for a channel that is in the kernel *)
UpdateAdded(fd, ev) ==
    IF ev = {}
      THEN Forget(fd) /\ index_' = [index_ EXCEPT ![fd] = kdelete]
      ELSE Ask(fd, ev) /\ UNCHANGED index_

(* for a channel whose events_ is now ev *)
UpdateChannel(fd, ev) ==
    /\ IF index_[fd] \in {knew, kdelete}
         THEN Asserting(/\ index_[fd] = knew <=> fd \notin channels_
                     /\ fd \notin DOMAIN epoll,
                     /\ channels_' = channels_ \cup {fd}
                     /\ index_' = [index_ EXCEPT ![fd] = kadded]
                     /\ Ask(fd, ev))
         ELSE Asserting(fd \in channels_ /\ fd \in DOMAIN epoll,
                     UpdateAdded(fd, ev) /\ UNCHANGED channels_)
    /\ UNCHANGED events_size

(* for a channel whose events_ is ev *)
RemoveChannel(fd, ev) ==
    /\ Asserting(/\ ev = {} /\ fd \in channels_ /\ index_[fd] \in {kadded, kdelete}
              /\ index_[fd] = kadded => fd \in DOMAIN epoll,
              /\ channels_' = channels_ \ {fd}
              /\ IF index_[fd] = kadded THEN Forget(fd) ELSE UNCHANGED epoll
              /\ index_' = [index_ EXCEPT ![fd] = knew])
    /\ UNCHANGED events_size

(* A channel object is destroyed and another one made for the fd. *)
NewChannel(fd) ==
    index_' = [index_ EXCEPT ![fd] = knew]
        /\ UNCHANGED <<channels_, epoll, events_size, failed>>

(* epoll_wait returns as many of the ready fds as there is room for *)
Ready(ready) ==
    {fd \in DOMAIN epoll : ready[fd] \cap (epoll[fd] \cup {"hup"}) # {}}
Returned(ready) ==
    {S \in SUBSET Ready(ready) :
        \/ S = Ready(ready) /\ Cardinality(S) <= events_size
        \/ Cardinality(S) = events_size}

(* mutant: the list of events keeps its length *)
PollKeepsSize(S) == UNCHANGED <<index_, channels_, epoll, events_size, failed>>

(* Poll: a full list of events is made twice as long for the next time *)
Poll(S) ==
    /\ events_size' = IF Cardinality(S) = events_size THEN 2 * events_size
                                                      ELSE events_size
    /\ UNCHANGED <<index_, channels_, epoll, failed>>

-----------------------------------------------------------------------------
(* index_ tells the truth about the kernel: the fds in the interest list    *)
(* are those of the channels marked kadded, and a channel is in the map     *)
(* unless it is new.                                                        *)
IndexesMatch ==
    /\ \A fd \in Fds : fd \in DOMAIN epoll <=> index_[fd] = kadded
    /\ channels_ = {fd \in Fds : index_[fd] # knew}

interest ==
    [fd \in channels_ |-> IF fd \in DOMAIN epoll THEN epoll[fd] ELSE {}]
=============================================================================
