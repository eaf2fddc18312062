----------------------------- MODULE PollPoller -----------------------------
(***************************************************************************)
(* dwater/net/poller/poll_poller.cc: the pollfd array of poll(2), in which *)
(* each channel keeps the index of its entry.  An entry whose channel      *)
(* wants nothing has its fd turned negative, so that poll ignores it; a    *)
(* removed entry is swapped with the last one.  Entry i of the vector,     *)
(* counted from 0 in the code, is pollfds_[i + 1] here.                    *)
(***************************************************************************)
EXTENDS Integers, Sequences, FiniteSets, Functions

CONSTANT Fds     \* a set of natural numbers

VARIABLES
    index_,         \* Channel::index_ of the channel of each fd
    channels_,      \* the fds in the map
    pollfds_,
    failed          \* the fds in whose calls an assertion failed

vars == <<index_, channels_, pollfds_, failed>>

knew == -1
Hidden(fd) == -fd - 1
Pollfd(fd, ev) == [fd |-> fd, events |-> ev]

(* Channel::Channel *)
Init ==
    /\ index_ = [fd \in Fds |-> knew]
    /\ channels_ = {} /\ pollfds_ = <<>> /\ failed = {}

(* the entry of a channel, and what is asserted of it *)
EntryOf(fd) == pollfds_[index_[fd] + 1]
HasEntry(fd) ==
    /\ fd \in channels_
    /\ index_[fd] + 1 \in DOMAIN pollfds_
    /\ EntryOf(fd).fd \in {fd, Hidden(fd)}

(* assert(A) in a call for fd, which ends the process if it fails, and then *)
(* the step                                                                 *)
Asserting(fd, A, Step) ==
    IF A THEN Step /\ UNCHANGED failed
         ELSE failed' = failed \cup {fd} /\ UNCHANGED <<index_, channels_, pollfds_>>

(* mutant: a channel that wants nothing stays visible *)
ShownAlways(fd, ev) == fd

(* what poll sees of a channel in the array *)
Shown(fd, ev) == IF ev = {} THEN Hidden(fd) ELSE fd

(* for a channel whose events_ is now ev *)
UpdateChannel(fd, ev) ==
    IF index_[fd] < 0
      THEN Asserting(fd, fd \notin channels_,
                  /\ pollfds_' = Append(pollfds_, Pollfd(fd, ev))
                  /\ index_' = [index_ EXCEPT ![fd] = Len(pollfds_)]
                  /\ channels_' = channels_ \cup {fd})
      ELSE Asserting(fd, HasEntry(fd),
                  /\ pollfds_' = [pollfds_ EXCEPT ![index_[fd] + 1] =
                                    Pollfd(Shown(fd, ev), ev)]
                  /\ UNCHANGED <<index_, channels_>>)

LastEntry == pollfds_[Len(pollfds_)]

(* channel_an_end: the fd of the last entry, hidden or not *)
FdAtEnd == IF LastEntry.fd < 0 THEN Hidden(LastEntry.fd) ELSE LastEntry.fd

(* mutant: the last entry is popped and not put anywhere *)
SwappedNot(fd) == SubSeq(pollfds_, 1, Len(pollfds_) - 1)

(* the array with the last entry in the place of fd's *)
Swapped(fd) ==
    [i \in 1 .. Len(pollfds_) - 1 |->
        IF i = index_[fd] + 1 THEN LastEntry ELSE pollfds_[i]]

(* mutant: the channel of the entry swapped in keeps its index *)
SwapAndPopOnly(fd) ==
    /\ pollfds_' = Swapped(fd)
    /\ UNCHANGED index_

SwapAndPop(fd) ==
    /\ pollfds_' = Swapped(fd)
    /\ index_' = IF FdAtEnd = fd THEN index_
                 ELSE [index_ EXCEPT ![FdAtEnd] = index_[fd]]

(* for a channel whose events_ is ev *)
RemoveChannel(fd, ev) ==
    Asserting(fd,
           /\ ev = {} /\ HasEntry(fd)
           /\ EntryOf(fd) = Pollfd(Hidden(fd), ev),
           SwapAndPop(fd) /\ channels_' = channels_ \ {fd})

(* A channel object is destroyed and another one made for the fd.  (A       *)
(* removed channel keeps its index: a later call on it asserts an entry.)   *)
NewChannel(fd) ==
    index_' = [index_ EXCEPT ![fd] = knew] /\ UNCHANGED <<channels_, pollfds_, failed>>

(* poll(2) and FillActiveChannels, when the fds `ready` gives them are      *)
(* ready for some events, or have hung up                                   *)
Active(ready) ==
    {p.fd : p \in {q \in Range(pollfds_) :
                    q.fd >= 0 /\ ready[q.fd] \cap (q.events \cup {"hup"}) # {}}}

-----------------------------------------------------------------------------
(* The index of every channel in the map leads to its own entry, however    *)
(* often entries were swapped and hidden, and no other entry exists.        *)
IndexesMatch ==
    /\ \A fd \in channels_ : HasEntry(fd)
    /\ Len(pollfds_) = Cardinality(channels_)
    /\ \A fd, g \in channels_ : fd # g => index_[fd] # index_[g]

interest == [fd \in channels_ |-> EntryOf(fd).events]
=============================================================================
