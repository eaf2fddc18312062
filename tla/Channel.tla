------------------------------ MODULE Channel ------------------------------
(***************************************************************************)
(* dwater/net/channel.cc on the two pollers of dwater/net/poller: channels *)
(* are made for fds, ask for events, are removed from the loop and         *)
(* destroyed.  The program uses EpollPoller or, with DWATER_USE_POLL set,  *)
(* PollPoller; here the same calls reach both, side by side, until an      *)
(* assertion of PollPoller fails, or EpollPoller alone.                    *)
(***************************************************************************)
EXTENDS Integers, FiniteSets, Sequences

CONSTANTS
    Fds,
    kinit_event_list_size

ASSUME ChannelAssumption ==
    /\ Fds \subseteq Nat /\ IsFiniteSet(Fds)
    /\ kinit_event_list_size \in Nat \ {0}

VARIABLES
    exists,             \* the fds that have a Channel object
    events_, added_to_loop_,
    side_by_side,       \* whether PollPoller gets the calls, too
    called,             \* history: the fds whose channel some call was made on
    misused,            \* history: the fds whose channel was not enabled first, or
                        \*   was used after its removal
    filled,             \* history: how many events last filled EpollPoller's list
    poll_index, poll_channels, pollfds_, poll_failed,
    epoll_index, epoll_channels, epoll, events_size, epoll_failed

channelVars == <<exists, events_, added_to_loop_, side_by_side, called, misused>>
pollVars == <<poll_index, poll_channels, pollfds_, poll_failed>>
epollVars == <<epoll_index, epoll_channels, epoll, events_size, epoll_failed>>
vars == <<channelVars, filled, pollVars, epollVars>>

PP == INSTANCE PollPoller
    WITH index_ <- poll_index, channels_ <- poll_channels, failed <- poll_failed
EP == INSTANCE EpollPoller
    WITH index_ <- epoll_index, channels_ <- epoll_channels, failed <- epoll_failed

Events == SUBSET {"read", "write"}

Init ==
    /\ exists = {} /\ called = {} /\ misused = {} /\ filled = 0
    /\ side_by_side \in BOOLEAN
    /\ events_ = [fd \in Fds |-> {}] /\ added_to_loop_ = [fd \in Fds |-> FALSE]
    /\ PP!Init /\ EP!Init

-----------------------------------------------------------------------------
InPollPoller(Step) == IF side_by_side THEN Step ELSE UNCHANGED pollVars

(* Channel::Channel *)
NewChannel(fd) ==
    /\ fd \notin exists
    /\ exists' = exists \cup {fd}
    /\ called' = called \ {fd} /\ misused' = misused \ {fd}
    /\ events_' = [events_ EXCEPT ![fd] = {}]
    /\ added_to_loop_' = [added_to_loop_ EXCEPT ![fd] = FALSE]
    /\ InPollPoller(PP!NewChannel(fd)) /\ EP!NewChannel(fd)
    /\ UNCHANGED <<side_by_side, filled>>

(* The first call on a channel enables something, except that ~Acceptor     *)
(* also disables the channel of a server that never listened; and a call    *)
(* may come when the channel has been removed, as from a StartReadInLoop    *)
(* that was queued before ConnectionDestroyed.                              *)
InUse(fd) == added_to_loop_[fd]
Misuse(fd, ev) == IF fd \in called THEN ~InUse(fd) ELSE ev = {}

(* Update() with the events set to ev; EventLoop passes it to its poller *)
Update(fd, ev) ==
    /\ fd \in exists
    /\ called' = called \cup {fd}
    /\ events_' = [events_ EXCEPT ![fd] = ev]
    /\ added_to_loop_' = [added_to_loop_ EXCEPT ![fd] = TRUE]
    /\ misused' = IF Misuse(fd, ev) THEN misused \cup {fd} ELSE misused
    /\ InPollPoller(PP!UpdateChannel(fd, ev)) /\ EP!UpdateChannel(fd, ev)
    /\ UNCHANGED <<exists, side_by_side, filled>>

EnableReading(fd) == Update(fd, events_[fd] \cup {"read"})
EnableWriting(fd) == Update(fd, events_[fd] \cup {"write"})
DisableReading(fd) == fd \in called /\ Update(fd, events_[fd] \ {"read"})
DisableWriting(fd) == fd \in called /\ Update(fd, events_[fd] \ {"write"})
DisableAll(fd) == Update(fd, {})

Remove(fd) ==
    /\ InUse(fd) /\ events_[fd] = {}
    /\ added_to_loop_' = [added_to_loop_ EXCEPT ![fd] = FALSE]
    /\ InPollPoller(PP!RemoveChannel(fd, events_[fd])) /\ EP!RemoveChannel(fd, events_[fd])
    /\ UNCHANGED <<exists, events_, side_by_side, called, misused, filled>>

(* Channel::~Channel, whose assertion every owner sees to; the fd is closed *)
(* and may come back for a new channel                                      *)
DeleteChannel(fd) ==
    /\ fd \in exists /\ ~added_to_loop_[fd]
    /\ exists' = exists \ {fd}
    /\ UNCHANGED <<events_, added_to_loop_, side_by_side, called, misused, filled,
                   pollVars, epollVars>>

(* what may have happened on the fds; which channels are active follows     *)
(* from one event each                                                      *)
Happenings == [Fds -> {{}, {"read"}, {"write"}, {"hup"}}]

(* a channel is not tied, or tied to an object that exists, or to one that  *)
(* is gone                                                                  *)
Ties == {"untied", "held", "gone"}

(* Channel::HandleEvent: the callbacks it calls, in order, for a channel    *)
(* that has them all; none for a tied object that is gone.  A hang-up with  *)
(* nothing to read goes to error_callback_: close_callback_ is only tested. *)
HandleEventWithGuard(revents) ==
    (IF "hup" \in revents /\ "read" \notin revents THEN <<"error">> ELSE <<>>)
        \o (IF revents \cap {"err", "nval"} # {} THEN <<"error">> ELSE <<>>)
        \o (IF revents \cap {"read", "pri", "rdhup"} # {} THEN <<"read">> ELSE <<>>)
        \o (IF "write" \in revents THEN <<"write">> ELSE <<>>)
HandleEvent(tie, revents) ==
    IF tie = "gone" THEN <<>> ELSE HandleEventWithGuard(revents)

Poll ==
    /\ \E S \in UNION {EP!Returned(ready) : ready \in Happenings} :
        /\ EP!Poll(S)
        /\ filled' = IF Cardinality(S) = events_size THEN events_size ELSE filled
    /\ UNCHANGED <<channelVars, pollVars>>

Next ==
    /\ ~epoll_failed /\ poll_failed = {}
    /\ \/ Poll
       \/ \E fd \in Fds :
            \/ NewChannel(fd) \/ DeleteChannel(fd) \/ Remove(fd)
            \/ EnableReading(fd) \/ EnableWriting(fd)
            \/ DisableReading(fd) \/ DisableWriting(fd) \/ DisableAll(fd)

Spec == Init /\ [][Next]_vars

-----------------------------------------------------------------------------
(* The channels of the loop exist, and EpollPoller's list of events grows to *)
(* twice the fds at most.                                                    *)
TypeOK ==
    /\ exists \subseteq Fds
    /\ events_ \in [Fds -> Events] /\ added_to_loop_ \in [Fds -> BOOLEAN]
    /\ epoll_channels = {fd \in Fds : added_to_loop_[fd]}
    /\ epoll_channels \subseteq exists
    /\ events_size \in kinit_event_list_size ..
                        2 * (kinit_event_list_size + Cardinality(Fds))

(* No epoll_ctl is refused by the kernel and no assertion of the pollers     *)
(* fails, whatever the order in which channels come, change, go and come     *)
(* back for the same fd, but in two calls to PollPoller.  It enters a        *)
(* channel whose first call is DisableAll, as in ~Acceptor of a server that  *)
(* never listened, with a visible fd, and its removal asserts a hidden one.  *)
(* And a removed channel keeps its index, so that a call that comes late     *)
(* asserts an entry that is gone, where EpollPoller takes the channel back.  *)
NoAssertFails == ~epoll_failed /\ poll_failed \subseteq misused

(* PollPoller has got the calls so far, and no assertion of it failed. *)
Compared == side_by_side /\ poll_failed = {}

(* The index each channel keeps leads PollPoller to the entry of that very   *)
(* channel, and tells EpollPoller the truth about the kernel's list; and     *)
(* what the kernel was asked for last, in either way, is what the channels   *)
(* of the loop want.                                                         *)
KernelFollowsChannels ==
    LET wanted == [fd \in {f \in Fds : added_to_loop_[f]} |-> events_[fd]]
    IN  /\ TypeOK /\ NoAssertFails
        /\ EP!IndexesMatch /\ EP!interest = wanted
        /\ Compared => PP!IndexesMatch /\ PP!interest = wanted

Wanting(S) == {fd \in S : events_[fd] # {}}

(* Whatever happens on the fds, what EpollPoller's Poll can give the loop is *)
(* what PollPoller's gives, as far as the list of events has room: it makes  *)
(* up no channel, holds one back only when the list is full, and a list that *)
(* was full has more room the next time.  Channels that want nothing are     *)
(* reported for a hang-up by epoll when they were disabled twice, by poll    *)
(* when they were never enabled.  Every channel reported has a callback      *)
(* called, unless it is tied to an object that is gone.                      *)
SameActive ==
    /\ filled < events_size
    /\ Compared => \A ready \in Happenings :
        LET active == PP!Active(ready)
        IN  /\ active \subseteq Wanting(active) \cup misused
            /\ \A S \in EP!Returned(ready) :
                /\ Wanting(S) \subseteq active
                /\ Cardinality(S) < events_size => Wanting(active) \subseteq S
                /\ \A fd \in active \cup S, tie \in Ties :
                        HandleEvent(tie, ready[fd]) = <<>> <=> tie = "gone"

PollAbstract == INSTANCE Poller WITH interest <- PP!interest
EpollAbstract == INSTANCE Poller WITH interest <- EP!interest

(* Both pollers implement the interface Poller: a call changes the interest  *)
(* in the channel it is about and in no other.                               *)
ImplementPoller == PollAbstract!Spec /\ EpollAbstract!Spec
=============================================================================
