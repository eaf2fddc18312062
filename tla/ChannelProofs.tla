---------------------------- MODULE ChannelProofs ----------------------------
(***************************************************************************)
(* Proofs about Channel and the two pollers, for any finite set of         *)
(* descriptors.                                                            *)
(***************************************************************************)
EXTENDS Channel, SequenceTheorems, FiniteSetTheorems, TLAPS

Entry == [fd : Int, events : Events]

(* arr is an array of entries in which idx leads every channel of chans to  *)
(* its own, and every entry belongs to a channel.                           *)
Indexed(idx, chans, arr) ==
    /\ idx \in [Fds -> Int] /\ chans \subseteq Fds /\ IsFiniteSet(chans)
    /\ arr \in Seq(Entry)
    /\ Len(arr) = Cardinality(chans)
    /\ \A fd \in chans : /\ idx[fd] + 1 \in 1 .. Len(arr)
                         /\ arr[idx[fd] + 1].fd \in {fd, -fd - 1}
    /\ \A fd, g \in chans : fd # g => idx[fd] # idx[g]
    /\ \A i \in 1 .. Len(arr) : \E g \in chans : idx[g] + 1 = i

(* A new entry at the end, for a channel that has none. *)
Appended(idx, chans, arr, fd, e, new, arr2) ==
    /\ Indexed(idx, chans, arr)
    /\ fd \in Fds \ chans /\ e \in Entry /\ e.fd \in {fd, -fd - 1}
    /\ new \in [Fds -> Int] /\ new[fd] = Len(arr)
    /\ \A g \in chans : new[g] = idx[g]
    /\ arr2 = Append(arr, e)

AfterAppend(idx, chans, arr, fd, e, new, arr2) ==
    /\ Indexed(new, chans \cup {fd}, arr2)
    /\ arr2[new[fd] + 1] = e
    /\ \A g \in chans : arr2[new[g] + 1] = arr[idx[g] + 1]

LEMMA AppendIndexed ==
    ASSUME NEW idx, NEW chans, NEW arr, NEW fd, NEW e, NEW new, NEW arr2,
           Appended(idx, chans, arr, fd, e, new, arr2)
    PROVE  AfterAppend(idx, chans, arr, fd, e, new, arr2)
<1> USE DEF AfterAppend
<1>0. /\ Indexed(idx, chans, arr)
      /\ fd \in Fds \ chans /\ e \in Entry /\ e.fd \in {fd, -fd - 1}
      /\ arr2 = Append(arr, e)
  BY DEF Appended
<1>1. Len(arr) \in Nat /\ arr \in Seq(Entry)
  BY <1>0, LenProperties DEF Indexed
<1>2. /\ arr2 \in Seq(Entry) /\ Len(arr2) = Len(arr) + 1
      /\ \A i \in 1 .. Len(arr) : arr2[i] = arr[i]
      /\ arr2[Len(arr) + 1] = e
  BY <1>0, <1>1, AppendProperties
<1>3. new \in [Fds -> Int] /\ new[fd] = Len(arr) /\ \A g \in chans : new[g] = idx[g]
  BY DEF Appended
<1>4. IsFiniteSet(chans \cup {fd}) /\ Cardinality(chans \cup {fd}) = Len(arr) + 1
  BY <1>0, FS_AddElement DEF Indexed
<1>5. \A g \in chans : idx[g] + 1 \in 1 .. Len(arr) /\ idx[g] \in Int
  BY <1>0 DEF Indexed
<1>6. \A g \in chans : arr2[new[g] + 1] = arr[idx[g] + 1]
  BY <1>2, <1>3, <1>5
<1>7. \A g \in chans \cup {fd} : /\ new[g] + 1 \in 1 .. Len(arr2)
                                 /\ arr2[new[g] + 1].fd \in {g, -g - 1}
  BY <1>0, <1>1, <1>2, <1>3, <1>5, <1>6 DEF Indexed
<1>8. \A g, h \in chans \cup {fd} : g # h => new[g] # new[h]
  BY <1>0, <1>1, <1>3, <1>5 DEF Indexed
<1>9. \A i \in 1 .. Len(arr2) : \E g \in chans \cup {fd} : new[g] + 1 = i
  <2> SUFFICES ASSUME NEW i \in 1 .. Len(arr2)
               PROVE  \E g \in chans \cup {fd} : new[g] + 1 = i
    OBVIOUS
  <2>1. CASE i = Len(arr) + 1
    BY <2>1, <1>3
  <2>2. CASE i \in 1 .. Len(arr)
    BY <2>2, <1>0, <1>3 DEF Indexed
  <2> QED
    BY <2>1, <2>2, <1>1, <1>2
<1>10. Indexed(new, chans \cup {fd}, arr2)
  BY <1>0, <1>2, <1>3, <1>4, <1>7, <1>8, <1>9 DEF Indexed
<1> QED
  BY <1>2, <1>3, <1>6, <1>10

(* The entry of a channel is written again. *)
Rewritten(idx, chans, arr, fd, e, new) ==
    /\ Indexed(idx, chans, arr)
    /\ fd \in chans /\ e \in Entry /\ e.fd \in {fd, -fd - 1}
    /\ new \in Seq(Entry) /\ Len(new) = Len(arr)
    /\ \A i \in 1 .. Len(arr) : new[i] = IF i = idx[fd] + 1 THEN e ELSE arr[i]

LEMMA ExceptIndexed ==
    ASSUME NEW idx, NEW chans, NEW arr, NEW fd, NEW e, NEW new,
           Rewritten(idx, chans, arr, fd, e, new)
    PROVE  /\ Indexed(idx, chans, new)
           /\ new[idx[fd] + 1] = e
           /\ \A g \in chans \ {fd} : new[idx[g] + 1] = arr[idx[g] + 1]
<1> DEFINE k == idx[fd] + 1
<1>0. Indexed(idx, chans, arr) /\ fd \in chans /\ e \in Entry /\ e.fd \in {fd, -fd - 1}
  BY DEF Rewritten
<1>1. arr \in Seq(Entry) /\ k \in 1 .. Len(arr) /\ idx \in [Fds -> Int]
      /\ \A g \in chans : idx[g] \in Int
  BY <1>0 DEF Indexed
<1>2. /\ new \in Seq(Entry) /\ Len(new) = Len(arr)
      /\ \A i \in 1 .. Len(arr) : new[i] = IF i = k THEN e ELSE arr[i]
  BY DEF Rewritten
<1>3. \A g \in chans \ {fd} : idx[g] + 1 \in 1 .. Len(arr) /\ idx[g] + 1 # k
  BY <1>0, <1>1 DEF Indexed
<1> HIDE DEF k
<1>4. new[k] = e /\ \A g \in chans \ {fd} : new[idx[g] + 1] = arr[idx[g] + 1]
  BY <1>1, <1>2, <1>3
<1>5. \A g \in chans : /\ idx[g] + 1 \in 1 .. Len(new)
                       /\ new[idx[g] + 1].fd \in {g, -g - 1}
  BY <1>0, <1>2, <1>4 DEF Indexed, k
<1>6. Indexed(idx, chans, new)
  BY <1>0, <1>2, <1>5 DEF Indexed
<1> QED
  BY <1>4, <1>6 DEF k

(* The descriptor an entry is for, hidden or not. *)
FdOf(e) == IF e.fd < 0 THEN -e.fd - 1 ELSE e.fd

(* The last entry takes the place of a channel's that goes, and the channel *)
(* it belongs to is given the new index.                                    *)
SwappedOut(idx, chans, arr, fd, end, new, arr2) ==
    /\ Indexed(idx, chans, arr) /\ fd \in chans
    /\ end = FdOf(arr[Len(arr)])
    /\ arr2 \in Seq(Entry) /\ Len(arr2) = Len(arr) - 1
    /\ \A i \in 1 .. Len(arr) - 1 :
            arr2[i] = IF i = idx[fd] + 1 THEN arr[Len(arr)] ELSE arr[i]
    /\ new \in [Fds -> Int]
    /\ end # fd => new[end] = idx[fd]
    /\ \A g \in chans \ {fd} : g # end => new[g] = idx[g]

LEMMA SwapIndexed ==
    ASSUME NEW idx, NEW chans, NEW arr, NEW fd, NEW end, NEW new, NEW arr2,
           SwappedOut(idx, chans, arr, fd, end, new, arr2)
    PROVE  /\ Indexed(new, chans \ {fd}, arr2)
           /\ \A g \in chans \ {fd} : arr2[new[g] + 1] = arr[idx[g] + 1]
<1> DEFINE n == Len(arr)
           k == idx[fd] + 1
           rest == chans \ {fd}
<1>0. Indexed(idx, chans, arr) /\ fd \in chans /\ end = FdOf(arr[n])
  BY DEF SwappedOut
<1>1. /\ idx \in [Fds -> Int] /\ arr \in Seq(Entry) /\ n \in Nat
      /\ k \in 1 .. n /\ n - 1 \in Nat /\ n \in 1 .. n
      /\ \A g \in chans : g \in Nat /\ idx[g] \in Int /\ idx[g] + 1 \in 1 .. n
      /\ \A i \in 1 .. n : arr[i] \in Entry
  <2>1. idx \in [Fds -> Int] /\ arr \in Seq(Entry) /\ chans \subseteq Nat /\ chans \subseteq Fds
    BY <1>0, ChannelAssumption DEF Indexed
  <2>2. n \in Nat /\ \A i \in 1 .. n : arr[i] \in Entry
    BY <2>1, LenProperties, ElementOfSeq
  <2>3. \A g \in chans : g \in Nat /\ idx[g] \in Int /\ idx[g] + 1 \in 1 .. n
    BY <1>0, <2>1 DEF Indexed
  <2> QED
    BY <1>0, <2>1, <2>2, <2>3
<1>2. PICK z \in chans : idx[z] + 1 = n
  BY <1>0, <1>1 DEF Indexed
<1>3. end = z
  <2>1. arr[n].fd \in {z, -z - 1} /\ z \in Nat
    BY <1>0, <1>1, <1>2 DEF Indexed
  <2> QED
    BY <1>0, <2>1 DEF FdOf
<1>5. arr2 \in Seq(Entry) /\ Len(arr2) = n - 1
  BY DEF SwappedOut
<1>6. /\ IsFiniteSet(rest) /\ Cardinality(rest) = n - 1
  BY <1>0, FS_RemoveElement DEF Indexed
<1>7. /\ new \in [Fds -> Int]
      /\ z # fd => new[z] = idx[fd]
      /\ \A g \in rest : g # z => new[g] = idx[g]
  BY <1>3 DEF SwappedOut
<1>8. \A i \in 1 .. n - 1 : arr2[i] = IF i = k THEN arr[n] ELSE arr[i]
  BY DEF SwappedOut
<1>9. \A g, h \in chans : g # h => idx[g] # idx[h]
  BY <1>0 DEF Indexed
<1>10. rest \subseteq Fds
  BY <1>0 DEF Indexed
<1>11. \A g \in rest : new[g] + 1 \in 1 .. n - 1 /\ arr2[new[g] + 1] = arr[idx[g] + 1]
  <2> SUFFICES ASSUME NEW g \in rest
               PROVE  new[g] + 1 \in 1 .. n - 1 /\ arr2[new[g] + 1] = arr[idx[g] + 1]
    OBVIOUS
  <2> HIDE DEF n, k
  <2>1. CASE g = z
    <3>1. new[g] + 1 = k /\ k # n
      <4>1. g \in chans /\ z \in chans /\ g # fd /\ g = z
        BY <2>1
      <4>2. new[g] = idx[fd] /\ idx[g] # idx[fd] /\ idx[g] + 1 = n
        BY <4>1, <1>0, <1>2, <1>7, <1>9
      <4> QED
        BY <4>1, <4>2, <1>0, <1>1 DEF k
    <3>2. k \in 1 .. n - 1
      BY <3>1, <1>1
    <3>3. arr2[k] = arr[n]
      BY <3>2, <1>8
    <3> QED
      BY <2>1, <3>1, <3>2, <3>3, <1>2
  <2>2. CASE g # z
    <3>1. new[g] = idx[g] /\ idx[g] + 1 # n /\ idx[g] + 1 # k
      <4>1. g \in chans /\ g # fd /\ g # z
        BY <2>2
      <4>2. new[g] = idx[g] /\ idx[g] # idx[fd] /\ idx[g] # idx[z]
        BY <4>1, <1>0, <1>2, <1>7, <1>9
      <4> QED
        BY <4>1, <4>2, <1>0, <1>1, <1>2 DEF k
    <3>2. idx[g] + 1 \in 1 .. n - 1
      BY <3>1, <1>1
    <3>3. arr2[idx[g] + 1] = arr[idx[g] + 1]
      BY <3>1, <3>2, <1>8
    <3> QED
      BY <3>1, <3>2, <3>3
  <2> QED
    BY <2>1, <2>2
<1>12. \A g \in rest : arr2[new[g] + 1].fd \in {g, -g - 1}
  BY <1>0, <1>11 DEF Indexed
<1>13. \A g, h \in rest : g # h => new[g] # new[h]
  <2> SUFFICES ASSUME NEW g \in rest, NEW h \in rest, g # h PROVE new[g] # new[h]
    OBVIOUS
  <2>1. g \in chans /\ h \in chans /\ g # fd /\ h # fd
    OBVIOUS
  <2>2. new[g] = IF g = z THEN idx[fd] ELSE idx[g]
    BY <1>7, <2>1
  <2>3. new[h] = IF h = z THEN idx[fd] ELSE idx[h]
    BY <1>7, <2>1
  <2> QED
    BY <1>0, <1>9, <2>1, <2>2, <2>3
<1>14. \A i \in 1 .. n - 1 : \E g \in rest : new[g] + 1 = i
  <2> SUFFICES ASSUME NEW i \in 1 .. n - 1 PROVE \E g \in rest : new[g] + 1 = i
    OBVIOUS
  <2>1. PICK g \in chans : idx[g] + 1 = i
    <3>1. i \in 1 .. n
      BY <1>1
    <3> QED
      BY <1>0, <3>1 DEF Indexed
  <2>2. g # z /\ i # n
    BY <1>1, <1>2, <2>1
  <2>3. CASE g = fd
    BY <2>1, <2>2, <2>3, <1>7
  <2>4. CASE g # fd
    BY <2>1, <2>2, <2>4, <1>7
  <2> QED
    BY <2>3, <2>4
<1>15. Indexed(new, rest, arr2)
  <2> HIDE DEF rest, n
  <2> QED
    BY <1>5, <1>6, <1>7, <1>10, <1>11, <1>12, <1>13, <1>14 DEF Indexed
<1> QED
  BY <1>11, <1>15

-----------------------------------------------------------------------------
(* what the channels in the loop want *)
InLoop == {fd \in Fds : added_to_loop_[fd]}
Wanted == [fd \in InLoop |-> events_[fd]]

(* The channels and EpollPoller: the kernel's list holds the events of the  *)
(* channels marked kadded, and the others in the map want nothing.          *)
EpollHolds ==
    /\ exists \subseteq Fds
    /\ events_ \in [Fds -> Events] /\ added_to_loop_ \in [Fds -> BOOLEAN]
    /\ InLoop \subseteq exists
    /\ epoll_index \in [Fds -> {-1, 1, 2}]
    /\ epoll_channels = InLoop
    /\ EP!IndexesMatch
    /\ DOMAIN epoll \subseteq Fds
    /\ epoll = [fd \in DOMAIN epoll |-> events_[fd]]
    /\ \A fd \in InLoop : fd \notin DOMAIN epoll => events_[fd] = {}
    /\ epoll_failed = FALSE

EpollHasRoom ==
    /\ events_size \in kinit_event_list_size .. 2 * (kinit_event_list_size + Cardinality(Fds))
    /\ filled \in Nat /\ filled < events_size

(* PollPoller: the entry of every channel in the loop has its events, and   *)
(* is hidden exactly when there are none, unless they were never enabled;   *)
(* an index that was given stays with a channel after its removal.          *)
PollHolds ==
    /\ poll_channels = InLoop
    /\ \A fd \in Fds : poll_index[fd] >= 0 => fd \in called
    /\ Indexed(poll_index, poll_channels, pollfds_)
    /\ \A fd \in InLoop :
         \/ pollfds_[poll_index[fd] + 1]
               = [fd |-> IF events_[fd] = {} THEN -fd - 1 ELSE fd, events |-> events_[fd]]
         \/ /\ fd \in misused /\ events_[fd] = {}
            /\ pollfds_[poll_index[fd] + 1] = [fd |-> fd, events |-> {}]

PollHoldsOrFailed ==
    /\ side_by_side \in BOOLEAN
    /\ poll_failed \subseteq misused
    /\ ~side_by_side => poll_failed = {}
    /\ Compared => PollHolds

ChannelInv == EpollHolds /\ EpollHasRoom /\ PollHoldsOrFailed

(* Update of a channel, in EpollPoller, which also takes back a removed one. *)
LEMMA UpdateEpoll ==
    ASSUME EpollHolds, NEW fd \in Fds, NEW ev \in Events, Update(fd, ev)
    PROVE  EpollHolds' /\ InLoop' = InLoop \cup {fd}
<1> USE DEF EpollHolds
<1>1. /\ InLoop' = InLoop \cup {fd} /\ exists' = exists /\ fd \in exists
      /\ events_' \in [Fds -> Events] /\ added_to_loop_' \in [Fds -> BOOLEAN]
      /\ events_'[fd] = ev /\ \A g \in Fds \ {fd} : events_'[g] = events_[g]
  BY DEF Update, InLoop
<1>2. EP!UpdateChannel(fd, ev)
  BY DEF Update
<1>3. /\ \A g \in Fds : g \in DOMAIN epoll <=> epoll_index[g] = 1
      /\ InLoop = {g \in Fds : epoll_index[g] # -1}
  BY DEF EP!IndexesMatch, EP!kadded, EP!knew
<1>4. CASE epoll_index[fd] \in {-1, 2}
  <2>1. /\ epoll_channels' = InLoop \cup {fd}
        /\ epoll_index' = [epoll_index EXCEPT ![fd] = 1]
        /\ epoll' = [f \in DOMAIN epoll \cup {fd} |-> IF f = fd THEN ev ELSE epoll[f]]
        /\ epoll_failed' = FALSE
    BY <1>2, <1>3, <1>4
    DEF EP!UpdateChannel, EP!Asserting, EP!Ask, EP!knew, EP!kadded, EP!kdelete
  <2>2. DOMAIN epoll' = DOMAIN epoll \cup {fd}
    BY <2>1
  <2>3. epoll' = [f \in DOMAIN epoll' |-> events_'[f]]
    BY <1>1, <2>1, <2>2
  <2>4. EP!IndexesMatch'
    BY <1>3, <2>1, <2>2 DEF EP!IndexesMatch, EP!kadded, EP!knew
  <2> QED
    BY <1>1, <2>1, <2>2, <2>3, <2>4
<1>5. CASE epoll_index[fd] = 1
  <2>1. fd \in InLoop /\ fd \in DOMAIN epoll
    BY <1>3, <1>5
  <2>2. /\ epoll_channels' = epoll_channels /\ epoll_failed' = FALSE
        /\ EP!UpdateAdded(fd, ev)
    BY <1>2, <1>3, <1>5, <2>1
    DEF EP!UpdateChannel, EP!Asserting, EP!knew, EP!kadded, EP!kdelete
  <2>3. CASE ev = {}
    <3>1. /\ epoll_index' = [epoll_index EXCEPT ![fd] = 2]
          /\ epoll' = [f \in DOMAIN epoll \ {fd} |-> epoll[f]]
      BY <2>2, <2>3 DEF EP!UpdateAdded, EP!Forget, EP!Restrict, EP!kdelete
    <3>2. DOMAIN epoll' = DOMAIN epoll \ {fd}
      BY <3>1
    <3>3. epoll' = [f \in DOMAIN epoll' |-> events_'[f]]
      BY <1>1, <3>1, <3>2
    <3>4. EP!IndexesMatch'
      BY <1>3, <2>1, <2>2, <3>1, <3>2 DEF EP!IndexesMatch, EP!kadded, EP!knew
    <3> QED
      BY <1>1, <2>1, <2>2, <2>3, <3>1, <3>2, <3>3, <3>4
  <2>4. CASE ev # {}
    <3>1. /\ epoll_index' = epoll_index
          /\ epoll' = [f \in DOMAIN epoll \cup {fd} |-> IF f = fd THEN ev ELSE epoll[f]]
      BY <2>2, <2>4 DEF EP!UpdateAdded, EP!Ask
    <3>2. DOMAIN epoll' = DOMAIN epoll
      BY <2>1, <3>1
    <3>3. epoll' = [f \in DOMAIN epoll' |-> events_'[f]]
      BY <1>1, <2>1, <3>1, <3>2
    <3>4. EP!IndexesMatch'
      BY <1>3, <2>1, <2>2, <3>1, <3>2 DEF EP!IndexesMatch, EP!kadded, EP!knew
    <3> QED
      BY <1>1, <2>1, <2>2, <3>1, <3>2, <3>3, <3>4
  <2> QED
    BY <2>3, <2>4
<1> QED
  BY <1>4, <1>5

(* Removal of a channel from EpollPoller. *)
LEMMA RemoveEpoll ==
    ASSUME EpollHolds, NEW fd \in Fds, Remove(fd)
    PROVE  EpollHolds' /\ InLoop' = InLoop \ {fd} /\ fd \in InLoop
<1> USE DEF EpollHolds
<1>1. /\ InLoop' = InLoop \ {fd} /\ exists' = exists /\ events_' = events_
      /\ added_to_loop_' \in [Fds -> BOOLEAN] /\ fd \in InLoop /\ events_[fd] = {}
  BY DEF Remove, InLoop, InUse
<1>2. /\ \A g \in Fds : g \in DOMAIN epoll <=> epoll_index[g] = 1
      /\ InLoop = {g \in Fds : epoll_index[g] # -1}
  BY DEF EP!IndexesMatch, EP!kadded, EP!knew
<1>3. /\ epoll_channels' = epoll_channels \ {fd} /\ epoll_failed' = FALSE
      /\ epoll_index' = [epoll_index EXCEPT ![fd] = -1]
      /\ IF epoll_index[fd] = 1 THEN EP!Forget(fd) ELSE epoll' = epoll
  BY <1>1, <1>2 DEF Remove, EP!RemoveChannel, EP!Asserting, EP!kadded, EP!knew, EP!kdelete
<1>4. DOMAIN epoll' = DOMAIN epoll \ {fd} /\ epoll' = [f \in DOMAIN epoll' |-> events_[f]]
  BY <1>2, <1>3 DEF EP!Forget, EP!Restrict
<1>5. EP!IndexesMatch'
  BY <1>1, <1>2, <1>3, <1>4 DEF EP!IndexesMatch, EP!kadded, EP!knew
<1> QED
  BY <1>1, <1>2, <1>3, <1>4, <1>5

(* Update in PollPoller: the assertions hold, and the entry follows, but    *)
(* for a channel that was removed.                                          *)
LEMMA UpdatePoll ==
    ASSUME EpollHolds, PollHolds, side_by_side = TRUE, poll_failed = {},
           NEW fd \in Fds, NEW ev \in Events, Update(fd, ev)
    PROVE  \/ PollHolds' /\ poll_failed' = {}
           \/ /\ poll_failed' = {fd} /\ fd \in misused'
              /\ UNCHANGED <<poll_index, poll_channels, pollfds_>>
<1>1. /\ InLoop' = InLoop \cup {fd} /\ InLoop \subseteq Fds
      /\ events_'[fd] = ev /\ \A g \in Fds \ {fd} : events_'[g] = events_[g]
      /\ \A g \in InLoop : g \in misused => g \in misused'
      /\ called' = called \cup {fd}
      /\ fd \notin InLoop /\ (ev = {} \/ fd \in called) => fd \in misused'
  BY DEF Update, InLoop, EpollHolds, Misuse, InUse
<1>2. PP!UpdateChannel(fd, ev)
  BY DEF Update, InPollPoller
<1>3. /\ Indexed(poll_index, InLoop, pollfds_) /\ poll_channels = InLoop
      /\ \A g \in Fds : poll_index[g] >= 0 => g \in called
      /\ poll_index \in [Fds -> Int] /\ pollfds_ \in Seq(Entry)
      /\ \A g \in InLoop : /\ poll_index[g] + 1 \in 1 .. Len(pollfds_)
                            /\ pollfds_[poll_index[g] + 1].fd \in {g, -g - 1}
  BY DEF PollHolds, Indexed
<1>4. fd \in Nat
  BY ChannelAssumption
<1>5. fd \in InLoop => poll_index[fd] >= 0
  BY <1>3
<1>8. CASE fd \notin InLoop /\ poll_index[fd] >= 0
  <2>1. ~PP!HasEntry(fd) /\ ~(poll_index[fd] < 0)
    BY <1>3, <1>8 DEF PP!HasEntry
  <2>2. poll_failed' = {fd} /\ UNCHANGED <<poll_index, poll_channels, pollfds_>>
    BY <1>2, <2>1 DEF PP!UpdateChannel, PP!Asserting
  <2> QED
    BY <1>1, <1>3, <1>8, <2>2
<1>6. CASE fd \notin InLoop /\ poll_index[fd] < 0
  <2> DEFINE e == [fd |-> fd, events |-> ev]
  <2>1. /\ pollfds_' = Append(pollfds_, e)
        /\ poll_index' = [poll_index EXCEPT ![fd] = Len(pollfds_)]
        /\ poll_channels' = InLoop \cup {fd} /\ poll_failed' = poll_failed
    BY <1>2, <1>3, <1>5, <1>6 DEF PP!UpdateChannel, PP!Asserting, PP!Pollfd
  <2>2. e \in Entry /\ e.fd = fd
    BY <1>4 DEF Entry
  <2> HIDE DEF e
  <2>a. /\ poll_index' \in [Fds -> Int] /\ poll_index'[fd] = Len(pollfds_)
        /\ \A g \in InLoop : poll_index'[g] = poll_index[g]
        /\ fd \in Fds \ InLoop
    BY <1>1, <1>3, <1>6, <2>1, LenProperties
  <2>3. /\ Indexed(poll_index', InLoop \cup {fd}, pollfds_')
        /\ pollfds_'[poll_index'[fd] + 1] = e
        /\ \A g \in InLoop : pollfds_'[poll_index'[g] + 1] = pollfds_[poll_index[g] + 1]
    <3>1. Appended(poll_index, InLoop, pollfds_, fd, e, poll_index', pollfds_')
      BY <1>3, <2>1, <2>2, <2>a DEF Appended
    <3>2. AfterAppend(poll_index, InLoop, pollfds_, fd, e, poll_index', pollfds_')
      BY <3>1, AppendIndexed
    <3> QED
      BY <3>2 DEF AfterAppend
  <2> QED
    <3>1. pollfds_'[poll_index'[fd] + 1] = [fd |-> fd, events |-> events_'[fd]]
      BY <1>1, <2>3 DEF e
    <3>2. events_'[fd] = {} => fd \in misused'
      BY <1>1, <1>6
    <3>3. \A g \in InLoop : /\ events_'[g] = events_[g]
                             /\ pollfds_'[poll_index'[g] + 1] = pollfds_[poll_index[g] + 1]
      BY <1>1, <1>6, <2>3
    <3>4. \A g \in InLoop' :
            \/ pollfds_'[poll_index'[g] + 1]
               = [fd |-> IF events_'[g] = {} THEN -g - 1 ELSE g, events |-> events_'[g]]
            \/ /\ g \in misused' /\ events_'[g] = {}
               /\ pollfds_'[poll_index'[g] + 1] = [fd |-> g, events |-> {}]
      <4> SUFFICES ASSUME NEW g \in InLoop'
                   PROVE  \/ pollfds_'[poll_index'[g] + 1]
                             = [fd |-> IF events_'[g] = {} THEN -g - 1 ELSE g,
                                events |-> events_'[g]]
                          \/ /\ g \in misused' /\ events_'[g] = {}
                             /\ pollfds_'[poll_index'[g] + 1] = [fd |-> g, events |-> {}]
        OBVIOUS
      <4>1. CASE g = fd
        BY <3>1, <3>2, <4>1
      <4>2. CASE g \in InLoop
        BY <1>1, <3>3, <4>2 DEF PollHolds
      <4> QED
        BY <1>1, <4>1, <4>2
    <3>5. \A g \in Fds : poll_index'[g] >= 0 => g \in called'
      BY <1>1, <1>3, <2>1
    <3> QED
      BY <1>1, <2>1, <2>3, <3>4, <3>5 DEF PollHolds
<1>7. CASE fd \in InLoop
  <2> DEFINE e == [fd |-> IF ev = {} THEN -fd - 1 ELSE fd, events |-> ev]
             k == poll_index[fd] + 1
  <2>1. k \in DOMAIN pollfds_ /\ pollfds_[k].fd \in {fd, -fd - 1}
    BY <1>3, <1>7, LenProperties
  <2>2. /\ pollfds_' = [pollfds_ EXCEPT ![k] = e]
        /\ poll_index' = poll_index
        /\ poll_channels' = poll_channels /\ poll_failed' = poll_failed
    BY <1>2, <1>3, <1>5, <1>7, <2>1
    DEF PP!UpdateChannel, PP!Asserting, PP!Pollfd, PP!HasEntry, PP!EntryOf, PP!Hidden,
        PP!Shown
  <2>3. e \in Entry /\ e.fd \in {fd, -fd - 1}
    BY <1>4 DEF Entry
  <2> HIDE DEF e
  <2>a. /\ pollfds_' \in Seq(Entry) /\ Len(pollfds_') = Len(pollfds_)
        /\ \A i \in 1 .. Len(pollfds_) : pollfds_'[i] = IF i = k THEN e ELSE pollfds_[i]
    <3> HIDE DEF k
    <3> QED
      BY <1>3, <2>1, <2>2, <2>3, ExceptSeq, LenProperties
  <2>4. /\ Indexed(poll_index, InLoop, pollfds_')
        /\ pollfds_'[poll_index[fd] + 1] = e
        /\ \A g \in InLoop \ {fd} : pollfds_'[poll_index[g] + 1] = pollfds_[poll_index[g] + 1]
    <3>1. Rewritten(poll_index, InLoop, pollfds_, fd, e, pollfds_')
      BY <1>3, <1>7, <2>3, <2>a DEF Rewritten
    <3> QED
      BY <3>1, ExceptIndexed
  <2>5. \A g \in Fds : poll_index'[g] >= 0 => g \in called'
    BY <1>1, <1>3, <2>2
  <2>6. PollHolds'
    BY <1>1, <1>3, <1>7, <2>2, <2>4, <2>5 DEF PollHolds, e
  <2> QED
    BY <2>2, <2>6
<1>9. poll_index[fd] >= 0 \/ poll_index[fd] < 0
  BY <1>3
<1> QED
  BY <1>6, <1>7, <1>8, <1>9

(* Removal from PollPoller: the one assertion that can fail is that the     *)
(* entry is hidden, for a channel that was never enabled.                   *)
LEMMA RemovePoll ==
    ASSUME EpollHolds, PollHolds, side_by_side = TRUE, poll_failed = {}, NEW fd \in Fds, Remove(fd)
    PROVE  \/ PollHolds' /\ poll_failed' = {}
           \/ /\ poll_failed' = {fd} /\ fd \in misused'
              /\ UNCHANGED <<poll_index, poll_channels, pollfds_>>
<1>1. /\ InLoop' = InLoop \ {fd} /\ fd \in InLoop
      /\ events_' = events_ /\ events_[fd] = {} /\ misused' = misused
      /\ called' = called
  BY DEF Remove, InLoop, InUse, EpollHolds
<1>2. PP!RemoveChannel(fd, {})
  BY <1>1 DEF Remove, InPollPoller
<1>3. /\ Indexed(poll_index, InLoop, pollfds_) /\ poll_channels = InLoop
      /\ poll_index \in [Fds -> Int] /\ pollfds_ \in Seq(Entry)
      /\ \A g \in InLoop : /\ poll_index[g] + 1 \in 1 .. Len(pollfds_)
                            /\ pollfds_[poll_index[g] + 1].fd \in {g, -g - 1}
  BY DEF PollHolds, Indexed
<1>4. PP!HasEntry(fd)
  BY <1>1, <1>3, LenProperties DEF PP!HasEntry, PP!EntryOf, PP!Hidden
<1>5. CASE PP!EntryOf(fd) = PP!Pollfd(PP!Hidden(fd), {})
  <2> DEFINE n == Len(pollfds_)
             end == FdOf(pollfds_[n])
  <2>1. /\ PP!SwapAndPop(fd) /\ poll_channels' = InLoop \ {fd}
        /\ poll_failed' = poll_failed
    BY <1>2, <1>3, <1>4, <1>5 DEF PP!RemoveChannel, PP!Asserting
  <2>2. /\ pollfds_' = [i \in 1 .. n - 1 |->
                            IF i = poll_index[fd] + 1 THEN pollfds_[n] ELSE pollfds_[i]]
        /\ poll_index' = IF end = fd THEN poll_index
                         ELSE [poll_index EXCEPT ![end] = poll_index[fd]]
    BY <2>1 DEF PP!SwapAndPop, PP!Swapped, PP!FdAtEnd, PP!LastEntry, PP!Hidden, FdOf
  <2>a. /\ Len(pollfds_) \in Nat /\ n - 1 \in Nat
        /\ \A i \in 1 .. n : pollfds_[i] \in Entry
    BY <1>1, <1>3, LenProperties, ElementOfSeq
  <2>b. /\ \A i \in 1 .. n - 1 : pollfds_'[i] =
                IF i = poll_index[fd] + 1 THEN pollfds_[n] ELSE pollfds_[i]
        /\ pollfds_' \in [1 .. n - 1 -> Entry]
    BY <2>2, <2>a
  <2>c. pollfds_' \in Seq(Entry) /\ Len(pollfds_') = n - 1
    <3> HIDE DEF n
    <3>1. pollfds_' \in Seq(Entry)
      BY <2>a, <2>b, SeqDef
    <3>2. DOMAIN pollfds_' = 1 .. n - 1 /\ DOMAIN pollfds_' = 1 .. Len(pollfds_')
          /\ Len(pollfds_') \in Nat
      BY <2>b, <3>1, LenProperties
    <3> QED
      BY <2>a, <3>1, <3>2
  <2>d. /\ poll_index' \in [Fds -> Int]
        /\ end # fd => poll_index'[end] = poll_index[fd]
        /\ \A g \in InLoop \ {fd} : g # end => poll_index'[g] = poll_index[g]
        /\ \A g \in Fds : poll_index'[g] >= 0 => g \in called'
    <3>1. /\ n \in 1 .. n
          /\ \A i \in 1 .. n : \E g \in InLoop : poll_index[g] + 1 = i
      BY <1>3, <2>a DEF Indexed
    <3>2. PICK g \in InLoop : poll_index[g] + 1 = n
      BY <3>1
    <3>3. pollfds_[n].fd \in {g, -g - 1} /\ g \in Nat
      BY <1>3, <3>2, ChannelAssumption DEF Indexed
    <3>4. end \in Fds
      BY <3>3 DEF FdOf, InLoop
    <3>5. \A h \in Fds : poll_index[h] >= 0 => h \in called
      BY DEF PollHolds
    <3>6. end \in called
      <4>1. end = g
        BY <3>3 DEF FdOf, InLoop
      <4>2. g \in Fds /\ poll_index[g] >= 0
        BY <1>3, <3>2, <3>3 DEF InLoop
      <4> QED
        BY <3>5, <4>1, <4>2
    <3> HIDE DEF end
    <3> QED
      BY <1>1, <1>3, <2>2, <3>4, <3>5, <3>6
  <2>3. /\ Indexed(poll_index', InLoop \ {fd}, pollfds_')
        /\ \A g \in InLoop \ {fd} :
             pollfds_'[poll_index'[g] + 1] = pollfds_[poll_index[g] + 1]
    <3>1. SwappedOut(poll_index, InLoop, pollfds_, fd, end, poll_index', pollfds_')
      BY <1>1, <1>3, <2>b, <2>c, <2>d DEF SwappedOut
    <3> HIDE DEF end, n
    <3> QED
      BY <3>1, SwapIndexed
  <2>4. PollHolds'
    <3> HIDE DEF end, n
    <3> QED
      BY <1>1, <2>1, <2>3, <2>d DEF PollHolds
  <2> QED
    BY <2>1, <2>4
<1>6. CASE PP!EntryOf(fd) # PP!Pollfd(PP!Hidden(fd), {})
  <2>1. poll_failed' = {fd} /\ UNCHANGED <<poll_index, poll_channels, pollfds_>>
    BY <1>2, <1>6 DEF PP!RemoveChannel, PP!Asserting
  <2>2. fd \in misused
    BY <1>1, <1>6 DEF PollHolds, PP!EntryOf, PP!Pollfd, PP!Hidden
  <2> QED
    BY <1>1, <2>1, <2>2
<1> QED
  BY <1>5, <1>6

(* A channel is made for a descriptor that has none, or goes. *)
LEMMA ObjectSteps ==
    ASSUME ChannelInv, poll_failed = {}, NEW fd \in Fds, NewChannel(fd) \/ DeleteChannel(fd)
    PROVE  ChannelInv' /\ InLoop' = InLoop /\ Wanted' = Wanted /\ poll_failed' = {}
<1>1. EpollHolds /\ EpollHasRoom /\ side_by_side \in BOOLEAN /\ (side_by_side => PollHolds)
  BY DEF ChannelInv, PollHoldsOrFailed, Compared
<1>2. fd \notin InLoop /\ InLoop \subseteq exists
  BY <1>1 DEF NewChannel, DeleteChannel, EpollHolds, InLoop
<1>3. /\ InLoop' = InLoop /\ \A g \in InLoop : events_'[g] = events_[g]
      /\ events_' \in [Fds -> Events] /\ added_to_loop_' \in [Fds -> BOOLEAN]
      /\ \A g \in InLoop : g \in misused' <=> g \in misused
      /\ exists' \subseteq Fds /\ InLoop \subseteq exists'
  BY <1>1, <1>2 DEF NewChannel, DeleteChannel, EpollHolds, InLoop, Events, pollVars, epollVars
<1>4. /\ \A g \in Fds : g \in DOMAIN epoll <=> epoll_index[g] = 1
      /\ InLoop = {g \in Fds : epoll_index[g] # -1}
      /\ DOMAIN epoll \subseteq InLoop
  BY <1>1 DEF EpollHolds, EP!IndexesMatch, EP!kadded, EP!knew
<1>5. /\ epoll' = epoll /\ epoll_channels' = epoll_channels /\ events_size' = events_size
      /\ epoll_failed' = epoll_failed /\ filled' = filled
      /\ pollfds_' = pollfds_ /\ poll_channels' = poll_channels /\ poll_failed' = poll_failed
      /\ side_by_side' = side_by_side
  BY DEF NewChannel, DeleteChannel, InPollPoller, PP!NewChannel, EP!NewChannel, pollVars,
         epollVars
<1>6. epoll_index' = epoll_index
  <2>1. epoll_index[fd] = -1 /\ epoll_index \in [Fds -> {-1, 1, 2}]
    BY <1>1, <1>2, <1>4 DEF EpollHolds
  <2> QED
    BY <2>1 DEF NewChannel, DeleteChannel, EP!NewChannel, EP!knew, epollVars
<1>7. ASSUME side_by_side
      PROVE  /\ poll_index' \in [Fds -> Int]
             /\ \A g \in InLoop : poll_index'[g] = poll_index[g]
             /\ \A g \in Fds : poll_index'[g] >= 0 => g \in called'
  <2>1. /\ poll_index \in [Fds -> Int]
        /\ \A g \in Fds : poll_index[g] >= 0 => g \in called
    BY <1>1, <1>7 DEF PollHolds, Indexed
  <2>2. CASE NewChannel(fd)
    <3>1. poll_index' = [poll_index EXCEPT ![fd] = -1] /\ called' = called \ {fd}
      BY <1>7, <2>2 DEF NewChannel, InPollPoller, PP!NewChannel, PP!knew
    <3>2. poll_index'[fd] = -1 /\ \A g \in Fds \ {fd} : poll_index'[g] = poll_index[g]
      BY <2>1, <3>1
    <3>3. \A g \in Fds : poll_index'[g] >= 0 => g \in called'
      <4> SUFFICES ASSUME NEW g \in Fds, poll_index'[g] >= 0 PROVE g \in called'
        OBVIOUS
      <4>1. g # fd
        BY <3>2
      <4> QED
        BY <2>1, <3>1, <3>2, <4>1
    <3> QED
      BY <1>2, <2>1, <3>1, <3>2, <3>3 DEF InLoop
  <2>3. CASE DeleteChannel(fd)
    BY <2>1, <2>3 DEF DeleteChannel, pollVars
  <2> QED
    BY <2>2, <2>3
<1>8. epoll' = [g \in DOMAIN epoll' |-> events_'[g]]
  BY <1>1, <1>3, <1>4, <1>5 DEF EpollHolds
<1>9. EP!IndexesMatch'
  BY <1>1, <1>5, <1>6 DEF EpollHolds, EP!IndexesMatch
<1>10. EpollHolds' /\ EpollHasRoom'
  BY <1>1, <1>3, <1>5, <1>6, <1>8, <1>9 DEF EpollHolds, EpollHasRoom
<1>11. ASSUME side_by_side PROVE PollHolds'
  <2>1. Indexed(poll_index', InLoop, pollfds_)
    BY <1>1, <1>7, <1>11 DEF PollHolds, Indexed
  <2> QED
    BY <1>1, <1>3, <1>5, <1>7, <1>11, <2>1 DEF PollHolds
<1> QED
  BY <1>1, <1>3, <1>5, <1>10, <1>11 DEF ChannelInv, PollHoldsOrFailed, Compared, Wanted

(* Calls that reach the pollers. *)
LEMMA UpdateStep ==
    ASSUME ChannelInv, poll_failed = {}, NEW fd \in Fds, NEW ev \in Events, Update(fd, ev)
    PROVE  /\ ChannelInv' /\ InLoop' = InLoop \cup {fd}
           /\ Wanted' = [f \in InLoop \cup {fd} |-> IF f = fd THEN ev ELSE events_[f]]
           /\ poll_failed' # {} => UNCHANGED <<poll_index, poll_channels, pollfds_>>
<1>1. EpollHolds /\ EpollHasRoom /\ side_by_side \in BOOLEAN /\ (side_by_side => PollHolds)
  BY DEF ChannelInv, PollHoldsOrFailed, Compared
<1>2. EpollHolds' /\ InLoop' = InLoop \cup {fd}
  BY <1>1, UpdateEpoll
<1>3. /\ \/ PollHolds' /\ poll_failed' = {}
         \/ /\ poll_failed' = {fd} /\ fd \in misused'
            /\ UNCHANGED <<poll_index, poll_channels, pollfds_>>
         \/ ~side_by_side /\ poll_failed' = {}
      /\ side_by_side' = side_by_side
      /\ ~side_by_side => poll_failed' = {}
  <2>1. side_by_side' = side_by_side
    BY DEF Update
  <2>2. CASE side_by_side
    BY <1>1, <2>1, <2>2, UpdatePoll
  <2>3. CASE ~side_by_side
    BY <2>1, <2>3 DEF Update, InPollPoller, pollVars
  <2> QED
    BY <2>2, <2>3
<1>4. EpollHasRoom'
  BY <1>1 DEF EpollHasRoom, Update, EP!UpdateChannel
<1>5. \A f \in InLoop \cup {fd} : events_'[f] = IF f = fd THEN ev ELSE events_[f]
  BY <1>1 DEF Update, EpollHolds, InLoop
<1>6. PollHoldsOrFailed'
  BY <1>1, <1>3 DEF PollHoldsOrFailed, Compared
<1> QED
  BY <1>2, <1>3, <1>4, <1>5, <1>6 DEF ChannelInv, Wanted

LEMMA RemoveStep ==
    ASSUME ChannelInv, poll_failed = {}, NEW fd \in Fds, Remove(fd)
    PROVE  /\ ChannelInv' /\ InLoop' = InLoop \ {fd} /\ fd \in InLoop /\ events_[fd] = {}
           /\ Wanted' = [f \in InLoop \ {fd} |-> events_[f]]
           /\ poll_failed' # {} => UNCHANGED <<poll_index, poll_channels, pollfds_>>
<1>1. EpollHolds /\ EpollHasRoom /\ side_by_side \in BOOLEAN /\ (side_by_side => PollHolds)
  BY DEF ChannelInv, PollHoldsOrFailed, Compared
<1>2. EpollHolds' /\ InLoop' = InLoop \ {fd} /\ fd \in InLoop
  BY <1>1, RemoveEpoll
<1>3. /\ \/ PollHolds' /\ poll_failed' = {}
         \/ /\ poll_failed' = {fd} /\ fd \in misused'
            /\ UNCHANGED <<poll_index, poll_channels, pollfds_>>
         \/ ~side_by_side /\ poll_failed' = {}
      /\ side_by_side' = side_by_side
      /\ ~side_by_side => poll_failed' = {}
  <2>1. side_by_side' = side_by_side
    BY DEF Remove
  <2>2. CASE side_by_side
    BY <1>1, <2>1, <2>2, RemovePoll
  <2>3. CASE ~side_by_side
    BY <2>1, <2>3 DEF Remove, InPollPoller, pollVars
  <2> QED
    BY <2>2, <2>3
<1>4. EpollHasRoom' /\ events_' = events_ /\ events_[fd] = {}
  BY <1>1 DEF EpollHasRoom, Remove, EP!RemoveChannel
<1>5. PollHoldsOrFailed'
  BY <1>1, <1>3 DEF PollHoldsOrFailed, Compared
<1> QED
  BY <1>2, <1>3, <1>4, <1>5 DEF ChannelInv, Wanted

(* epoll_wait returns no more than the fds of the kernel's list, so that    *)
(* the list of events stops growing.                                        *)
LEMMA PollStep ==
    ASSUME ChannelInv, poll_failed = {}, Poll
    PROVE  ChannelInv' /\ InLoop' = InLoop /\ Wanted' = Wanted /\ poll_failed' = {}
<1>1. EpollHolds /\ EpollHasRoom /\ side_by_side \in BOOLEAN /\ (side_by_side => PollHolds)
  BY DEF ChannelInv, PollHoldsOrFailed, Compared
<1>2. PICK ready \in Happenings : \E S \in EP!Returned(ready) :
          /\ EP!Poll(S)
          /\ filled' = IF Cardinality(S) = events_size THEN events_size ELSE filled
  BY DEF Poll
<1>b. PICK S \in EP!Returned(ready) :
          /\ EP!Poll(S)
          /\ filled' = IF Cardinality(S) = events_size THEN events_size ELSE filled
  BY <1>2
<1>a. S \subseteq Fds
  BY <1>1, <1>b DEF EP!Returned, EP!Ready, EpollHolds
<1>3. Cardinality(S) \in Nat /\ Cardinality(Fds) \in Nat /\ Cardinality(S) <= Cardinality(Fds)
  BY <1>a, ChannelAssumption, FS_Subset, FS_CardinalityType
<1>4. /\ kinit_event_list_size \in Nat /\ kinit_event_list_size > 0 /\ events_size \in Nat
      /\ events_size > 0
  BY <1>1, <1>3, ChannelAssumption DEF EpollHasRoom
<1>5. \/ events_size' = events_size /\ filled' = filled
      \/ /\ events_size' = 2 * events_size /\ events_size = Cardinality(S)
         /\ filled' = events_size
  <2>1. events_size' = IF EP!Cardinality(S) = events_size THEN 2 * events_size ELSE events_size
    BY <1>b DEF EP!Poll
  <2>2. EP!Cardinality(S) = Cardinality(S)
    BY Zenon DEF EP!Cardinality, Cardinality
  <2> QED
    BY <1>b, <2>1, <2>2
<1>6. EpollHasRoom'
  BY <1>1, <1>3, <1>4, <1>5 DEF EpollHasRoom
<1>7. UNCHANGED <<exists, events_, added_to_loop_, side_by_side, called, misused, pollVars>>
      /\ UNCHANGED <<epoll_index, epoll_channels, epoll, epoll_failed>>
  BY <1>b DEF Poll, channelVars, pollVars, EP!Poll
<1>8. InLoop' = InLoop /\ Wanted' = Wanted
  BY <1>7 DEF InLoop, Wanted
<1>9. EpollHolds'
  BY <1>1, <1>7, <1>8 DEF EpollHolds, EP!IndexesMatch
<1>10. (PollHolds => PollHolds') /\ poll_failed' = poll_failed /\ side_by_side' = side_by_side
  BY <1>7, <1>8 DEF PollHolds, pollVars
<1> QED
  BY <1>1, <1>6, <1>8, <1>9, <1>10 DEF ChannelInv, PollHoldsOrFailed, Compared

(* Every step of the channels is one of these. *)
LEMMA StepCases ==
    ASSUME ChannelInv, Next
    PROVE  /\ poll_failed = {}
           /\ \/ Poll
              \/ \E fd \in Fds : NewChannel(fd) \/ DeleteChannel(fd)
              \/ \E fd \in Fds : Remove(fd)
              \/ \E fd \in Fds, ev \in Events : Update(fd, ev)
<1>1. events_ \in [Fds -> Events]
  BY DEF ChannelInv, EpollHolds
<1>2. \A fd \in Fds : /\ events_[fd] \cup {"read"} \in Events
                      /\ events_[fd] \cup {"write"} \in Events
                      /\ events_[fd] \ {"read"} \in Events
                      /\ events_[fd] \ {"write"} \in Events
                      /\ {} \in Events
  BY <1>1 DEF Events
<1>3. ASSUME NEW fd \in Fds,
             \/ EnableReading(fd) \/ EnableWriting(fd)
             \/ DisableReading(fd) \/ DisableWriting(fd) \/ DisableAll(fd)
      PROVE  \E ev \in Events : Update(fd, ev)
  BY <1>2, <1>3 DEF EnableReading, EnableWriting, DisableReading, DisableWriting, DisableAll
<1> QED
  BY <1>3 DEF Next

LEMMA ChannelInvInit == Init => ChannelInv
<1> SUFFICES ASSUME Init PROVE ChannelInv
  OBVIOUS
<1>1. InLoop = {} /\ poll_channels = {} /\ epoll_channels = {}
  BY DEF Init, InLoop, PP!Init, EP!Init
<1>2. EP!IndexesMatch
  BY DEF Init, EP!Init, EP!IndexesMatch, EP!knew, EP!kadded
<1>3. EpollHolds
  BY <1>1, <1>2 DEF Init, EP!Init, EP!knew, EpollHolds, Events
<1>4. EpollHasRoom
  BY FS_CardinalityType, ChannelAssumption DEF Init, EP!Init, EpollHasRoom
<1>5. Indexed(poll_index, {}, pollfds_)
  <2>1. poll_index \in [Fds -> Int] /\ pollfds_ = << >>
    BY DEF Init, PP!Init, PP!knew
  <2>2. pollfds_ \in Seq(Entry) /\ Len(pollfds_) = 0
    BY <2>1
  <2> QED
    BY <2>1, <2>2, FS_EmptySet DEF Indexed
<1>6. PollHolds /\ poll_failed = {} /\ side_by_side \in BOOLEAN
  BY <1>1, <1>5 DEF PollHolds, Init, PP!Init, PP!knew
<1> QED
  BY <1>3, <1>4, <1>6 DEF ChannelInv, PollHoldsOrFailed

LEMMA ChannelInvStep == ChannelInv /\ [Next]_vars => ChannelInv'
<1> SUFFICES ASSUME ChannelInv, [Next]_vars PROVE ChannelInv'
  OBVIOUS
<1>1. CASE Next
  BY <1>1, StepCases, PollStep, ObjectSteps, RemoveStep, UpdateStep
<1>2. CASE UNCHANGED vars
  BY <1>2 DEF vars, channelVars, pollVars, epollVars, ChannelInv, EpollHolds, EpollHasRoom,
     PollHoldsOrFailed, PollHolds, Compared, InLoop, EP!IndexesMatch, Indexed
<1> QED
  BY <1>1, <1>2

LEMMA ChannelInvAlways == Spec => []ChannelInv
  BY ChannelInvInit, ChannelInvStep, PTL DEF Spec

-----------------------------------------------------------------------------
(* What the kernel was asked for, either way, is what the channels want. *)
LEMMA InterestIsWanted ==
    ASSUME ChannelInv
    PROVE  EP!interest = Wanted /\ (Compared => PP!interest = Wanted)
<1>1. \A fd \in InLoop : (IF fd \in DOMAIN epoll THEN epoll[fd] ELSE {}) = events_[fd]
  BY DEF ChannelInv, EpollHolds
<1>2. EP!interest = Wanted
  BY <1>1 DEF ChannelInv, EpollHolds, EP!interest, Wanted
<1>3. ASSUME Compared PROVE PP!interest = Wanted
  <2>1. PollHolds
    BY <1>3 DEF ChannelInv, PollHoldsOrFailed
  <2>2. \A fd \in InLoop : pollfds_[poll_index[fd] + 1].events = events_[fd]
    <3> SUFFICES ASSUME NEW fd \in InLoop
                 PROVE  pollfds_[poll_index[fd] + 1].events = events_[fd]
      OBVIOUS
    <3>1. \/ pollfds_[poll_index[fd] + 1]
               = [fd |-> IF events_[fd] = {} THEN -fd - 1 ELSE fd, events |-> events_[fd]]
          \/ /\ events_[fd] = {}
             /\ pollfds_[poll_index[fd] + 1] = [fd |-> fd, events |-> {}]
      BY <2>1 DEF PollHolds
    <3> QED
      BY <3>1
  <2> QED
    BY <2>1, <2>2 DEF PollHolds, PP!interest, PP!EntryOf, Wanted
<1> QED
  BY <1>2, <1>3

(* KernelFollowsChannels holds for any descriptors: the swaps and the       *)
(* hiding of PollPoller, and the three marks of EpollPoller, never lose     *)
(* which entry is whose, and no assertion fails but those of PollPoller on  *)
(* a channel that was never enabled or had been removed.                    *)
THEOREM KernelIsAskedRight == Spec => []KernelFollowsChannels
<1>1. ChannelInv => KernelFollowsChannels
  <2> SUFFICES ASSUME ChannelInv PROVE KernelFollowsChannels
    OBVIOUS
  <2>1. NoAssertFails
    BY DEF NoAssertFails, ChannelInv, EpollHolds, PollHoldsOrFailed
  <2>2. EP!interest = Wanted /\ (Compared => PP!interest = Wanted)
    BY InterestIsWanted
  <2>3. EP!IndexesMatch
    BY DEF ChannelInv, EpollHolds
  <2>5. TypeOK
    BY DEF ChannelInv, EpollHolds, EpollHasRoom, TypeOK, InLoop
  <2>4. ASSUME Compared PROVE PP!IndexesMatch
    <3>1. PollHolds
      BY <2>4 DEF ChannelInv, PollHoldsOrFailed
    <3>3. Indexed(poll_index, poll_channels, pollfds_)
      BY <3>1 DEF PollHolds
    <3>4. DOMAIN pollfds_ = 1 .. Len(pollfds_)
      BY <3>3, LenProperties DEF Indexed
    <3>5. \A fd \in poll_channels : PP!HasEntry(fd)
      BY <3>3, <3>4 DEF Indexed, PP!HasEntry, PP!EntryOf, PP!Hidden
    <3>6. PP!Cardinality(poll_channels) = Cardinality(poll_channels)
      BY Zenon DEF PP!Cardinality, Cardinality
    <3>7. PP!IndexesMatch
      BY <3>3, <3>5, <3>6 DEF Indexed, PP!IndexesMatch
    <3> QED
      BY <3>7
  <2> QED
    BY <2>1, <2>2, <2>3, <2>4, <2>5 DEF KernelFollowsChannels, Wanted, InLoop
<1> QED
  BY <1>1, ChannelInvAlways, PTL

(* Of four calls that are made or not, one is made. *)
LEMMA OneOfFour ==
    ASSUME NEW i \in {0, 1}, NEW j \in {0, 1}, NEW k \in {0, 1}, NEW l \in {0, 1},
           i = 1 \/ k = 1 \/ l = 1
    PROVE  i + j + k + l # 0
OBVIOUS

(* A channel reported for an event has a callback called. *)
LEMMA HandleEventCalls ==
    ASSUME NEW revents \in {{"read"}, {"write"}, {"hup"}}
    PROVE  HandleEventWithGuard(revents) # << >>
<1> DEFINE Calls == {"error", "read", "write"}
           call(P, m) == IF P THEN <<m>> ELSE <<>>
           a == call("hup" \in revents /\ "read" \notin revents, "error")
           b == call(revents \cap {"err", "nval"} # {}, "error")
           c == call(revents \cap {"read", "pri", "rdhup"} # {}, "read")
           d == call("write" \in revents, "write")
<1>0. \A m \in Calls : <<m>> \in Seq(Calls) /\ Len(<<m>>) = 1
  OBVIOUS
<1>1. << >> \in Seq(Calls) /\ Len(<< >>) = 0
  OBVIOUS
<1>2. HandleEventWithGuard(revents) = ((a \o b) \o c) \o d
  BY DEF HandleEventWithGuard
<1>a. a \in Seq(Calls) /\ Len(a) = IF "hup" \in revents /\ "read" \notin revents THEN 1 ELSE 0
  <2>1. CASE "hup" \in revents /\ "read" \notin revents
    <3>1. a = <<"error">>
      BY <2>1
    <3> HIDE DEF a
    <3>2. a \in Seq(Calls) /\ Len(a) = 1
      BY <1>0, <3>1
    <3> QED
      BY <2>1, <3>2
  <2>2. CASE ~("hup" \in revents /\ "read" \notin revents)
    <3>1. a = << >>
      BY <2>2
    <3> HIDE DEF a
    <3> QED
      BY <1>1, <2>2, <3>1
  <2> QED
    BY <2>1, <2>2
<1>b. b \in Seq(Calls) /\ Len(b) \in {0, 1}
  <2>1. CASE revents \cap {"err", "nval"} # {}
    <3>1. b = <<"error">>
      BY <2>1
    <3> HIDE DEF b
    <3>2. b \in Seq(Calls) /\ Len(b) = 1
      BY <1>0, <3>1
    <3> QED
      BY <2>1, <3>2
  <2>2. CASE ~(revents \cap {"err", "nval"} # {})
    <3>1. b = << >>
      BY <2>2
    <3> HIDE DEF b
    <3> QED
      BY <1>1, <2>2, <3>1
  <2> QED
    BY <2>1, <2>2
<1>c. /\ c \in Seq(Calls)
      /\ Len(c) = IF revents \cap {"read", "pri", "rdhup"} # {} THEN 1 ELSE 0
  <2>1. CASE revents \cap {"read", "pri", "rdhup"} # {}
    <3>1. c = <<"read">>
      BY <2>1
    <3> HIDE DEF c
    <3>2. c \in Seq(Calls) /\ Len(c) = 1
      BY <1>0, <3>1
    <3> QED
      BY <2>1, <3>2
  <2>2. CASE ~(revents \cap {"read", "pri", "rdhup"} # {})
    <3>1. c = << >>
      BY <2>2
    <3> HIDE DEF c
    <3> QED
      BY <1>1, <2>2, <3>1
  <2> QED
    BY <2>1, <2>2
<1>d. d \in Seq(Calls) /\ Len(d) = IF "write" \in revents THEN 1 ELSE 0
  <2>1. CASE "write" \in revents
    <3>1. d = <<"write">>
      BY <2>1
    <3> HIDE DEF d
    <3>2. d \in Seq(Calls) /\ Len(d) = 1
      BY <1>0, <3>1
    <3> QED
      BY <2>1, <3>2
  <2>2. CASE ~("write" \in revents)
    <3>1. d = << >>
      BY <2>2
    <3> HIDE DEF d
    <3> QED
      BY <1>1, <2>2, <3>1
  <2> QED
    BY <2>1, <2>2
<1> HIDE DEF a, b, c, d
<1>3. a \o b \in Seq(Calls) /\ Len(a \o b) = Len(a) + Len(b)
  BY <1>a, <1>b, ConcatProperties
<1>4. (a \o b) \o c \in Seq(Calls) /\ Len((a \o b) \o c) = Len(a) + Len(b) + Len(c)
  <2> DEFINE ab == a \o b
  <2> HIDE DEF ab
  <2>1. ab \o c \in Seq(Calls) /\ Len(ab \o c) = Len(ab) + Len(c)
    BY <1>3, <1>c, ConcatProperties DEF ab
  <2> QED
    BY <1>3, <2>1 DEF ab
<1>5. Len(HandleEventWithGuard(revents)) = Len(a) + Len(b) + Len(c) + Len(d)
  <2> DEFINE abc == (a \o b) \o c
  <2> HIDE DEF abc
  <2>1. Len(abc \o d) = Len(abc) + Len(d)
    BY <1>4, <1>d, ConcatProperties DEF abc
  <2> QED
    BY <1>2, <1>4, <2>1 DEF abc
<1>6. \/ "hup" \in revents /\ "read" \notin revents
      \/ revents \cap {"read", "pri", "rdhup"} # {}
      \/ "write" \in revents
  OBVIOUS
<1>7. Len(HandleEventWithGuard(revents)) # 0
  <2>1. Len(a) \in {0, 1} /\ Len(c) \in {0, 1} /\ Len(d) \in {0, 1}
    BY <1>a, <1>c, <1>d
  <2>2. Len(a) = 1 \/ Len(c) = 1 \/ Len(d) = 1
    BY <1>6, <1>a, <1>c, <1>d
  <2>3. Len(b) \in {0, 1}
    BY <1>b
  <2>4. Len(a) + Len(b) + Len(c) + Len(d) # 0
    BY <2>1, <2>2, <2>3, OneOfFour
  <2> QED
    BY <1>5, <2>4
<1> QED
  BY <1>7

(* What PollPoller reports: the entries of the channels in the loop that    *)
(* want something, or were never enabled, and have it.                      *)
LEMMA PollReports ==
    ASSUME ChannelInv, Compared, NEW ready \in Happenings
    PROVE  /\ PP!Active(ready) \subseteq InLoop
           /\ \A fd \in PP!Active(ready) :
                /\ events_[fd] = {} => fd \in misused
                /\ ready[fd] \cap (events_[fd] \cup {"hup"}) # {}
           /\ \A fd \in InLoop :
                events_[fd] # {} /\ ready[fd] \cap (events_[fd] \cup {"hup"}) # {} =>
                    fd \in PP!Active(ready)
<1>1. PollHolds
  BY DEF ChannelInv, PollHoldsOrFailed
<1>2. /\ Indexed(poll_index, InLoop, pollfds_) /\ InLoop \subseteq Fds
      /\ \A fd \in InLoop :
           \/ pollfds_[poll_index[fd] + 1]
               = [fd |-> IF events_[fd] = {} THEN -fd - 1 ELSE fd, events |-> events_[fd]]
           \/ /\ fd \in misused /\ events_[fd] = {}
              /\ pollfds_[poll_index[fd] + 1] = [fd |-> fd, events |-> {}]
  BY <1>1 DEF PollHolds, InLoop
<1>3. /\ InLoop \subseteq Nat
      /\ DOMAIN pollfds_ = 1 .. Len(pollfds_) /\ Len(pollfds_) \in Nat
  BY <1>2, LenProperties, ChannelAssumption DEF Indexed
<1>4. \A i \in DOMAIN pollfds_ : \E fd \in InLoop : i = poll_index[fd] + 1
  BY <1>2, <1>3 DEF Indexed
<1>5. \A fd \in InLoop : poll_index[fd] + 1 \in DOMAIN pollfds_
  BY <1>2, <1>3 DEF Indexed
<1>6. ASSUME NEW fd \in PP!Active(ready)
      PROVE  /\ fd \in InLoop /\ events_[fd] = {} => fd \in misused
             /\ fd \in InLoop /\ ready[fd] \cap (events_[fd] \cup {"hup"}) # {}
  <2>1. PICK i \in DOMAIN pollfds_ :
          /\ fd = pollfds_[i].fd /\ fd >= 0
          /\ ready[fd] \cap (pollfds_[i].events \cup {"hup"}) # {}
    BY DEF PP!Active, PP!Range
  <2>2. PICK g \in InLoop : i = poll_index[g] + 1
    BY <1>4
  <2>3. g \in Nat
    BY <1>3
  <2>4. CASE pollfds_[i]
               = [fd |-> IF events_[g] = {} THEN -g - 1 ELSE g, events |-> events_[g]]
    <3>1. /\ pollfds_[i].fd = IF events_[g] = {} THEN -g - 1 ELSE g
          /\ pollfds_[i].events = events_[g]
      BY <2>4
    <3>2. fd = g /\ events_[g] # {}
      BY <2>1, <2>3, <3>1
    <3> QED
      BY <2>1, <3>1, <3>2
  <2>5. CASE g \in misused /\ events_[g] = {} /\ pollfds_[i] = [fd |-> g, events |-> {}]
    <3>1. pollfds_[i].fd = g /\ pollfds_[i].events = events_[g]
      BY <2>5
    <3> QED
      BY <2>1, <2>5, <3>1
  <2> QED
    BY <1>2, <2>2, <2>4, <2>5
<1>7. ASSUME NEW fd \in InLoop, events_[fd] # {},
             ready[fd] \cap (events_[fd] \cup {"hup"}) # {}
      PROVE  fd \in PP!Active(ready)
  <2> DEFINE q == pollfds_[poll_index[fd] + 1]
  <2>1. q \in PP!Range(pollfds_)
    BY <1>5 DEF PP!Range
  <2>2. q.fd = fd /\ q.events = events_[fd] /\ fd >= 0
    <3>1. q = [fd |-> IF events_[fd] = {} THEN -fd - 1 ELSE fd, events |-> events_[fd]]
          /\ fd \in Nat
      BY <1>2, <1>3, <1>7
    <3> HIDE DEF q
    <3> QED
      BY <1>7, <3>1
  <2> QED
    BY <1>7, <2>1, <2>2 DEF PP!Active
<1> QED
  BY <1>6, <1>7

(* SameActive holds for any descriptors and any first length of the list:   *)
(* whatever EpollPoller's Poll returns, PollPoller's would return too, and  *)
(* the other way round unless the list was full, which it then is no more.  *)
THEOREM PollersAgree == Spec => []SameActive
<1>1. ChannelInv => SameActive
  <2> SUFFICES ASSUME ChannelInv PROVE SameActive
    OBVIOUS
  <2>1. filled < events_size
    BY DEF ChannelInv, EpollHasRoom
  <2>2. ASSUME Compared, NEW ready \in Happenings, NEW S \in EP!Returned(ready)
        PROVE  /\ PP!Active(ready) \subseteq Wanting(PP!Active(ready)) \cup misused
               /\ Wanting(S) \subseteq PP!Active(ready)
               /\ Cardinality(S) < events_size => Wanting(PP!Active(ready)) \subseteq S
               /\ \A fd \in PP!Active(ready) \cup S, tie \in Ties :
                     HandleEvent(tie, ready[fd]) = <<>> <=> tie = "gone"
    <3>1. /\ PP!Active(ready) \subseteq InLoop
          /\ \A fd \in PP!Active(ready) :
               /\ events_[fd] = {} => fd \in misused
               /\ ready[fd] \cap (events_[fd] \cup {"hup"}) # {}
          /\ \A fd \in InLoop :
               events_[fd] # {} /\ ready[fd] \cap (events_[fd] \cup {"hup"}) # {} =>
                   fd \in PP!Active(ready)
      BY <2>2, PollReports
    <3>2. /\ DOMAIN epoll \subseteq InLoop /\ InLoop \subseteq Fds
          /\ \A fd \in InLoop : events_[fd] # {} => fd \in DOMAIN epoll
          /\ \A fd \in DOMAIN epoll : epoll[fd] = events_[fd]
      BY DEF ChannelInv, EpollHolds, EP!IndexesMatch, EP!kadded, EP!knew, InLoop
    <3>3. S \subseteq EP!Ready(ready)
      BY <2>2 DEF EP!Returned
    <3>4. \A fd \in S : /\ fd \in InLoop
                         /\ ready[fd] \cap (events_[fd] \cup {"hup"}) # {}
      BY <3>2, <3>3 DEF EP!Ready
    <3>5. Wanting(PP!Active(ready)) \subseteq EP!Ready(ready)
      BY <3>1, <3>2 DEF Wanting, EP!Ready
    <3>6. ASSUME Cardinality(S) < events_size PROVE S = EP!Ready(ready)
      <4>1. events_size \in Nat /\ kinit_event_list_size \in Nat
        BY FS_CardinalityType, ChannelAssumption DEF ChannelInv, EpollHasRoom
      <4>2. IsFiniteSet(S)
        BY <3>2, <3>4, ChannelAssumption, FS_Subset
      <4>3. Cardinality(S) # events_size
        BY <3>6, <4>1, <4>2, FS_CardinalityType
      <4>4. EP!Cardinality(S) = Cardinality(S)
        BY Zenon DEF EP!Cardinality, Cardinality
      <4> QED
        BY <2>2, <4>3, <4>4 DEF EP!Returned
    <3>7. ASSUME NEW fd \in PP!Active(ready) \cup S, NEW tie \in Ties
          PROVE  HandleEvent(tie, ready[fd]) = <<>> <=> tie = "gone"
      <4>1. fd \in Fds /\ ready[fd] # {}
        BY <3>1, <3>2, <3>4
      <4>2. ready[fd] \in {{"read"}, {"write"}, {"hup"}}
        BY <4>1 DEF Happenings
      <4>3. HandleEventWithGuard(ready[fd]) # <<>>
        BY <4>2, HandleEventCalls
      <4> QED
        BY <4>3 DEF HandleEvent
    <3> QED
      BY <3>1, <3>4, <3>5, <3>6, <3>7 DEF Wanting
  <2>3. ASSUME Compared, NEW ready \in Happenings
        PROVE  PP!Active(ready) \subseteq Wanting(PP!Active(ready)) \cup misused
    BY <2>3, PollReports DEF Wanting
  <2> QED
    BY <2>1, <2>2, <2>3 DEF SameActive
<1> QED
  BY <1>1, ChannelInvAlways, PTL

-----------------------------------------------------------------------------
(* A step on what the channels want is a step of the interface Poller. *)
LEMMA WantedStep ==
    ASSUME ChannelInv, Next
    PROVE  \/ Wanted' = Wanted
           \/ \E fd \in Fds : /\ fd \in DOMAIN Wanted /\ Wanted[fd] = {}
                              /\ Wanted' = [f \in DOMAIN Wanted \ {fd} |-> Wanted[f]]
           \/ \E fd \in Fds, ev \in Events :
                 Wanted' = [f \in DOMAIN Wanted \cup {fd} |-> IF f = fd THEN ev ELSE Wanted[f]]
<1>1. DOMAIN Wanted = InLoop /\ \A f \in InLoop : Wanted[f] = events_[f]
  BY DEF Wanted
<1>2. poll_failed = {}
  BY StepCases
<1>3. CASE Poll
  BY <1>2, <1>3, PollStep
<1>4. ASSUME NEW fd \in Fds, NewChannel(fd) \/ DeleteChannel(fd) PROVE Wanted' = Wanted
  BY <1>2, <1>4, ObjectSteps
<1>5. ASSUME NEW fd \in Fds, Remove(fd)
      PROVE  /\ fd \in DOMAIN Wanted /\ Wanted[fd] = {}
             /\ Wanted' = [f \in DOMAIN Wanted \ {fd} |-> Wanted[f]]
  <2>1. /\ fd \in InLoop /\ events_[fd] = {}
        /\ Wanted' = [f \in InLoop \ {fd} |-> events_[f]]
    BY <1>2, <1>5, RemoveStep
  <2> QED
    BY <1>1, <2>1
<1>6. ASSUME NEW fd \in Fds, NEW ev \in Events, Update(fd, ev)
      PROVE  Wanted' = [f \in DOMAIN Wanted \cup {fd} |-> IF f = fd THEN ev ELSE Wanted[f]]
  <2>1. Wanted' = [f \in InLoop \cup {fd} |-> IF f = fd THEN ev ELSE events_[f]]
    BY <1>2, <1>6, UpdateStep
  <2> QED
    BY <1>1, <2>1
<1> QED
  BY <1>3, <1>4, <1>5, <1>6, StepCases

(* Both pollers implement Poller (ImplementPoller): an assertion of         *)
(* PollPoller that fails changes nothing, and any other call changes the    *)
(* interest in one channel.                                                 *)
THEOREM PollersImplementPoller == Spec => ImplementPoller
<1> DEFINE Follow == EP!interest = Wanted /\ (Compared => PP!interest = Wanted)
<1>1. ChannelInv => Follow
  BY InterestIsWanted
<1>2. Init => PollAbstract!Init /\ EpollAbstract!Init
  <2> SUFFICES ASSUME Init PROVE PollAbstract!Init /\ EpollAbstract!Init
    OBVIOUS
  <2>1. poll_channels = {} /\ epoll_channels = {}
    BY DEF Init, PP!Init, EP!Init
  <2> QED
    BY <2>1 DEF PollAbstract!Init, EpollAbstract!Init, PP!interest, EP!interest
<1>3. ChannelInv /\ Follow /\ Follow' /\ [Next]_vars => [EpollAbstract!Next]_(EP!interest)
  <2> SUFFICES ASSUME ChannelInv, Follow, Follow', [Next]_vars, EP!interest' # EP!interest
               PROVE  EpollAbstract!Next
    OBVIOUS
  <2>1. Next
    BY DEF vars, channelVars, pollVars, epollVars, EP!interest
  <2>2. EP!interest = Wanted /\ EP!interest' = Wanted'
    OBVIOUS
  <2>3. CASE \E fd \in Fds : /\ fd \in DOMAIN Wanted /\ Wanted[fd] = {}
                             /\ Wanted' = [f \in DOMAIN Wanted \ {fd} |-> Wanted[f]]
    <3>1. \E fd \in Fds : EpollAbstract!RemoveChannel(fd)
      BY <2>2, <2>3 DEF EpollAbstract!RemoveChannel, EpollAbstract!Restrict
    <3> QED
      BY <3>1 DEF EpollAbstract!Next
  <2>4. CASE \E fd \in Fds, ev \in Events :
                Wanted' = [f \in DOMAIN Wanted \cup {fd} |-> IF f = fd THEN ev ELSE Wanted[f]]
    <3>1. \E fd \in Fds : \E ev \in Events : EpollAbstract!UpdateChannel(fd, ev)
      BY <2>2, <2>4 DEF EpollAbstract!UpdateChannel
    <3> QED
      BY <3>1 DEF EpollAbstract!Next, EpollAbstract!Events, Events
  <2> QED
    BY <2>1, <2>2, <2>3, <2>4, WantedStep
<1>4. ChannelInv /\ Follow /\ Follow' /\ [Next]_vars => [PollAbstract!Next]_(PP!interest)
  <2> SUFFICES ASSUME ChannelInv, Follow, Follow', [Next]_vars, PP!interest' # PP!interest
               PROVE  PollAbstract!Next
    OBVIOUS
  <2>1. Next
    BY DEF vars, channelVars, pollVars, epollVars, PP!interest, PP!EntryOf
  <2>2. Compared /\ Compared'
    <3>1. poll_failed = {}
      BY <2>1, StepCases
    <3>2. ASSUME poll_failed' # {} PROVE FALSE
      <4>1. UNCHANGED <<poll_index, poll_channels, pollfds_>>
        BY <2>1, <3>1, <3>2, StepCases, PollStep, ObjectSteps, UpdateStep, RemoveStep
      <4> QED
        BY <4>1 DEF PP!interest, PP!EntryOf
    <3>3. side_by_side' = side_by_side
      BY <2>1 DEF Next, Poll, channelVars, NewChannel, DeleteChannel, Remove, EnableReading,
         EnableWriting, DisableReading, DisableWriting, DisableAll, Update
    <3>4. ASSUME ~side_by_side PROVE FALSE
      <4>1. UNCHANGED <<poll_index, poll_channels, pollfds_>>
        BY <2>1, <3>4 DEF Next, Poll, NewChannel, DeleteChannel, Remove, EnableReading,
           EnableWriting, DisableReading, DisableWriting, DisableAll, Update, InPollPoller,
           pollVars
      <4> QED
        BY <4>1 DEF PP!interest, PP!EntryOf
    <3>5. side_by_side \in BOOLEAN
      BY DEF ChannelInv, PollHoldsOrFailed
    <3> QED
      BY <3>1, <3>2, <3>3, <3>4, <3>5 DEF Compared
  <2>3. PP!interest = Wanted /\ PP!interest' = Wanted'
    BY <2>2
  <2>4. CASE \E fd \in Fds : /\ fd \in DOMAIN Wanted /\ Wanted[fd] = {}
                             /\ Wanted' = [f \in DOMAIN Wanted \ {fd} |-> Wanted[f]]
    <3>1. \E fd \in Fds : PollAbstract!RemoveChannel(fd)
      BY <2>3, <2>4 DEF PollAbstract!RemoveChannel, PollAbstract!Restrict
    <3> QED
      BY <3>1 DEF PollAbstract!Next
  <2>5. CASE \E fd \in Fds, ev \in Events :
                Wanted' = [f \in DOMAIN Wanted \cup {fd} |-> IF f = fd THEN ev ELSE Wanted[f]]
    <3>1. \E fd \in Fds : \E ev \in Events : PollAbstract!UpdateChannel(fd, ev)
      BY <2>3, <2>5 DEF PollAbstract!UpdateChannel
    <3> QED
      BY <3>1 DEF PollAbstract!Next, PollAbstract!Events, Events
  <2> QED
    BY <2>1, <2>3, <2>4, <2>5, WantedStep
<1> HIDE DEF Follow
<1> QED
  BY <1>1, <1>2, <1>3, <1>4, ChannelInvAlways, PTL
  DEF Spec, ImplementPoller, PollAbstract!Spec, EpollAbstract!Spec
=============================================================================
