------------------------------ MODULE PpsManager ------------------------------
(***************************************************************************)
(* PPSManager (testPPS/pps_qnx_claude_app1_with_buffer.cpp): publishers    *)
(* queue messages, a writer thread writes them to the objects of QNX's PPS *)
(* file system, and a reader thread, told of changes by pulses, reads the  *)
(* objects into pooled buffers and calls the subscribers.                  *)
(*                                                                         *)
(* PPS, ionotify() and the channel are outside the repository.  An object  *)
(* keeps the last thing written; a descriptor has something to read when   *)
(* its object has been written since it was opened or last read, and may   *)
(* have when it has just been opened.  ionotify() is called with           *)
(* _NOTIFY_ACTION_POLLARM: if there is something to read it only says so,  *)
(* in a return value above 0 that the code does not look at; if not, it    *)
(* arms the descriptor, which then sends one pulse at the next change.     *)
(* Messages are numbered in the order in which publish() queues them.      *)
(***************************************************************************)
EXTENDS Naturals, Sequences

CONSTANTS
    Paths,         \* the PPS objects
    Subscribers,   \* each subscribes once, to one of them
    NoPath,        \* what the stop pulse carries
    NumBuffers,    \* what the pool starts with (8 in the code)
    MaxPool,       \* max_pool_size_
    MaxMessages,   \* bound: calls of publish()
    MaxFaults      \* bound: calls of open(), read(), write(), ionotify() that fail

ASSUME PpsAssumption ==
    /\ NoPath \notin Paths
    /\ NumBuffers \in Nat /\ MaxPool \in Nat /\ NumBuffers <= MaxPool
    /\ MaxMessages \in Nat /\ MaxFaults \in Nat

VARIABLES
    write_queue_,  \* PPSWriter: queued messages
    writing,       \* its flag running_
    writer,        \* where writerLoop() is, and with which message
    fds,           \* pps_fds_: the objects open for writing
    object,        \* PPS: the last message written to each object, 0: none
    exists,        \* PPS: the objects that have been created
    reading,       \* PPSReader: its flag running_
    reader,        \* where readerLoop() is, with which object and message
    subs,          \* subscriptions_: the objects open for reading
    listeners,     \* the subscribers of each, dead ones included
    armed,         \* descriptors that will send a pulse
    unread,        \* descriptors with something to read
    pulses,        \* the channel
    available_,    \* buffers in the pool
    alive,         \* subscribers somebody still owns
    seen,          \* the last message each was called with
    owner,         \* where the owner is in stop()
    sent, faults,  \* counts
    lost           \* messages that could not be written

writerVars == <<write_queue_, writing, writer, fds, lost>>
ppsVars == <<object, exists>>
readerVars == <<reading, reader, subs, listeners, armed, unread, pulses,
                available_, seen>>
counts == <<sent, faults>>
vars == <<writerVars, ppsVars, readerVars, alive, owner, counts>>

Messages == [path : Paths, num : 1 .. MaxMessages]
At(where) == [at |-> where, path |-> NoPath, num |-> 0]
\* The writer holds queue_mutex_ from its test to its sleep; the reader holds
\* sub_mutex_ from before it reads until it has armed the descriptor again.
QueueLocked == writer.at = "looked"
SubsLocked == reader.at \in {"call", "rearm", "fail"}

-----------------------------------------------------------------------------

\* The state once start() has started both threads.
Init ==
    /\ write_queue_ = <<>> /\ writing = TRUE /\ writer = At("loop") /\ fds = {}
    /\ object = [p \in Paths |-> 0]
    /\ exists \in SUBSET Paths
    /\ reading = TRUE /\ reader = At("loop")
    /\ subs = {} /\ listeners = [p \in Paths |-> {}]
    /\ armed = {} /\ unread = {} /\ pulses = <<>>
    /\ available_ = NumBuffers
    /\ alive = Subscribers /\ seen = [s \in Subscribers |-> 0]
    /\ owner = "using"
    /\ sent = 0 /\ faults = 0 /\ lost = {}

-----------------------------------------------------------------------------
(* PPSWriter *)

Woken == IF writer.at = "asleep" THEN At("wait") ELSE writer

\* publish(): it notifies after it has let the mutex go, which can only wake
\* the writer once more than this.
publish(p) ==
    /\ owner = "using"
    /\ sent < MaxMessages
    /\ ~QueueLocked
    /\ sent' = sent + 1
    /\ write_queue_' = Append(write_queue_, [path |-> p, num |-> sent + 1])
    /\ writer' = Woken
    /\ UNCHANGED <<writing, fds, lost, ppsVars, readerVars, alive, owner, faults>>

\* while (running_)
WriterLoops ==
    /\ writer.at = "loop"
    /\ writer' = At(IF writing THEN "wait" ELSE "ended")
    /\ UNCHANGED <<write_queue_, writing, fds, lost, ppsVars, readerVars, alive,
                   owner, counts>>

\* Mutant: a stack in place of the queue.
PopLast ==
    /\ writer' = [at |-> "write", path |-> write_queue_[Len(write_queue_)].path,
                  num |-> write_queue_[Len(write_queue_)].num]
    /\ write_queue_' = SubSeq(write_queue_, 1, Len(write_queue_) - 1)

\* Takes the first message and lets the mutex go.
Pop ==
    /\ writer' = [at |-> "write", path |-> Head(write_queue_).path,
                  num |-> Head(write_queue_).num]
    /\ write_queue_' = Tail(write_queue_)

\* The predicate of wait(), and the test and the first pop behind it: what is
\* still queued when running_ is false stays in the queue.
WriterLooks ==
    /\ writer.at = "wait"
    /\ \/ ~writing /\ writer' = At("ended") /\ UNCHANGED write_queue_
       \/ writing /\ write_queue_ # <<>> /\ Pop
       \/ writing /\ write_queue_ = <<>> /\ writer' = At("looked") /\ UNCHANGED write_queue_
    /\ UNCHANGED <<writing, fds, lost, ppsVars, readerVars, alive, owner, counts>>

WriterSleeps ==
    /\ writer.at = "looked"
    /\ writer' = At("asleep")
    /\ UNCHANGED <<write_queue_, writing, fds, lost, ppsVars, readerVars, alive,
                   owner, counts>>

\* A condition variable may wake a thread for no reason.
WakeSpuriously ==
    /\ writer.at = "asleep"
    /\ writer' = At("wait")
    /\ UNCHANGED <<write_queue_, writing, fds, lost, ppsVars, readerVars, alive,
                   owner, counts>>

\* What the file system does with a write: it wakes who watches the object.
Changed(p) ==
    /\ unread' = IF p \in subs THEN unread \cup {p} ELSE unread
    /\ armed' = armed \ {p}
    /\ pulses' = IF p \in armed THEN Append(pulses, p) ELSE pulses

\* writeToPPS() with getOrOpenPPS(): the object is created if need be.  A
\* message that cannot be written is lost; a descriptor on which write()
\* fails is closed, and opened again for the next message.
writeToPPS ==
    /\ writer.at = "write"
    /\ \/ /\ object' = [object EXCEPT ![writer.path] = writer.num]
          /\ exists' = exists \cup {writer.path}
          /\ fds' = fds \cup {writer.path}
          /\ Changed(writer.path)
          /\ UNCHANGED <<lost, faults>>
       \/ /\ faults < MaxFaults
          /\ faults' = faults + 1
          /\ lost' = lost \cup {writer.num}
          /\ fds' = fds \ {writer.path}
          /\ exists' \in {exists, exists \cup {writer.path}}
          /\ UNCHANGED <<object, unread, armed, pulses>>
    /\ writer' = At("next")
    /\ UNCHANGED <<write_queue_, writing, reading, reader, subs, listeners,
                   available_, seen, alive, owner, sent>>

\* The inner loop goes on while there are messages, whatever running_ says.
WriterNext ==
    /\ writer.at = "next"
    /\ IF write_queue_ # <<>> THEN Pop ELSE writer' = At("loop") /\ UNCHANGED write_queue_
    /\ UNCHANGED <<writing, fds, lost, ppsVars, readerVars, alive, owner, counts>>

Write == WriterLoops \/ WriterLooks \/ WriterSleeps \/ writeToPPS \/ WriterNext

-----------------------------------------------------------------------------
(* PPSReader *)

\* Mutant: _NOTIFY_ACTION_TRANARM, as in pps_qnx_2.cpp:66, which arms for the
\* next change whether or not there is something to read.
ArmAlways(p, toRead) == armed' = armed \cup {p}

\* ionotify() on p, given what there is to read: a descriptor that has
\* something to read is not armed.
Arm(p, toRead) == armed' = armed \cup ({p} \ toRead)

Subscribed(s) == \E p \in Paths : s \in listeners[p]

\* subscribe(): the first for an object opens it, which needs the object to
\* exist, and arms the descriptor.  Both can fail, and then nothing is left
\* behind.  Whether PPS counts what the object held before as something to
\* read is left open; if it does, the descriptor is not armed.
subscribe(p, s) ==
    /\ owner = "using"
    /\ s \in alive /\ ~Subscribed(s)
    /\ ~SubsLocked
    /\ \/ /\ p \in subs
          /\ listeners' = [listeners EXCEPT ![p] = @ \cup {s}]
          /\ UNCHANGED <<subs, unread, armed, faults>>
       \/ /\ p \notin subs /\ p \in exists
          /\ subs' = subs \cup {p}
          /\ unread' \in {unread, unread \cup {p}}
          /\ Arm(p, unread')
          /\ listeners' = [listeners EXCEPT ![p] = @ \cup {s}]
          /\ UNCHANGED faults
       \/ /\ p \notin subs /\ faults < MaxFaults
          /\ faults' = faults + 1
          /\ UNCHANGED <<subs, listeners, unread, armed>>
    /\ UNCHANGED <<writerVars, ppsVars, reading, reader, pulses, available_, seen,
                   alive, owner, sent>>

\* Nobody owns s any more: its weak_ptr expires.
Forget(s) ==
    /\ s \in alive
    /\ alive' = alive \ {s}
    /\ UNCHANGED <<writerVars, ppsVars, readerVars, owner, counts>>

\* while (running_)
ReaderLoops ==
    /\ reader.at = "loop"
    /\ reader' = At(IF reading THEN "receive" ELSE "ended")
    /\ UNCHANGED <<writerVars, ppsVars, reading, subs, listeners, armed, unread,
                   pulses, available_, seen, alive, owner, counts>>

\* MsgReceive() waits for a pulse, whose value is the descriptor to read.
Receive ==
    /\ reader.at = "receive"
    /\ pulses # <<>>
    /\ reader' = IF reading
                 THEN [at |-> "read", path |-> Head(pulses), num |-> 0]
                 ELSE At("ended")
    /\ pulses' = Tail(pulses)
    /\ UNCHANGED <<writerVars, ppsVars, reading, subs, listeners, armed, unread,
                   available_, seen, alive, owner, counts>>

\* readAndNotify(): a buffer is taken and the object read into it.
Read ==
    /\ reader.at = "read"
    /\ available_' = IF available_ > 0 THEN available_ - 1 ELSE available_
    /\ \/ /\ reader.path \in unread
          /\ unread' = unread \ {reader.path}
          /\ reader' = [reader EXCEPT !.at = "call", !.num = object[reader.path]]
          /\ UNCHANGED faults
       \/ /\ reader.path \notin unread \/ faults < MaxFaults
          /\ faults' = IF reader.path \in unread THEN faults + 1 ELSE faults
          /\ reader' = [reader EXCEPT !.at = "fail"]
          /\ UNCHANGED unread
    /\ UNCHANGED <<writerVars, ppsVars, reading, subs, listeners, armed, pulses,
                   seen, alive, owner, sent>>

\* Mutant: with nobody left to call, the descriptor is not armed again.
CallOrReturn ==
    /\ reader.at = "call"
    /\ seen' = [s \in Subscribers |->
                  IF s \in listeners[reader.path] \cap alive THEN reader.num ELSE seen[s]]
    /\ listeners' = [listeners EXCEPT ![reader.path] = @ \cap alive]
    /\ reader' = IF listeners'[reader.path] = {} THEN At("loop")
                 ELSE [reader EXCEPT !.at = "rearm"]
    /\ UNCHANGED <<writerVars, ppsVars, reading, subs, armed, unread, pulses,
                   available_, alive, owner, counts>>

\* Mutant: the loop ends at a subscriber that is gone, and nobody is called.
CallUntilGone ==
    /\ reader.at = "call"
    /\ seen' = [s \in Subscribers |->
                  IF s \in listeners[reader.path] /\ listeners[reader.path] \subseteq alive
                  THEN reader.num ELSE seen[s]]
    /\ listeners' = [listeners EXCEPT ![reader.path] = @ \cap alive]
    /\ reader' = [reader EXCEPT !.at = "rearm"]
    /\ UNCHANGED <<writerVars, ppsVars, reading, subs, armed, unread, pulses,
                   available_, alive, owner, counts>>

\* The subscribers that are alive are called, and the others struck off.
Call ==
    /\ reader.at = "call"
    /\ seen' = [s \in Subscribers |->
                  IF s \in listeners[reader.path] \cap alive THEN reader.num ELSE seen[s]]
    /\ listeners' = [listeners EXCEPT ![reader.path] = @ \cap alive]
    /\ reader' = [reader EXCEPT !.at = "rearm"]
    /\ UNCHANGED <<writerVars, ppsVars, reading, subs, armed, unread, pulses,
                   available_, alive, owner, counts>>

Released == IF available_ < MaxPool THEN available_ + 1 ELSE available_

\* The descriptor is armed again, unless there is something to read by now,
\* or ionotify() fails: neither is noticed.
Rearm ==
    /\ reader.at = "rearm"
    /\ \/ Arm(reader.path, unread) /\ UNCHANGED faults
       \/ faults < MaxFaults /\ faults' = faults + 1 /\ UNCHANGED armed
    /\ available_' = Released
    /\ reader' = At("loop")
    /\ UNCHANGED <<writerVars, ppsVars, reading, subs, listeners, unread, pulses,
                   seen, alive, owner, sent>>

\* A read that failed, or found nothing: the subscribers are told of the
\* error, and the descriptor is not armed again.
Fail ==
    /\ reader.at = "fail"
    /\ available_' = Released
    /\ reader' = At("loop")
    /\ UNCHANGED <<writerVars, ppsVars, reading, subs, listeners, armed, unread,
                   pulses, seen, alive, owner, counts>>

Reading == ReaderLoops \/ Receive \/ Read \/ Call \/ Rearm \/ Fail

-----------------------------------------------------------------------------
(* PPSManager::stop(): first the writer's, then the reader's. *)

\* running_.exchange(false) takes no mutex.
StopWriter ==
    /\ owner = "using"
    /\ writing' = FALSE
    /\ owner' = "flagged"
    /\ UNCHANGED <<write_queue_, writer, fds, lost, ppsVars, readerVars, alive, counts>>

NotifyWriter ==
    /\ owner = "flagged"
    /\ writer' = Woken
    /\ owner' = "joining"
    /\ UNCHANGED <<write_queue_, writing, fds, lost, ppsVars, readerVars, alive, counts>>

\* The writer is joined and its descriptors closed; then the reader is told.
StopReader ==
    /\ owner = "joining"
    /\ writer.at = "ended"
    /\ fds' = {}
    /\ reading' = FALSE
    /\ owner' = "pulsing"
    /\ UNCHANGED <<write_queue_, writing, writer, lost, ppsVars, reader, subs,
                   listeners, armed, unread, pulses, available_, seen,
                   alive, counts>>

\* Mutant: no pulse is sent.
PulseNobody ==
    /\ owner = "pulsing"
    /\ owner' = "waiting"
    /\ UNCHANGED <<writerVars, ppsVars, readerVars, alive, counts>>

PulseReader ==
    /\ owner = "pulsing"
    /\ pulses' = Append(pulses, NoPath)
    /\ owner' = "waiting"
    /\ UNCHANGED <<writerVars, ppsVars, reading, reader, subs, listeners, armed,
                   unread, available_, seen, alive, counts>>

\* The reader is joined, its descriptors are closed, the channel destroyed.
JoinReader ==
    /\ owner = "waiting"
    /\ reader.at = "ended"
    /\ subs' = {} /\ listeners' = [p \in Paths |-> {}]
    /\ armed' = {} /\ unread' = {} /\ pulses' = <<>>
    /\ owner' = "stopped"
    /\ UNCHANGED <<writerVars, ppsVars, reading, reader, available_, seen,
                   alive, counts>>

Stop == NotifyWriter \/ StopReader \/ PulseReader \/ JoinReader

Next ==
    \/ \E p \in Paths : publish(p) \/ \E s \in Subscribers : subscribe(p, s)
    \/ \E s \in Subscribers : Forget(s)
    \/ Write \/ WakeSpuriously
    \/ Reading
    \/ StopWriter \/ Stop

Spec == Init /\ [][Next]_vars

\* The threads go on, and so does a stop() once it has been called.
FairSpec == Spec /\ WF_vars(Write) /\ WF_vars(Reading) /\ WF_vars(Stop)

-----------------------------------------------------------------------------
(* Properties *)

WriterTypeOK ==
    /\ write_queue_ \in Seq(Messages) /\ writing \in BOOLEAN
    /\ writer \in [at : {"loop", "wait", "looked", "asleep", "write", "next", "ended"},
                   path : Paths \cup {NoPath}, num : 0 .. MaxMessages]
    /\ writer.at = "write" => writer.path \in Paths /\ writer.num > 0
    /\ fds \subseteq Paths /\ lost \subseteq 1 .. MaxMessages
    /\ sent \in 0 .. MaxMessages /\ faults \in 0 .. MaxFaults
    /\ owner \in {"using", "flagged", "joining", "pulsing", "waiting", "stopped"}

ReaderTypeOK ==
    /\ reading \in BOOLEAN
    /\ reader \in [at : {"loop", "receive", "read", "call", "rearm", "fail", "ended"},
                   path : Paths \cup {NoPath}, num : 0 .. MaxMessages]
    /\ listeners \in [Paths -> SUBSET Subscribers]
    /\ alive \subseteq Subscribers /\ seen \in [Subscribers -> 0 .. MaxMessages]
    /\ available_ \in 0 .. MaxPool

ObjectTypeOK ==
    /\ object \in [Paths -> 0 .. MaxMessages] /\ exists \subseteq Paths
    /\ subs \subseteq exists /\ armed \subseteq subs /\ unread \subseteq subs
    /\ pulses \in Seq(Paths \cup {NoPath})

TypeOK == WriterTypeOK /\ ReaderTypeOK /\ ObjectTypeOK

InHand(p) == reader.path = p /\ reader.at \in {"read", "call", "rearm"}
NoPulse(p) == \A i \in DOMAIN pulses : pulses[i] # p
OnePulse(p) == \E i \in DOMAIN pulses :
                   /\ pulses[i] = p
                   /\ \A j \in DOMAIN pulses : pulses[j] = p => j = i

\* Nobody will look at p again: its descriptor is not armed, no pulse for it
\* is under way, and the reader is not at work on it.
Unwatched(p) == p \notin armed /\ NoPulse(p) /\ ~InHand(p)

\* An object is never watched in two ways: it has an armed descriptor, with
\* nothing to read, or one pulse under way, for something to read, or it is in
\* the reader's hand, or none of them.  So no change is answered by two
\* pulses, and no pulse finds nothing.
WatchedOnce ==
    /\ armed \cap unread = {}
    /\ \A p \in Paths :
         \/ p \in armed /\ NoPulse(p) /\ ~InHand(p)
         \/ p \notin armed /\ OnePulse(p) /\ ~InHand(p) /\ p \in unread
         \/ /\ p \notin armed /\ NoPulse(p) /\ InHand(p)
            /\ reader.at = "read" => p \in unread
         \/ Unwatched(p)

\* An object stays watched until a call fails, or it is armed while there is
\* something to read: when it is opened, when it was written between the read
\* and the re-arming, or when the reader ends on its pulse.  Then that is what
\* nobody will read.
WatchLostOnlyInTheGap ==
    [][\A p \in subs' :
          Unwatched(p)' => \/ p \in subs /\ Unwatched(p)
                          \/ p \in unread'
                          \/ faults' > faults]_vars

\* What its proof needs besides: pulses and the reader's work are about
\* subscribed objects, and the pulse of stop() comes after the flag.
FlagBeforePulse == owner = "pulsing" => ~reading
PulsesKnown ==
    /\ reader.at \in {"read", "call", "rearm", "fail"} => reader.path \in subs
    /\ \A i \in DOMAIN pulses : pulses[i] \in subs \/ (pulses[i] = NoPath /\ ~reading)

\* The invariant behind the next property: what is queued is newer than what
\* is being written, that than what the objects hold, and that than what has
\* been read and seen.
QueueOrdered ==
    /\ \A i, j \in DOMAIN write_queue_ : i < j => write_queue_[i].num < write_queue_[j].num
    /\ \A i \in DOMAIN write_queue_ :
          /\ write_queue_[i].num <= sent
          /\ writer.at = "write" => writer.num < write_queue_[i].num
          /\ \A p \in Paths : object[p] < write_queue_[i].num
    /\ writer.at = "write" => writer.num <= sent /\ \A p \in Paths : object[p] < writer.num
    /\ \A p \in Paths : object[p] <= sent

SeenOrdered ==
    /\ reader.at = "call" => reader.num <= object[reader.path]
    /\ \A s \in Subscribers, p \in Paths : s \in listeners[p] =>
          /\ seen[s] <= object[p]
          /\ reader.at = "call" /\ reader.path = p => seen[s] <= reader.num
          /\ \A q \in Paths : s \in listeners[q] => q = p
    /\ \A s \in alive : ~Subscribed(s) /\ owner # "stopped" => seen[s] = 0

PpsInv ==
    /\ TypeOK /\ FlagBeforePulse /\ PulsesKnown /\ WatchedOnce
    /\ QueueOrdered /\ SeenOrdered

\* Objects, and what a subscriber is called with, never go back to an older
\* message: not by the queue, nor by reading late.
NeverBackwards ==
    [][/\ \A p \in Paths : object'[p] >= object[p]
       /\ \A s \in Subscribers : seen'[s] >= seen[s]]_vars

\* What is published reaches everyone subscribed to it at the time, itself or
\* as something newer, unless it could not be written, the subscriber is
\* gone, the object is no longer watched, or the manager is being stopped.
PublishedIsSeen ==
    \A s \in Subscribers, p \in Paths, n \in 1 .. MaxMessages :
        (s \in listeners[p] /\ \E i \in DOMAIN write_queue_ :
                                  write_queue_[i] = [path |-> p, num |-> n])
        ~> \/ seen[s] >= n
           \/ n \in lost \/ s \notin alive \/ Unwatched(p)
           \/ owner # "using"

\* What line 647 says the re-arming is for ("Re-arm the notification for next
\* update"): as long as no call fails, who listens to an armed descriptor is
\* called with what is published next.  It is not so: what is written between
\* the read and the re-arming leaves the descriptor unarmed.
NextUpdateIsSeen ==
    \A s \in Subscribers, p \in Paths, n \in 1 .. MaxMessages :
        (p \in armed /\ s \in listeners[p] /\ \E i \in DOMAIN write_queue_ :
                                  write_queue_[i] = [path |-> p, num |-> n])
        ~> \/ seen[s] >= n
           \/ s \notin alive \/ faults > 0 \/ owner # "using"

\* stop() waits for a writer that sleeps and has been notified already.
Hung == owner = "joining" /\ writer.at = "asleep"

\* The only way into it: a writer goes to sleep on a test that both the flag
\* and the notification have overtaken, because the flag is not set under
\* queue_mutex_.
HangsOnlyInTheGap == [][~Hung /\ Hung' => WriterSleeps]_vars

\* stop() returns, unless it hangs in that way.
StopEndsOrHangs ==
    /\ (owner = "flagged") ~> (owner = "stopped" \/ Hung)
    /\ HangsOnlyInTheGap
=============================================================================
