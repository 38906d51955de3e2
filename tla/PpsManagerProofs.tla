--------------------------- MODULE PpsManagerProofs ---------------------------
(***************************************************************************)
(* Proofs about module PpsManager, for any sets of objects and subscribers *)
(* and any bounds on messages, faults and buffers.                         *)
(***************************************************************************)
EXTENDS PpsManager, TLAPS

\* What Append and Tail do, element by element.
LEMMA AppendAt ==
    ASSUME NEW S, NEW q \in Seq(S), NEW x \in S
    PROVE  /\ Append(q, x) \in Seq(S)
           /\ DOMAIN Append(q, x) = DOMAIN q \cup {Len(q) + 1}
           /\ Len(q) + 1 \notin DOMAIN q
           /\ \A i \in DOMAIN q : Append(q, x)[i] = q[i] /\ i \in Nat /\ i < Len(q) + 1
           /\ Append(q, x)[Len(q) + 1] = x
  OBVIOUS

\* What is left of a queue moves one place to the front.
LEMMA TailAt ==
    ASSUME NEW S, NEW q \in Seq(S), q # <<>>
    PROVE  /\ Head(q) \in S /\ Tail(q) \in Seq(S)
           /\ 1 \in DOMAIN q /\ q[1] = Head(q)
           /\ \A i \in DOMAIN Tail(q) :
                 i \in Nat /\ i + 1 \in DOMAIN q /\ 1 < i + 1 /\ Tail(q)[i] = q[i + 1]
           /\ \A i \in DOMAIN q :
                 i = 1 \/ (i \in Nat /\ i - 1 \in DOMAIN Tail(q) /\ Tail(q)[i - 1] = q[i])
  OBVIOUS

-----------------------------------------------------------------------------
(* Types *)

\* The types of the initial state.
LEMMA TypeInit == Init => TypeOK
<1>1. << >> \in Seq(Messages) /\ << >> \in Seq(Paths \cup {NoPath})
  OBVIOUS
<1>2. QED BY <1>1, PpsAssumption
  DEF Init, TypeOK, WriterTypeOK, ReaderTypeOK, ObjectTypeOK, At

\* The writer takes the front of its queue.
LEMMA PopTypes ==
    ASSUME TypeOK, write_queue_ # <<>>, Pop
    PROVE  /\ write_queue_' \in Seq(Messages)
           /\ writer' \in [at : {"write"}, path : Paths, num : 1 .. MaxMessages]
           /\ writer'.path = write_queue_[1].path /\ writer'.num = write_queue_[1].num
<1>1. write_queue_ \in Seq(Messages)  BY DEF TypeOK, WriterTypeOK
<1>2. Head(write_queue_) \in Messages /\ Tail(write_queue_) \in Seq(Messages)
      /\ write_queue_[1] = Head(write_queue_)
  BY <1>1, TailAt
<1>3. QED BY <1>2 DEF Pop, Messages

\* The writer's side.
LEMMA WriterTypeStep == TypeOK /\ [Next]_vars => WriterTypeOK'
<1>1. SUFFICES ASSUME TypeOK, [Next]_vars PROVE WriterTypeOK'
  OBVIOUS
<1>2. WriterTypeOK  BY <1>1 DEF TypeOK
<1> USE <1>2, PpsAssumption DEF WriterTypeOK
<1>3. ASSUME NEW p \in Paths, publish(p) PROVE WriterTypeOK'
  <2>1. [path |-> p, num |-> sent + 1] \in Messages
    BY <1>3 DEF publish, Messages
  <2>2. write_queue_' \in Seq(Messages)
    BY <1>3, <2>1 DEF publish
  <2>3. QED BY <1>3, <2>2 DEF publish, Woken, At
<1>4. ASSUME NEW p \in Paths, NEW s \in Subscribers, subscribe(p, s) PROVE WriterTypeOK'
  BY <1>4 DEF subscribe, writerVars
<1>5. ASSUME NEW s \in Subscribers, Forget(s) PROVE WriterTypeOK'
  BY <1>5 DEF Forget, writerVars, counts
<1> DEFINE Places == {"loop", "wait", "looked", "asleep", "write", "next", "ended"}
           Rest == <<writing, fds, lost, sent, faults, owner>>
<1>a. ASSUME UNCHANGED <<Rest, write_queue_>>,
             NEW w \in Places \ {"write"}, writer' = At(w)
      PROVE  WriterTypeOK'
  BY <1>a DEF At
<1>6. CASE WriterLoops \/ WriterSleeps \/ WakeSpuriously
  BY <1>6, <1>a DEF WriterLoops, WriterSleeps, WakeSpuriously, counts
<1>7. CASE WriterLooks \/ WriterNext
  <2>0. UNCHANGED Rest
    BY <1>7 DEF WriterLooks, WriterNext, counts
  <2>1. CASE Pop /\ write_queue_ # <<>>
    <3>1. /\ write_queue_' \in Seq(Messages)
          /\ writer' \in [at : {"write"}, path : Paths, num : 1 .. MaxMessages]
      BY <1>1, <2>1, PopTypes
    <3>2. QED BY <2>0, <3>1
  <2>2. CASE \E w \in {"ended", "looked", "loop"} : writer' = At(w) /\ UNCHANGED write_queue_
    BY <2>0, <2>2, <1>a
  <2>3. QED BY <1>7, <2>1, <2>2 DEF WriterLooks, WriterNext
<1>8. CASE writeToPPS
  <2>1. writer.path \in Paths /\ writer.num \in 1 .. MaxMessages
    BY <1>8 DEF writeToPPS
  <2>2. writer' = At("next") /\ UNCHANGED <<write_queue_, writing, sent, owner>>
    BY <1>8 DEF writeToPPS
  <2>3. fds' \subseteq Paths /\ lost' \subseteq 1 .. MaxMessages /\ faults' \in 0 .. MaxFaults
    <3>1. /\ fds' \in {fds \cup {writer.path}, fds \ {writer.path}}
          /\ lost' \in {lost, lost \cup {writer.num}}
          /\ faults' = faults \/ (faults < MaxFaults /\ faults' = faults + 1)
      BY <1>8 DEF writeToPPS
    <3>2. QED BY <2>1, <3>1
  <2>4. QED BY <2>2, <2>3 DEF At
<1>9. CASE Reading
  <2>1. UNCHANGED <<writerVars, sent, owner>>
        /\ (faults' = faults \/ (faults < MaxFaults /\ faults' = faults + 1))
    BY <1>9 DEF Reading, ReaderLoops, Receive, Read, Call, Rearm, Fail, counts
  <2>2. QED BY <2>1 DEF writerVars
<1>10. CASE StopWriter \/ StopReader \/ PulseReader \/ JoinReader
  BY <1>10 DEF StopWriter, StopReader, PulseReader, JoinReader, writerVars, counts
<1>b. CASE NotifyWriter
  BY <1>b DEF NotifyWriter, Woken, At, counts
<1>11. CASE UNCHANGED vars
  BY <1>11 DEF vars, writerVars, counts
<1>12. QED
  BY <1>1, <1>3, <1>4, <1>5, <1>6, <1>7, <1>8, <1>9, <1>10, <1>b, <1>11
  DEF Next, Write, Stop

\* The reader's side.
LEMMA ReaderTypeStep == TypeOK /\ PulsesKnown /\ [Next]_vars => ReaderTypeOK'
<1>1. SUFFICES ASSUME TypeOK, PulsesKnown, [Next]_vars PROVE ReaderTypeOK'
  OBVIOUS
<1>2. ReaderTypeOK  BY <1>1 DEF TypeOK
<1> USE <1>2, PpsAssumption DEF ReaderTypeOK
<1>3. ASSUME NEW p \in Paths, publish(p) PROVE ReaderTypeOK'
  BY <1>3 DEF publish, readerVars
<1>4. ASSUME NEW p \in Paths, NEW s \in Subscribers, subscribe(p, s) PROVE ReaderTypeOK'
  <2>1. listeners' \in {listeners, [listeners EXCEPT ![p] = @ \cup {s}]}
        /\ UNCHANGED <<reading, reader, alive, seen, available_>>
    BY <1>4 DEF subscribe
  <2>2. QED BY <2>1
<1>5. ASSUME NEW s \in Subscribers, Forget(s) PROVE ReaderTypeOK'
  BY <1>5 DEF Forget, readerVars
<1>6. CASE WriterLoops \/ WriterSleeps \/ WakeSpuriously \/ WriterLooks \/ WriterNext
  BY <1>6 DEF WriterLoops, WriterSleeps, WakeSpuriously, WriterLooks, WriterNext, readerVars
<1>7. CASE writeToPPS
  BY <1>7 DEF writeToPPS
<1>8. CASE ReaderLoops
  BY <1>8 DEF ReaderLoops, At
<1>9. CASE Receive
  <2>1. Head(pulses) \in Paths \cup {NoPath}
    BY <1>1, <1>9, TailAt DEF Receive, TypeOK, ObjectTypeOK
  <2>2. reader' \in {At("ended"), [at |-> "read", path |-> Head(pulses), num |-> 0]}
        /\ UNCHANGED <<reading, listeners, alive, seen, available_>>
    BY <1>9 DEF Receive
  <2>3. QED BY <2>1, <2>2 DEF At
<1>10. CASE Read
  <2>1. object[reader.path] \in 0 .. MaxMessages
    BY <1>1, <1>10 DEF Read, PulsesKnown, TypeOK, ObjectTypeOK
  <2>2. /\ reader' \in {[reader EXCEPT !.at = "call", !.num = object[reader.path]],
                        [reader EXCEPT !.at = "fail"]}
        /\ available_' \in {available_, available_ - 1} /\ available_' >= 0
        /\ UNCHANGED <<reading, listeners, alive, seen>>
    BY <1>10 DEF Read
  <2>3. reader' \in [at : {"call", "fail"}, path : Paths \cup {NoPath}, num : 0 .. MaxMessages]
    BY <2>1, <2>2
  <2>4. QED BY <2>2, <2>3
<1>11. CASE Call
  <2>1. listeners' = [listeners EXCEPT ![reader.path] = @ \cap alive]
        /\ reader' = [reader EXCEPT !.at = "rearm"] /\ UNCHANGED <<reading, alive, available_>>
    BY <1>11 DEF Call
  <2>2. seen' \in [Subscribers -> 0 .. MaxMessages]
    BY <1>11 DEF Call
  <2>3. QED BY <2>1, <2>2
<1>12. CASE Rearm \/ Fail
  <2>1. reader' = At("loop") /\ available_' = Released /\ UNCHANGED <<reading, listeners, alive, seen>>
    BY <1>12 DEF Rearm, Fail
  <2>2. QED BY <2>1 DEF At, Released
<1>13. CASE StopWriter \/ NotifyWriter \/ PulseReader
  BY <1>13 DEF StopWriter, NotifyWriter, PulseReader, readerVars
<1>14. CASE StopReader
  <2>1. reading' = FALSE /\ UNCHANGED <<reader, listeners, alive, seen, available_>>
    BY <1>14 DEF StopReader
  <2>2. QED BY <2>1
<1>15. CASE JoinReader
  BY <1>15 DEF JoinReader
<1>16. CASE UNCHANGED vars
  BY <1>16 DEF vars, readerVars
<1>17. QED
  BY <1>1, <1>3, <1>4, <1>5, <1>6, <1>7, <1>8, <1>9, <1>10, <1>11, <1>12, <1>13, <1>14,
     <1>15, <1>16 DEF Next, Write, Reading, Stop

\* The objects, their descriptors and the channel.
LEMMA ObjectTypeStep == TypeOK /\ PulsesKnown /\ [Next]_vars => ObjectTypeOK'
<1>1. SUFFICES ASSUME TypeOK, PulsesKnown, [Next]_vars PROVE ObjectTypeOK'
  OBVIOUS
<1>2. ObjectTypeOK  BY <1>1 DEF TypeOK
<1> USE <1>2, PpsAssumption DEF ObjectTypeOK
<1> DEFINE Files == <<object, exists, subs, armed, unread, pulses>>
<1>3. ASSUME UNCHANGED Files PROVE ObjectTypeOK'
  BY <1>3
<1>4. ASSUME NEW p \in Paths, publish(p) PROVE ObjectTypeOK'
  BY <1>3, <1>4 DEF publish, readerVars, ppsVars
<1>5. ASSUME NEW p \in Paths, NEW s \in Subscribers, subscribe(p, s) PROVE ObjectTypeOK'
  <2>1. UNCHANGED <<object, exists, pulses>>
    BY <1>5 DEF subscribe, ppsVars
  <2>2. CASE UNCHANGED <<subs, unread, armed>>
    BY <1>3, <2>1, <2>2
  <2>3. CASE /\ p \in exists /\ subs' = subs \cup {p}
             /\ unread' \in {unread, unread \cup {p}}
             /\ Arm(p, unread')
    BY <2>1, <2>3 DEF Arm
  <2>4. QED BY <1>5, <2>2, <2>3 DEF subscribe
<1>6. ASSUME NEW s \in Subscribers, Forget(s) PROVE ObjectTypeOK'
  BY <1>3, <1>6 DEF Forget, readerVars, ppsVars
<1>7. CASE WriterLoops \/ WriterSleeps \/ WakeSpuriously \/ WriterLooks \/ WriterNext
  BY <1>3, <1>7 DEF WriterLoops, WriterSleeps, WakeSpuriously, WriterLooks, WriterNext,
     readerVars, ppsVars
<1>8. CASE writeToPPS
  <2>1. writer.path \in Paths /\ writer.num \in 0 .. MaxMessages
    BY <1>1, <1>8 DEF writeToPPS, TypeOK, WriterTypeOK
  <2>2. UNCHANGED subs
    BY <1>8 DEF writeToPPS
  <2>3. CASE /\ object' = [object EXCEPT ![writer.path] = writer.num]
             /\ exists' = exists \cup {writer.path} /\ Changed(writer.path)
    <3>1. /\ unread' \in {unread, unread \cup {writer.path}}
          /\ unread' \subseteq subs /\ armed' \subseteq armed
      BY <2>3 DEF Changed
    <3>2. pulses' \in Seq(Paths \cup {NoPath})
      BY <2>1, <2>3 DEF Changed
    <3>3. QED BY <2>1, <2>2, <2>3, <3>1, <3>2
  <2>4. CASE UNCHANGED <<object, unread, armed, pulses>> /\ exists' \in {exists, exists \cup {writer.path}}
    BY <2>1, <2>2, <2>4
  <2>5. QED BY <1>8, <2>3, <2>4 DEF writeToPPS
<1>9. CASE ReaderLoops \/ Call \/ Fail
  BY <1>3, <1>9 DEF ReaderLoops, Call, Fail, ppsVars
<1>10. CASE Receive
  <2>1. Tail(pulses) \in Seq(Paths \cup {NoPath})
    BY <1>10, TailAt DEF Receive
  <2>2. QED BY <1>10, <2>1 DEF Receive, ppsVars
<1>11. CASE Read
  <2>1. reader.path \in Paths
    BY <1>1, <1>11 DEF Read, PulsesKnown
  <2>2. /\ unread' \in {unread, unread \ {reader.path}}
        /\ UNCHANGED <<object, exists, subs, armed, pulses>>
    BY <1>11 DEF Read, ppsVars
  <2>3. QED BY <2>1, <2>2
<1>12. CASE Rearm
  <2>1. reader.path \in subs /\ reader.path \in Paths
    BY <1>1, <1>12 DEF Rearm, PulsesKnown
  <2>2. /\ UNCHANGED <<object, exists, subs, unread, pulses>>
        /\ armed' = armed \/ Arm(reader.path, unread)
    BY <1>12 DEF Rearm, ppsVars
  <2>3. QED BY <2>1, <2>2 DEF Arm
<1>13. CASE StopWriter \/ NotifyWriter \/ StopReader
  BY <1>3, <1>13 DEF StopWriter, NotifyWriter, StopReader, ppsVars, readerVars
<1>14. CASE PulseReader
  BY <1>14 DEF PulseReader, ppsVars
<1>15. CASE JoinReader
  BY <1>15 DEF JoinReader, ppsVars
<1>16. CASE UNCHANGED vars
  BY <1>3, <1>16 DEF vars, readerVars, ppsVars
<1>17. QED
  BY <1>1, <1>4, <1>5, <1>6, <1>7, <1>8, <1>9, <1>10, <1>11, <1>12, <1>13, <1>14,
     <1>15, <1>16 DEF Next, Write, Reading, Stop

-----------------------------------------------------------------------------
(* Pulses *)

\* How the pulses for p change when the channel gains or loses one.
LEMMA PulseSent ==
    ASSUME TypeOK, NEW x \in Paths \cup {NoPath}, pulses' = Append(pulses, x), NEW p \in Paths
    PROVE  /\ x # p => (NoPulse(p) => NoPulse(p)') /\ (OnePulse(p) => OnePulse(p)')
           /\ x = p /\ NoPulse(p) => OnePulse(p)'
           /\ \A S : (\A i \in DOMAIN pulses : pulses[i] \in S) /\ x \in S =>
                         \A i \in DOMAIN pulses' : pulses'[i] \in S
<1>1. pulses \in Seq(Paths \cup {NoPath})  BY DEF TypeOK, ObjectTypeOK
<1>2. /\ DOMAIN pulses' = DOMAIN pulses \cup {Len(pulses) + 1}
      /\ Len(pulses) + 1 \notin DOMAIN pulses
      /\ \A i \in DOMAIN pulses : pulses'[i] = pulses[i]
      /\ pulses'[Len(pulses) + 1] = x
  BY <1>1, AppendAt
<1>3. QED BY <1>2 DEF NoPulse, OnePulse

\* A received pulse leaves the others as they were.
LEMMA PulseTaken ==
    ASSUME TypeOK, pulses # <<>>, pulses' = Tail(pulses), NEW p \in Paths
    PROVE  /\ NoPulse(p) => Head(pulses) # p /\ NoPulse(p)'
           /\ OnePulse(p) /\ Head(pulses) # p => OnePulse(p)'
           /\ OnePulse(p) /\ Head(pulses) = p => NoPulse(p)'
           /\ \A i \in DOMAIN pulses' : \E j \in DOMAIN pulses : pulses'[i] = pulses[j]
<1>1. pulses \in Seq(Paths \cup {NoPath})  BY DEF TypeOK, ObjectTypeOK
<1>2. /\ 1 \in DOMAIN pulses /\ pulses[1] = Head(pulses)
      /\ \A i \in DOMAIN pulses' :
            i \in Nat /\ i + 1 \in DOMAIN pulses /\ 1 < i + 1 /\ pulses'[i] = pulses[i + 1]
      /\ \A i \in DOMAIN pulses :
            i = 1 \/ (i \in Nat /\ i - 1 \in DOMAIN pulses' /\ pulses'[i - 1] = pulses[i])
  BY <1>1, TailAt
<1>3. NoPulse(p) => Head(pulses) # p /\ NoPulse(p)'
  BY <1>2 DEF NoPulse
<1>4. ASSUME OnePulse(p), Head(pulses) # p PROVE OnePulse(p)'
  <2>1. PICK k \in DOMAIN pulses : pulses[k] = p /\ \A j \in DOMAIN pulses : pulses[j] = p => j = k
    BY <1>4 DEF OnePulse
  <2>2. k - 1 \in DOMAIN pulses' /\ pulses'[k - 1] = p /\ k \in Nat
    BY <1>2, <1>4, <2>1
  <2>3. ASSUME NEW j \in DOMAIN pulses', pulses'[j] = p PROVE j = k - 1
    <3>1. j + 1 = k /\ j \in Nat  BY <1>2, <2>1, <2>3
    <3>2. QED BY <2>2, <3>1
  <2>4. QED BY <2>2, <2>3 DEF OnePulse
<1>5. ASSUME OnePulse(p), Head(pulses) = p PROVE NoPulse(p)'
  <2>1. ASSUME NEW j \in DOMAIN pulses', pulses'[j] = p PROVE FALSE
    BY <1>2, <1>5, <2>1 DEF OnePulse
  <2>2. QED BY <2>1 DEF NoPulse
<1>6. QED BY <1>2, <1>3, <1>4, <1>5

\* A stop() sends its pulse after it has cleared the flag.
LEMMA FlagStep == FlagBeforePulse /\ [Next]_vars => FlagBeforePulse'
<1>1. SUFFICES ASSUME FlagBeforePulse, [Next]_vars, owner' = "pulsing", reading' PROVE FALSE
  BY DEF FlagBeforePulse
<1>2. ASSUME UNCHANGED <<owner, reading>> PROVE FALSE
  BY <1>1, <1>2 DEF FlagBeforePulse
<1>3. CASE \E p \in Paths : publish(p) \/ \E s \in Subscribers : subscribe(p, s)
  BY <1>2, <1>3 DEF publish, subscribe, readerVars
<1>4. CASE \E s \in Subscribers : Forget(s)
  BY <1>2, <1>4 DEF Forget, readerVars
<1>5. CASE Write \/ WakeSpuriously
  BY <1>2, <1>5 DEF Write, WriterLoops, WriterSleeps, WakeSpuriously, WriterLooks,
     WriterNext, writeToPPS, readerVars
<1>6. CASE Reading
  BY <1>2, <1>6 DEF Reading, ReaderLoops, Receive, Read, Call, Rearm, Fail
<1>7. CASE StopWriter \/ Stop
  BY <1>1, <1>7 DEF Stop, StopWriter, NotifyWriter, StopReader, PulseReader, JoinReader
<1>8. CASE UNCHANGED vars
  BY <1>2, <1>8 DEF vars, readerVars
<1>9. QED BY <1>1, <1>3, <1>4, <1>5, <1>6, <1>7, <1>8 DEF Next

\* Every pulse is of a known kind.
LEMMA PulsesStep == TypeOK /\ FlagBeforePulse /\ PulsesKnown /\ [Next]_vars => PulsesKnown'
<1>1. SUFFICES ASSUME TypeOK, FlagBeforePulse, PulsesKnown, [Next]_vars PROVE PulsesKnown'
  OBVIOUS
<1>2. ReaderTypeOK /\ ObjectTypeOK  BY <1>1 DEF TypeOK
<1> DEFINE Working == {"read", "call", "rearm", "fail"}
<1>3. /\ reader.at \in Working => reader.path \in subs
      /\ \A i \in DOMAIN pulses : pulses[i] \in subs \/ (pulses[i] = NoPath /\ ~reading)
  BY <1>1 DEF PulsesKnown
<1>4. ASSUME UNCHANGED <<pulses, reading>>, subs \subseteq subs',
             reader' = reader \/ (reader.at \in Working /\ reader'.path = reader.path)
                              \/ reader'.at \notin Working
      PROVE  PulsesKnown'
  BY <1>3, <1>4 DEF PulsesKnown
<1>5. ASSUME NEW x \in Paths \cup {NoPath}, pulses' = Append(pulses, x),
             x \in subs' \/ (x = NoPath /\ ~reading), subs \subseteq subs', reading' = reading,
             reader' = reader \/ reader'.at \notin Working
      PROVE  PulsesKnown'
  <2>1. /\ DOMAIN pulses' = DOMAIN pulses \cup {Len(pulses) + 1}
        /\ \A i \in DOMAIN pulses : pulses'[i] = pulses[i]
        /\ pulses'[Len(pulses) + 1] = x
    BY <1>2, <1>5, AppendAt DEF ObjectTypeOK
  <2>2. QED BY <1>3, <1>5, <2>1 DEF PulsesKnown
<1>6. ASSUME NEW p \in Paths, publish(p) PROVE PulsesKnown'
  BY <1>4, <1>6 DEF publish, readerVars
<1>7. ASSUME NEW p \in Paths, NEW s \in Subscribers, subscribe(p, s) PROVE PulsesKnown'
  <2>1. UNCHANGED <<reader, reading, pulses>> /\ subs \subseteq subs'
    BY <1>7 DEF subscribe
  <2>2. QED BY <1>4, <2>1
<1>8. ASSUME NEW s \in Subscribers, Forget(s) PROVE PulsesKnown'
  BY <1>4, <1>8 DEF Forget, readerVars
<1>9. CASE WriterLoops \/ WriterSleeps \/ WakeSpuriously \/ WriterLooks \/ WriterNext
  BY <1>4, <1>9 DEF WriterLoops, WriterSleeps, WakeSpuriously, WriterLooks, WriterNext,
     readerVars
<1>10. CASE writeToPPS
  <2>1. UNCHANGED <<reader, reading, subs>>  BY <1>10 DEF writeToPPS
  <2>2. CASE UNCHANGED pulses  BY <1>4, <2>1, <2>2
  <2>3. CASE writer.path \in armed /\ pulses' = Append(pulses, writer.path)
    BY <1>2, <1>5, <2>1, <2>3 DEF ObjectTypeOK
  <2>4. QED BY <1>10, <2>2, <2>3 DEF writeToPPS, Changed
<1>11. CASE ReaderLoops
  BY <1>4, <1>11 DEF ReaderLoops, At
<1>12. CASE Receive
  <2>1. /\ Head(pulses) = pulses[1] /\ 1 \in DOMAIN pulses
        /\ \A i \in DOMAIN pulses' : \E j \in DOMAIN pulses : pulses'[i] = pulses[j]
    BY <1>2, <1>12, TailAt DEF Receive, ObjectTypeOK
  <2>2. UNCHANGED <<subs, reading>>  BY <1>12 DEF Receive
  <2>3. reader' = At("ended") \/ (reading /\ reader' = [at |-> "read", path |-> Head(pulses), num |-> 0])
    BY <1>12 DEF Receive
  <2>4. QED BY <1>3, <2>1, <2>2, <2>3 DEF PulsesKnown, At
<1>13. CASE Read \/ Call
  <2>1. reader.at \in Working /\ reader'.path = reader.path /\ UNCHANGED <<pulses, reading, subs>>
    BY <1>2, <1>13 DEF Read, Call, ReaderTypeOK
  <2>2. QED BY <1>4, <2>1
<1>14. CASE Rearm \/ Fail
  <2>1. reader' = At("loop") /\ UNCHANGED <<reading, subs, pulses>>
    BY <1>14 DEF Rearm, Fail
  <2>2. QED BY <1>4, <2>1 DEF At
<1>15. CASE StopWriter \/ NotifyWriter
  BY <1>4, <1>15 DEF StopWriter, NotifyWriter, readerVars
<1>16. CASE StopReader
  BY <1>3, <1>16 DEF StopReader, PulsesKnown
<1>17. CASE PulseReader
  BY <1>1, <1>5, <1>17 DEF PulseReader, FlagBeforePulse
<1>18. CASE JoinReader
  BY <1>18 DEF JoinReader, PulsesKnown
<1>19. CASE UNCHANGED vars
  BY <1>4, <1>19 DEF vars, readerVars
<1>20. QED
  BY <1>1, <1>6, <1>7, <1>8, <1>9, <1>10, <1>11, <1>12, <1>13, <1>14, <1>15, <1>16, <1>17,
     <1>18, <1>19 DEF Next, Write, Reading, Stop

\* The ways in which an object is watched.
Watched(p) ==
    \/ p \in armed /\ NoPulse(p) /\ ~InHand(p)
    \/ p \notin armed /\ OnePulse(p) /\ ~InHand(p) /\ p \in unread
    \/ /\ p \notin armed /\ NoPulse(p) /\ InHand(p)
       /\ reader.at = "read" => p \in unread
    \/ Unwatched(p)

\* Whether p was watched, what is left to read of it, and whether a call fails
\* in this step.
Kept(p) == Unwatched(p)' => \/ p \in subs /\ Unwatched(p)
                            \/ p \in unread'
                            \/ faults' > faults

\* Every step leaves every object watched in one way or none, and only what is
\* armed too late, or a failed call, leaves it unwatched.
LEMMA WatchStep ==
    TypeOK /\ PulsesKnown /\ WatchedOnce /\ [Next]_vars =>
        WatchedOnce' /\ \A p \in subs' : Kept(p)
<1>0. TypeOK /\ PulsesKnown /\ [Next]_vars => subs' \subseteq Paths
  BY ObjectTypeStep DEF ObjectTypeOK
<1>1. SUFFICES ASSUME TypeOK, PulsesKnown, WatchedOnce, [Next]_vars
               PROVE  /\ armed' \cap unread' = {}
                      /\ \A p \in Paths : Watched(p)' /\ (p \in subs' => Kept(p))
  BY <1>0 DEF WatchedOnce, Watched
<1> DEFINE Goal == armed' \cap unread' = {}
                   /\ \A p \in Paths : Watched(p)' /\ (p \in subs' => Kept(p))
<1>2. ReaderTypeOK /\ ObjectTypeOK /\ subs \subseteq Paths
  BY <1>1 DEF TypeOK, ObjectTypeOK
<1>3. /\ reader.at \in {"read", "call", "rearm", "fail"} => reader.path \in subs
      /\ \A i \in DOMAIN pulses : pulses[i] \in subs \/ (pulses[i] = NoPath /\ ~reading)
  BY <1>1 DEF PulsesKnown
<1>4. armed \cap unread = {} /\ (\A p \in Paths : Watched(p)) /\ faults \in Nat
  BY <1>1 DEF WatchedOnce, Watched, TypeOK, WriterTypeOK
<1>5. ASSUME UNCHANGED <<subs, armed, unread, pulses>>,
             \/ UNCHANGED reader
             \/ \A p \in Paths : ~InHand(p) /\ ~InHand(p)'
      PROVE  Goal
  <2>1. \A p \in Paths : (NoPulse(p)' <=> NoPulse(p)) /\ (OnePulse(p)' <=> OnePulse(p))
    BY <1>5 DEF NoPulse, OnePulse
  <2>2. ASSUME NEW p \in Paths PROVE Watched(p)' /\ (p \in subs' => Kept(p))
    <3>1. Watched(p)  BY <1>4
    <3>2. CASE UNCHANGED reader
      <4>1. InHand(p)' <=> InHand(p)  BY <3>2 DEF InHand
      <4>2. QED BY <1>5, <2>1, <3>1, <3>2, <4>1 DEF Watched, Unwatched, Kept
    <3>3. CASE ~InHand(p) /\ ~InHand(p)'
      BY <1>5, <2>1, <3>1, <3>3 DEF Watched, Unwatched, Kept
    <3>4. QED BY <1>5, <3>2, <3>3
  <2>3. QED BY <1>4, <1>5, <2>2
<1>6. ASSUME NEW p \in Paths, publish(p) PROVE Goal
  BY <1>5, <1>6 DEF publish, readerVars
<1>7. ASSUME NEW p \in Paths, NEW s \in Subscribers, subscribe(p, s) PROVE Goal
  <2>1. UNCHANGED <<reader, pulses>>  BY <1>7 DEF subscribe
  <2>2. CASE UNCHANGED <<subs, unread, armed>>  BY <1>5, <2>1, <2>2
  <2>3. CASE /\ p \notin subs /\ subs' = subs \cup {p}
             /\ unread' \in {unread, unread \cup {p}} /\ Arm(p, unread')
    <3>1. NoPulse(p) /\ ~InHand(p) /\ p \notin armed /\ p # NoPath
      BY <1>2, <1>3, <2>3, PpsAssumption DEF NoPulse, InHand, ObjectTypeOK
    <3>2. armed' = armed \cup ({p} \ unread')
      BY <2>3 DEF Arm
    <3>3. \A q \in Paths : /\ NoPulse(q)' <=> NoPulse(q)
                           /\ OnePulse(q)' <=> OnePulse(q)
                           /\ InHand(q)' <=> InHand(q)
      BY <2>1 DEF NoPulse, OnePulse, InHand
    <3>4. armed' \cap unread' = {}  BY <1>4, <2>3, <3>1, <3>2
    <3>5. ASSUME NEW q \in Paths, q # p PROVE Watched(q)' /\ (q \in subs' => Kept(q))
      <4>1. Watched(q) /\ (q \in unread' <=> q \in unread) /\ (q \in armed' <=> q \in armed)
        BY <1>4, <2>3, <3>2, <3>5
      <4>2. q \in subs' <=> q \in subs  BY <2>3, <3>5
      <4>3. QED BY <2>1, <3>3, <4>1, <4>2 DEF Watched, Unwatched, Kept
    <3>6. Watched(p)' /\ Kept(p)
      BY <2>3, <3>1, <3>2, <3>3 DEF Watched, Unwatched, Kept
    <3>7. QED BY <3>4, <3>5, <3>6
  <2>4. QED BY <1>7, <2>2, <2>3 DEF subscribe
<1>8. ASSUME NEW s \in Subscribers, Forget(s) PROVE Goal
  BY <1>5, <1>8 DEF Forget, readerVars
<1>9. CASE WriterLoops \/ WriterSleeps \/ WakeSpuriously \/ WriterLooks \/ WriterNext
  BY <1>5, <1>9 DEF WriterLoops, WriterSleeps, WakeSpuriously, WriterLooks, WriterNext,
     readerVars
<1>10. CASE writeToPPS
  <2>1. UNCHANGED <<reader, subs>>  BY <1>10 DEF writeToPPS
  <2>2. CASE UNCHANGED <<unread, armed, pulses>>  BY <1>5, <2>1, <2>2
  <2>3. CASE Changed(writer.path)
    <3> DEFINE x == writer.path
    <3>1. x \in Paths /\ x # NoPath
      BY <1>1, <1>10, PpsAssumption DEF writeToPPS, TypeOK, WriterTypeOK
    <3>2. /\ unread' = IF x \in subs THEN unread \cup {x} ELSE unread
          /\ armed' = armed \ {x}
          /\ pulses' = IF x \in armed THEN Append(pulses, x) ELSE pulses
      BY <2>3 DEF Changed
    <3>3. armed' \cap unread' = {}  BY <1>4, <3>2
    <3>4. ASSUME NEW q \in Paths PROVE Watched(q)' /\ (q \in subs' => Kept(q))
      <4>1. Watched(q) /\ armed \subseteq subs  BY <1>2, <1>4 DEF ObjectTypeOK
      <4>2. InHand(q)' <=> InHand(q)  BY <2>1 DEF InHand
      <4>3. CASE q # x
        <5>1. (NoPulse(q) <=> NoPulse(q)') /\ (OnePulse(q) => OnePulse(q)')
          <6>1. CASE x \in armed
            <7>1. pulses' = Append(pulses, x)  BY <3>2, <6>1
            <7>2. (NoPulse(q) => NoPulse(q)') /\ (OnePulse(q) => OnePulse(q)')
              BY <1>1, <3>1, <4>3, <7>1, PulseSent
            <7>3. NoPulse(q)' => NoPulse(q)
              BY <1>2, <3>1, <7>1, AppendAt DEF NoPulse, ObjectTypeOK
            <7>4. QED BY <7>2, <7>3
          <6>2. CASE x \notin armed  BY <3>2, <6>2 DEF NoPulse, OnePulse
          <6>3. QED BY <6>1, <6>2
        <5>2. (q \in unread' <=> q \in unread) /\ (q \in armed' <=> q \in armed)
          BY <3>2, <4>3
        <5>3. QED BY <2>1, <4>1, <4>2, <5>1, <5>2 DEF Watched, Unwatched, Kept
      <4>4. CASE q = x /\ x \in armed
        <5>1. NoPulse(q) /\ ~InHand(q) /\ pulses' = Append(pulses, q)
          BY <3>2, <4>1, <4>4 DEF Watched, Unwatched
        <5>2. OnePulse(q)'  BY <1>1, <5>1, PulseSent
        <5>3. q \in unread' /\ q \notin armed'  BY <3>2, <4>1, <4>4
        <5>4. QED BY <4>2, <5>1, <5>2, <5>3 DEF Watched, Kept
      <4>5. CASE q = x /\ x \notin armed
        <5>1. (NoPulse(q) <=> NoPulse(q)') /\ (OnePulse(q) <=> OnePulse(q)')
          BY <3>2, <4>5 DEF NoPulse, OnePulse
        <5>2. q \notin armed' /\ q \notin armed /\ (q \in unread => q \in unread')
          BY <3>2, <4>5
        <5>3. QED BY <2>1, <4>1, <4>2, <5>1, <5>2 DEF Watched, Unwatched, Kept
      <4>6. QED BY <4>3, <4>4, <4>5
    <3>5. QED BY <3>3, <3>4
  <2>4. QED BY <1>10, <2>2, <2>3 DEF writeToPPS
<1>11. CASE ReaderLoops
  <2>1. UNCHANGED <<subs, armed, unread, pulses>> /\ reader.at = "loop"
        /\ reader' = At(IF reading THEN "receive" ELSE "ended")
    BY <1>11 DEF ReaderLoops
  <2>2. \A p \in Paths : ~InHand(p) /\ ~InHand(p)'  BY <2>1 DEF At, InHand
  <2>3. QED BY <1>5, <2>1, <2>2
<1>12. CASE Receive
  <2>1. /\ UNCHANGED <<subs, armed, unread>>
        /\ reader.at = "receive" /\ pulses # <<>> /\ pulses' = Tail(pulses)
        /\ reader' \in {[at |-> "read", path |-> Head(pulses), num |-> 0], At("ended")}
    BY <1>12 DEF Receive
  <2>2. ASSUME NEW q \in Paths PROVE Watched(q)' /\ (q \in subs' => Kept(q))
    <3>1. Watched(q) /\ ~InHand(q)  BY <1>4, <2>1 DEF InHand
    <3>2. InHand(q)' => q = Head(pulses)  BY <2>1 DEF InHand, At
    <3>3. /\ NoPulse(q) => Head(pulses) # q /\ NoPulse(q)'
          /\ OnePulse(q) /\ Head(pulses) # q => OnePulse(q)'
          /\ OnePulse(q) /\ Head(pulses) = q => NoPulse(q)'
      BY <1>1, <2>1, PulseTaken
    <3>4. CASE NoPulse(q)
      BY <2>1, <3>1, <3>2, <3>3, <3>4 DEF Watched, Unwatched, Kept
    <3>5. CASE OnePulse(q) /\ q \in unread /\ q \notin armed
      <4>1. ~NoPulse(q)  BY <3>5 DEF NoPulse, OnePulse
      <4>2. Kept(q)  BY <2>1, <3>5 DEF Kept
      <4>3. CASE Head(pulses) = q
        BY <2>1, <3>3, <3>5, <4>2, <4>3 DEF Watched, Unwatched
      <4>4. CASE Head(pulses) # q
        BY <2>1, <3>2, <3>3, <3>5, <4>2, <4>4 DEF Watched, Unwatched
      <4>5. QED BY <4>3, <4>4
    <3>6. QED BY <3>1, <3>4, <3>5 DEF Watched, Unwatched
  <2>3. QED BY <1>4, <2>1, <2>2
<1>a. ASSUME UNCHANGED <<armed, pulses>>, subs' = subs,
             NEW x, reader.path = x, reader'.path = x, reader.at \in {"read", "call"},
             \/ reader'.at \in {"call", "rearm"} /\ unread' \in {unread, unread \ {x}}
             \/ reader'.at = "fail" /\ unread' = unread /\ faults' > faults
      PROVE  Goal
  <2>1. armed' \cap unread' = {}  BY <1>4, <1>a
  <2>2. ASSUME NEW q \in Paths PROVE Watched(q)' /\ (q \in subs' => Kept(q))
    <3>1. Watched(q)  BY <1>4
    <3>2. (NoPulse(q)' <=> NoPulse(q)) /\ (OnePulse(q)' <=> OnePulse(q))
      BY <1>a DEF NoPulse, OnePulse
    <3>3. InHand(q) <=> q = x  BY <1>a DEF InHand
    <3>4. InHand(q)' => q = x  BY <1>a DEF InHand
    <3>5. OnePulse(q) => ~NoPulse(q)  BY DEF NoPulse, OnePulse
    <3>6. CASE q # x
      <4>1. ~InHand(q) /\ ~InHand(q)' /\ (q \in unread' <=> q \in unread)
        BY <1>a, <3>3, <3>4, <3>6
      <4>2. QED BY <1>a, <3>1, <3>2, <4>1 DEF Watched, Unwatched, Kept
    <3>7. CASE q = x
      <4>1. InHand(q) /\ q \notin armed /\ NoPulse(q)
        BY <3>1, <3>3, <3>5, <3>7 DEF Watched, Unwatched
      <4>2. \/ InHand(q)' /\ reader'.at # "read"
            \/ ~InHand(q)' /\ faults' > faults
        BY <1>a, <3>7 DEF InHand
      <4>3. QED BY <1>a, <3>1, <3>2, <4>1, <4>2 DEF Watched, Unwatched, Kept
    <3>8. QED BY <3>6, <3>7
  <2>3. QED BY <2>1, <2>2
<1>13. CASE Read
  <2>1. /\ reader.at = "read" /\ reader.path \in subs /\ UNCHANGED <<subs, armed, pulses>>
        /\ reader'.path = reader.path
    BY <1>2, <1>3, <1>13 DEF Read, ReaderTypeOK
  <2>2. reader.path \in unread
    <3>1. InHand(reader.path) /\ reader.path \in Paths  BY <1>2, <2>1 DEF InHand
    <3>2. QED BY <1>4, <2>1, <3>1 DEF Watched, Unwatched
  <2>3. \/ reader'.at = "call" /\ unread' = unread \ {reader.path}
        \/ reader'.at = "fail" /\ unread' = unread /\ faults' = faults + 1
    BY <1>2, <1>13, <2>2 DEF Read, ReaderTypeOK
  <2>4. QED BY <1>4, <1>a, <2>1, <2>3
<1>14. CASE Call
  <2>1. /\ reader.at = "call" /\ UNCHANGED <<subs, armed, unread, pulses>>
        /\ reader'.path = reader.path /\ reader'.at = "rearm"
    BY <1>2, <1>14 DEF Call, ReaderTypeOK
  <2>2. QED BY <1>a, <2>1
<1>15. CASE Rearm
  <2> DEFINE x == reader.path
  <2>1. /\ reader.at = "rearm" /\ x \in subs /\ UNCHANGED <<subs, unread, pulses>>
        /\ reader'.at = "loop"
        /\ Arm(x, unread) \/ (armed' = armed /\ faults' = faults + 1)
    BY <1>3, <1>15 DEF Rearm, At
  <2>2. armed' \cap unread' = {}  BY <1>4, <2>1 DEF Arm
  <2>3. ASSUME NEW q \in Paths PROVE Watched(q)' /\ (q \in subs' => Kept(q))
    <3>1. Watched(q) /\ ~InHand(q)'
      BY <1>4, <2>1 DEF InHand
    <3>2. InHand(q) <=> q = x  BY <2>1 DEF InHand
    <3>3. /\ (NoPulse(q)' <=> NoPulse(q)) /\ (OnePulse(q)' <=> OnePulse(q))
          /\ OnePulse(q) => ~NoPulse(q)
      BY <2>1 DEF NoPulse, OnePulse
    <3>4. CASE q # x
      <4>1. q \in armed' <=> q \in armed  BY <2>1, <3>4 DEF Arm
      <4>2. QED BY <2>1, <3>1, <3>2, <3>3, <3>4, <4>1 DEF Watched, Unwatched, Kept
    <3>5. CASE q = x
      <4>1. NoPulse(q) /\ q \notin armed  BY <3>1, <3>2, <3>3, <3>5 DEF Watched, Unwatched
      <4>2. q \in armed' \/ q \in unread' \/ faults' > faults
        BY <1>4, <2>1, <3>5 DEF Arm
      <4>3. QED BY <3>1, <3>3, <4>1, <4>2 DEF Watched, Unwatched, Kept
    <3>6. QED BY <3>4, <3>5
  <2>4. QED BY <2>2, <2>3
<1>16. CASE Fail
  <2>1. /\ reader.at = "fail" /\ UNCHANGED <<subs, armed, unread, pulses>>
        /\ reader'.at = "loop"
    BY <1>16 DEF Fail, At
  <2>2. \A p \in Paths : ~InHand(p) /\ ~InHand(p)'  BY <2>1 DEF InHand
  <2>3. QED BY <1>5, <2>1, <2>2
<1>17. CASE StopWriter \/ NotifyWriter \/ StopReader
  BY <1>5, <1>17 DEF StopWriter, NotifyWriter, StopReader, readerVars
<1>18. CASE PulseReader
  <2>1. /\ UNCHANGED <<subs, armed, unread, reader>>
        /\ pulses' = Append(pulses, NoPath)
    BY <1>18 DEF PulseReader
  <2>2. ASSUME NEW q \in Paths
        PROVE  (NoPulse(q)' <=> NoPulse(q)) /\ (OnePulse(q) => OnePulse(q)')
    <3>1. NoPath # q /\ (NoPulse(q) => NoPulse(q)') /\ (OnePulse(q) => OnePulse(q)')
      BY <1>1, <2>1, PulseSent, PpsAssumption
    <3>2. NoPulse(q)' => NoPulse(q)
      BY <1>2, <2>1, AppendAt DEF NoPulse, ObjectTypeOK
    <3>3. QED BY <3>1, <3>2
  <2>3. \A q \in Paths : InHand(q)' <=> InHand(q)  BY <2>1 DEF InHand
  <2>4. QED BY <1>4, <2>1, <2>2, <2>3 DEF Watched, Unwatched, Kept
<1>19. CASE JoinReader
  <2>1. armed' = {} /\ pulses' = <<>> /\ subs' = {} /\ UNCHANGED reader /\ reader.at = "ended"
    BY <1>19 DEF JoinReader
  <2>2. QED BY <2>1 DEF Watched, Unwatched, NoPulse, InHand
<1>20. CASE UNCHANGED vars
  BY <1>5, <1>20 DEF vars, readerVars
<1>21. Goal
  BY <1>1, <1>6, <1>7, <1>8, <1>9, <1>10, <1>11, <1>12, <1>13, <1>14, <1>15, <1>16, <1>17,
     <1>18, <1>19, <1>20 DEF Next, Write, Reading, Stop
<1>22. QED BY <1>21

-----------------------------------------------------------------------------
(* The order of messages *)

\* Every step keeps the queue newer than the message in the writer's hand,
\* and that newer than the objects.
LEMMA QueueStep == TypeOK /\ QueueOrdered /\ [Next]_vars => QueueOrdered'
<1>1. SUFFICES ASSUME TypeOK, QueueOrdered, [Next]_vars PROVE QueueOrdered'
  OBVIOUS
<1>2. /\ write_queue_ \in Seq(Messages) /\ sent \in Nat
      /\ object \in [Paths -> Nat]
      /\ writer.at = "write" => writer.path \in Paths /\ writer.num \in Nat
  BY <1>1, PpsAssumption DEF TypeOK, WriterTypeOK, ObjectTypeOK
<1>3. \A i \in DOMAIN write_queue_ : i \in Nat /\ write_queue_[i].num \in Nat
  <2>1. \A i \in DOMAIN write_queue_ : i \in Nat /\ write_queue_[i] \in Messages
    BY <1>2
  <2>2. \A m \in Messages : m.num \in Nat
    BY PpsAssumption DEF Messages
  <2>3. QED BY <2>1, <2>2
<1>4. /\ \A i, j \in DOMAIN write_queue_ : i < j => write_queue_[i].num < write_queue_[j].num
      /\ \A i \in DOMAIN write_queue_ :
            /\ write_queue_[i].num <= sent
            /\ writer.at = "write" => writer.num < write_queue_[i].num
            /\ \A p \in Paths : object[p] < write_queue_[i].num
      /\ writer.at = "write" => writer.num <= sent /\ \A p \in Paths : object[p] < writer.num
      /\ \A p \in Paths : object[p] <= sent
  BY <1>1 DEF QueueOrdered
<1>5. ASSUME UNCHANGED <<write_queue_, object, sent>>,
             writer' = writer \/ writer'.at # "write"
      PROVE  QueueOrdered'
  BY <1>4, <1>5 DEF QueueOrdered
<1>6. ASSUME NEW p \in Paths, publish(p) PROVE QueueOrdered'
  <2> DEFINE m == [path |-> p, num |-> sent + 1]
  <2>1. /\ write_queue_' = Append(write_queue_, m) /\ sent' = sent + 1 /\ object' = object
        /\ writer' = writer \/ writer'.at # "write"
    BY <1>6 DEF publish, ppsVars, Woken, At
  <2>2. m \in Messages
    BY <1>1, <1>6, PpsAssumption DEF publish, TypeOK, WriterTypeOK, Messages
  <2>3. /\ DOMAIN write_queue_' = DOMAIN write_queue_ \cup {Len(write_queue_) + 1}
        /\ \A i \in DOMAIN write_queue_ : write_queue_'[i] = write_queue_[i] /\ i < Len(write_queue_) + 1
        /\ write_queue_'[Len(write_queue_) + 1].num = sent + 1
        /\ Len(write_queue_) \in Nat
    BY <1>2, <2>1, <2>2, AppendAt
  <2>4. \A i, j \in DOMAIN write_queue_' : i < j => write_queue_'[i].num < write_queue_'[j].num
    BY <1>2, <1>3, <1>4, <2>3
  <2>5. \A i \in DOMAIN write_queue_' :
          /\ write_queue_'[i].num <= sent'
          /\ writer'.at = "write" => writer'.num < write_queue_'[i].num
          /\ \A q \in Paths : object'[q] < write_queue_'[i].num
    BY <1>2, <1>3, <1>4, <2>1, <2>3
  <2>6. QED BY <1>2, <1>4, <2>1, <2>4, <2>5 DEF QueueOrdered
<1>7. ASSUME NEW p \in Paths, NEW s \in Subscribers, subscribe(p, s) PROVE QueueOrdered'
  BY <1>5, <1>7 DEF subscribe, writerVars, ppsVars
<1>8. ASSUME NEW s \in Subscribers, Forget(s) PROVE QueueOrdered'
  BY <1>5, <1>8 DEF Forget, writerVars, ppsVars, counts
<1>9. CASE WriterLoops \/ WriterSleeps \/ WakeSpuriously
  BY <1>5, <1>9 DEF WriterLoops, WriterSleeps, WakeSpuriously, ppsVars, counts, At
<1>10. CASE WriterLooks \/ WriterNext
  <2>1. UNCHANGED <<object, sent>>
    BY <1>10 DEF WriterLooks, WriterNext, ppsVars, counts
  <2>2. CASE Pop /\ write_queue_ # <<>>
    <3>1. /\ writer'.num = write_queue_[1].num /\ 1 \in DOMAIN write_queue_
          /\ \A i \in DOMAIN write_queue_' : i \in Nat /\ i + 1 \in DOMAIN write_queue_
                /\ 1 < i + 1 /\ write_queue_'[i] = write_queue_[i + 1]
      BY <1>1, <1>2, <2>2, TailAt, PopTypes DEF Pop
    <3>2. QED BY <1>2, <1>3, <1>4, <2>1, <3>1 DEF QueueOrdered
  <2>3. CASE \E w \in {"ended", "looked", "loop"} : writer' = At(w) /\ UNCHANGED write_queue_
    BY <1>5, <2>1, <2>3 DEF At
  <2>4. QED BY <1>10, <2>2, <2>3 DEF WriterLooks, WriterNext
<1>11. CASE writeToPPS
  <2>1. writer.at = "write" /\ UNCHANGED <<write_queue_, sent>> /\ writer'.at # "write"
    BY <1>11 DEF writeToPPS, At
  <2>2. CASE object' = object  BY <1>5, <2>1, <2>2
  <2>3. CASE object' = [object EXCEPT ![writer.path] = writer.num]
    <3>1. \A p \in Paths : object'[p] \in {object[p], writer.num}
      BY <1>2, <2>1, <2>3
    <3>2. QED BY <1>2, <1>3, <1>4, <2>1, <3>1 DEF QueueOrdered
  <2>4. QED BY <1>11, <2>2, <2>3 DEF writeToPPS
<1>12. CASE Reading
  BY <1>5, <1>12 DEF Reading, ReaderLoops, Receive, Read, Call, Rearm, Fail, writerVars,
     ppsVars, counts
<1>13. CASE StopWriter \/ Stop
  BY <1>5, <1>13 DEF Stop, StopWriter, NotifyWriter, StopReader, PulseReader, JoinReader,
     writerVars, ppsVars, counts, Woken, At
<1>14. CASE UNCHANGED vars
  BY <1>5, <1>14 DEF vars, writerVars, ppsVars, counts
<1>15. QED
  BY <1>1, <1>6, <1>7, <1>8, <1>9, <1>10, <1>11, <1>12, <1>13, <1>14 DEF Next, Write

\* An object is only ever written with something newer.
LEMMA ObjectsGrow ==
    ASSUME TypeOK, QueueOrdered, [Next]_vars
    PROVE  \A p \in Paths : object[p] \in Nat /\ object'[p] \in Nat /\ object[p] <= object'[p]
<1>1. object \in [Paths -> Nat]
  BY PpsAssumption DEF TypeOK, ObjectTypeOK
<1>2. CASE UNCHANGED object  BY <1>1, <1>2
<1>3. CASE writeToPPS
  <2>1. /\ writer.path \in Paths /\ writer.num \in Nat
        /\ \A p \in Paths : object[p] < writer.num
    BY <1>3, PpsAssumption DEF writeToPPS, TypeOK, WriterTypeOK, QueueOrdered
  <2>2. CASE object' = [object EXCEPT ![writer.path] = writer.num]
    <3>1. \A p \in Paths : object'[p] \in {object[p], writer.num}  BY <1>1, <2>1, <2>2
    <3>2. QED BY <1>1, <2>1, <3>1
  <2>3. QED BY <1>2, <1>3, <2>2 DEF writeToPPS
<1>4. ASSUME ~writeToPPS PROVE UNCHANGED object
  <2>1. CASE \E p \in Paths : publish(p) \/ \E s \in Subscribers : subscribe(p, s)
    BY <2>1 DEF publish, subscribe, ppsVars
  <2>2. CASE \E s \in Subscribers : Forget(s)
    BY <2>2 DEF Forget, ppsVars
  <2>3. CASE Write \/ WakeSpuriously
    BY <1>4, <2>3 DEF Write, WriterLoops, WriterSleeps, WakeSpuriously, WriterLooks,
       WriterNext, ppsVars
  <2>4. CASE Reading
    BY <2>4 DEF Reading, ReaderLoops, Receive, Read, Call, Rearm, Fail, ppsVars
  <2>5. CASE StopWriter \/ Stop
    BY <2>5 DEF Stop, StopWriter, NotifyWriter, StopReader, PulseReader, JoinReader, ppsVars
  <2>6. CASE UNCHANGED vars  BY <2>6 DEF vars, ppsVars
  <2>7. QED BY <2>1, <2>2, <2>3, <2>4, <2>5, <2>6 DEF Next
<1>5. QED BY <1>2, <1>3, <1>4

\* Every step keeps what has been seen older than what has been read, and
\* that older than the objects.
LEMMA SeenStep ==
    TypeOK /\ PulsesKnown /\ QueueOrdered /\ SeenOrdered /\ [Next]_vars => SeenOrdered'
<1>1. SUFFICES ASSUME TypeOK, PulsesKnown, QueueOrdered, SeenOrdered, [Next]_vars
               PROVE  SeenOrdered'
  OBVIOUS
<1>2. /\ listeners \in [Paths -> SUBSET Subscribers] /\ seen \in [Subscribers -> Nat]
      /\ reader \in [at : {"loop", "receive", "read", "call", "rearm", "fail", "ended"},
                     path : Paths \cup {NoPath}, num : Nat]
      /\ alive \subseteq Subscribers
      /\ reader.at \in {"read", "call", "rearm", "fail"} => reader.path \in Paths
  BY <1>1, PpsAssumption DEF TypeOK, ReaderTypeOK, ObjectTypeOK, PulsesKnown
<1>3. \A p \in Paths : object[p] \in Nat /\ object'[p] \in Nat /\ object[p] <= object'[p]
  BY <1>1, ObjectsGrow
<1>4. /\ reader.at = "call" => reader.num <= object[reader.path]
      /\ \A s \in Subscribers, p \in Paths : s \in listeners[p] =>
            /\ seen[s] <= object[p]
            /\ reader.at = "call" /\ reader.path = p => seen[s] <= reader.num
            /\ \A q \in Paths : s \in listeners[q] => q = p
      /\ \A s \in alive : ~Subscribed(s) /\ owner # "stopped" => seen[s] = 0
  BY <1>1 DEF SeenOrdered
<1>5. ASSUME UNCHANGED <<listeners, seen>>, alive' \subseteq alive,
             reader' = reader \/ reader'.at # "call",
             owner' # "stopped" => owner # "stopped"
      PROVE  SeenOrdered'
  <2>1. \A s \in Subscribers : Subscribed(s)' <=> Subscribed(s)  BY <1>5 DEF Subscribed
  <2>2. reader'.at = "call" => reader'.num <= object'[reader'.path]
    BY <1>2, <1>3, <1>4, <1>5
  <2>3. \A s \in Subscribers, p \in Paths : s \in listeners'[p] =>
            /\ seen'[s] <= object'[p]
            /\ reader'.at = "call" /\ reader'.path = p => seen'[s] <= reader'.num
            /\ \A q \in Paths : s \in listeners'[q] => q = p
    BY <1>2, <1>3, <1>4, <1>5
  <2>4. \A s \in alive' : ~Subscribed(s)' /\ owner' # "stopped" => seen'[s] = 0
    BY <1>2, <1>4, <1>5, <2>1
  <2>5. QED BY <2>2, <2>3, <2>4 DEF SeenOrdered
<1>6. ASSUME NEW p \in Paths, publish(p) PROVE SeenOrdered'
  BY <1>5, <1>6 DEF publish, readerVars
<1>7. ASSUME NEW p \in Paths, NEW s \in Subscribers, subscribe(p, s) PROVE SeenOrdered'
  <2>1. UNCHANGED <<reader, seen, alive, owner>> /\ s \in alive /\ ~Subscribed(s) /\ owner = "using"
    BY <1>7 DEF subscribe
  <2>2. CASE UNCHANGED listeners  BY <1>5, <2>1, <2>2
  <2>3. CASE listeners' = [listeners EXCEPT ![p] = @ \cup {s}]
    <3>1. seen[s] = 0 /\ \A q \in Paths : s \notin listeners[q]
      BY <1>4, <2>1 DEF Subscribed
    <3>2. /\ \A q \in Paths : q # p => listeners'[q] = listeners[q]
          /\ listeners'[p] = listeners[p] \cup {s}
      BY <1>2, <2>3
    <3>3. reader'.at = "call" => reader'.num <= object'[reader'.path]
      BY <1>2, <1>3, <1>4, <2>1
    <3>4. \A u \in Subscribers, q \in Paths : u \in listeners'[q] =>
            /\ seen'[u] <= object'[q]
            /\ reader'.at = "call" /\ reader'.path = q => seen'[u] <= reader'.num
            /\ \A r \in Paths : u \in listeners'[r] => r = q
      BY <1>2, <1>3, <1>4, <2>1, <3>1, <3>2
    <3>5. \A u \in Subscribers : Subscribed(u) => Subscribed(u)'
      BY <3>2 DEF Subscribed
    <3>6. \A u \in alive' : ~Subscribed(u)' /\ owner' # "stopped" => seen'[u] = 0
      BY <1>2, <1>4, <2>1, <3>5
    <3>7. QED BY <3>3, <3>4, <3>6 DEF SeenOrdered
  <2>4. QED BY <1>7, <2>2, <2>3 DEF subscribe
<1>8. ASSUME NEW s \in Subscribers, Forget(s) PROVE SeenOrdered'
  BY <1>5, <1>8 DEF Forget, readerVars
<1>9. CASE Write \/ WakeSpuriously
  BY <1>5, <1>9 DEF Write, WriterLoops, WriterSleeps, WakeSpuriously, WriterLooks, WriterNext,
     writeToPPS, readerVars
<1>10. CASE ReaderLoops \/ Receive \/ Rearm \/ Fail
  BY <1>5, <1>10 DEF ReaderLoops, Receive, Rearm, Fail, At
<1>11. CASE Read
  <2>1. UNCHANGED <<listeners, seen, alive, owner, object>> /\ reader.at = "read"
    BY <1>11 DEF Read, ppsVars
  <2>2. CASE reader' = [reader EXCEPT !.at = "fail"]  BY <1>2, <1>5, <2>1, <2>2
  <2>3. CASE reader' = [reader EXCEPT !.at = "call", !.num = object[reader.path]]
    <3>1. reader'.at = "call" /\ reader'.path = reader.path /\ reader'.num = object[reader.path]
          /\ reader.path \in Paths
      BY <1>2, <2>1, <2>3
    <3>2. \A u \in Subscribers : Subscribed(u)' <=> Subscribed(u)  BY <2>1 DEF Subscribed
    <3>3. \A u \in alive' : ~Subscribed(u)' /\ owner' # "stopped" => seen'[u] = 0
      BY <1>2, <1>4, <2>1, <3>2
    <3>4. QED BY <1>3, <1>4, <2>1, <3>1, <3>3 DEF SeenOrdered
  <2>4. QED BY <1>11, <2>2, <2>3 DEF Read
<1>12. CASE Call
  <2> DEFINE p == reader.path
  <2>1. /\ UNCHANGED <<alive, owner, object>> /\ reader.at = "call" /\ reader'.at = "rearm"
        /\ seen' = [s \in Subscribers |-> IF s \in listeners[p] \cap alive
                                          THEN reader.num ELSE seen[s]]
        /\ listeners' = [listeners EXCEPT ![p] = @ \cap alive]
    BY <1>2, <1>12 DEF Call, ppsVars
  <2>2. p \in Paths /\ reader.num \in Nat /\ reader.num <= object[p]
    BY <1>2, <1>4, <2>1
  <2>3. \A q \in Paths : listeners'[q] = IF q = p THEN listeners[p] \cap alive ELSE listeners[q]
    BY <1>2, <2>1
  <2>4. \A s \in Subscribers, q \in Paths : s \in listeners'[q] =>
            /\ seen'[s] <= object'[q]
            /\ \A r \in Paths : s \in listeners'[r] => r = q
    BY <1>2, <1>3, <1>4, <2>1, <2>2, <2>3
  <2>5. \A s \in alive' : ~Subscribed(s)' /\ owner' # "stopped" => seen'[s] = 0
    BY <1>2, <1>4, <2>1, <2>2, <2>3 DEF Subscribed
  <2>6. QED BY <2>1, <2>4, <2>5 DEF SeenOrdered
<1>13. CASE StopWriter \/ NotifyWriter \/ StopReader \/ PulseReader
  BY <1>5, <1>13 DEF StopWriter, NotifyWriter, StopReader, PulseReader, readerVars
<1>14. CASE JoinReader
  <2>1. /\ reader.at = "ended" /\ UNCHANGED reader /\ owner' = "stopped"
        /\ \A p \in Paths : listeners'[p] = {}
    BY <1>14 DEF JoinReader
  <2>2. QED BY <2>1 DEF SeenOrdered
<1>15. CASE UNCHANGED vars
  BY <1>5, <1>15 DEF vars, readerVars
<1>16. QED
  BY <1>1, <1>6, <1>7, <1>8, <1>9, <1>10, <1>11, <1>12, <1>13, <1>14, <1>15
  DEF Next, Reading, Stop

-----------------------------------------------------------------------------
(* The theorems *)

\* The invariant of the initial state.
LEMMA PpsInvInit == Init => PpsInv
<1>1. SUFFICES ASSUME Init PROVE PpsInv
  OBVIOUS
<1>2. TypeOK  BY <1>1, TypeInit
<1>3. FlagBeforePulse /\ PulsesKnown /\ WatchedOnce
  BY <1>1 DEF Init, FlagBeforePulse, PulsesKnown, WatchedOnce, Unwatched, NoPulse, InHand, At
<1>4. QueueOrdered
  BY <1>1 DEF Init, QueueOrdered, At
<1>5. SeenOrdered
  BY <1>1 DEF Init, SeenOrdered, At
<1>6. QED BY <1>2, <1>3, <1>4, <1>5 DEF PpsInv

\* The invariant is inductive.
THEOREM PpsSafety == Spec => []PpsInv
<1>1. PpsInv /\ [Next]_vars => PpsInv'
  BY WriterTypeStep, ReaderTypeStep, ObjectTypeStep, FlagStep, PulsesStep, WatchStep,
     QueueStep, SeenStep DEF PpsInv, TypeOK
<1>2. QED BY PpsInvInit, <1>1, PTL DEF Spec

\* For any objects and subscribers, and any faults: an object stays watched
\* until a call fails or it is armed with something to read, and then that is
\* what nobody reads.
THEOREM WatchKept == Spec => WatchLostOnlyInTheGap
<1>1. ASSUME PpsInv, [Next]_vars PROVE \A p \in subs' : Kept(p)
  BY <1>1, WatchStep DEF PpsInv
<1>2. PpsInv /\ [Next]_vars =>
        [\A p \in subs' : Unwatched(p)' => \/ p \in subs /\ Unwatched(p)
                                          \/ p \in unread'
                                          \/ faults' > faults]_vars
  BY <1>1 DEF Kept
<1>3. QED BY PpsSafety, <1>2, PTL DEF Spec, WatchLostOnlyInTheGap

\* Neither objects nor subscribers ever go back to an older message.
THEOREM OrderKept == Spec => NeverBackwards
<1>1. ASSUME PpsInv, [Next]_vars
      PROVE  /\ \A p \in Paths : object'[p] >= object[p]
             /\ \A s \in Subscribers : seen'[s] >= seen[s]
  <2>1. TypeOK /\ QueueOrdered /\ SeenOrdered /\ PulsesKnown  BY <1>1 DEF PpsInv
  <2>2. \A p \in Paths : object'[p] >= object[p]
    BY <1>1, <2>1, ObjectsGrow
  <2>3. seen \in [Subscribers -> Nat] /\ (reader.at = "call" => reader.path \in Paths /\ reader.num \in Nat)
    BY <2>1, PpsAssumption DEF TypeOK, ReaderTypeOK, ObjectTypeOK, PulsesKnown
  <2>4. CASE UNCHANGED seen  BY <2>2, <2>3, <2>4
  <2>5. CASE Call
    <3>1. \A s \in Subscribers : seen'[s] = seen[s] \/
             (s \in listeners[reader.path] /\ seen'[s] = reader.num)
      BY <2>5 DEF Call
    <3>2. \A s \in Subscribers : s \in listeners[reader.path] => seen[s] <= reader.num
      BY <2>1, <2>3, <2>5 DEF Call, SeenOrdered
    <3>3. QED BY <2>2, <2>3, <2>5, <3>1, <3>2 DEF Call
  <2>6. ASSUME ~Call PROVE UNCHANGED seen
    <3>1. CASE \E p \in Paths : publish(p) \/ \E s \in Subscribers : subscribe(p, s)
      BY <3>1 DEF publish, subscribe, readerVars
    <3>2. CASE \E s \in Subscribers : Forget(s)
      BY <3>2 DEF Forget, readerVars
    <3>3. CASE Write \/ WakeSpuriously
      BY <3>3 DEF Write, WriterLoops, WriterSleeps, WakeSpuriously, WriterLooks, WriterNext,
         writeToPPS, readerVars
    <3>4. CASE Reading
      BY <2>6, <3>4 DEF Reading, ReaderLoops, Receive, Read, Rearm, Fail
    <3>5. CASE StopWriter \/ Stop
      BY <3>5 DEF Stop, StopWriter, NotifyWriter, StopReader, PulseReader, JoinReader, readerVars
    <3>6. CASE UNCHANGED vars  BY <3>6 DEF vars, readerVars
    <3>7. QED BY <1>1, <3>1, <3>2, <3>3, <3>4, <3>5, <3>6 DEF Next
  <2>7. QED BY <2>4, <2>5, <2>6
<1>2. PpsInv /\ [Next]_vars =>
        [/\ \A p \in Paths : object'[p] >= object[p]
         /\ \A s \in Subscribers : seen'[s] >= seen[s]]_vars
  BY <1>1
<1>3. QED BY PpsSafety, <1>2, PTL DEF Spec, NeverBackwards
=============================================================================
