--------------------------- MODULE IdleQueue_proofs ---------------------------
(***************************************************************************)
(* What holds of IdleQueue for every set of descriptors, objects and       *)
(* alarms, whether callbacks raise or not.  There are three arguments.     *)
(*                                                                         *)
(* Descriptors: an object is plugged at its own open descriptor, and only  *)
(* what is plugged is watched (Plugged).  Both events and timeouts look    *)
(* the object up when they call it, so that what is called is open.        *)
(*                                                                         *)
(* Alarms: while the alarms of a time are run, no callback can add to them *)
(* an alarm that waits to be run, because a new one is set for later than  *)
(* now; so those that are deleted together have all been run (AlarmsDone). *)
(*                                                                         *)
(* The loop over alarms: what is due is before it or is being run, and a   *)
(* time that is before it still has its alarms (AlarmsAhead).              *)
(***************************************************************************)
EXTENDS IdleQueue, TLAPS

Plugged ==
    \A f \in Fd : /\ queue[f] # None => fd[queue[f]] = f
                  /\ watch[f] # {} => queue[f] # None

AlarmsDone ==
    /\ current_time <= now
    /\ running.call = "alarm" =>
         /\ running.at <= current_time
         /\ \A i \in 1 .. Len(alarms[running.at]) :
              i <= running.i => life[alarms[running.at][i]] # "set"

AlarmsAhead ==
    /\ running.call = "alarm" => pc = "alarms" /\ running.at \notin todo
    /\ pc = "alarms" =>
         /\ \A t \in todo : alarms[t] # <<>>
         /\ \A t \in Time :
              Due(t) => \/ t \in todo
                        \/ running.call = "alarm" /\ running.at = t

USE IdleQueueAssumption

-----------------------------------------------------------------------------
(* Types, with what is watched.                                            *)

DescriptorsOK == TypeOK /\ Plugged

\* A queue begins with nothing plugged.
LEMMA InitDescriptors == Init => DescriptorsOK
BY DEF Init, DescriptorsOK, TypeOK, Plugged, Time, NoTimeout, Nothing

\* Flags for plugging are conditions.
LEMMA FlagsType ==
    ASSUME NEW writable \in BOOLEAN, NEW readable \in BOOLEAN
    PROVE  Flags(writable, readable) \subseteq Condition
BY DEF Flags, Condition

\* An object that opens takes a descriptor that nobody has.
LEMMA OpenDescriptors ==
    ASSUME DescriptorsOK, NEW o \in Obj, NEW f \in Fd,
           NEW flags \in SUBSET Condition, Open(o, f, flags)
    PROVE  DescriptorsOK'
<1>1. fd[o] = None /\ \A p \in Obj : fd[p] # f
  BY DEF Open, Taken
<1>2. TypeOK'
  BY DEF DescriptorsOK, TypeOK, Open, PlugIdle, loop
<1>3. Plugged'
  BY <1>1 DEF DescriptorsOK, TypeOK, Plugged, Open, PlugIdle
<1>. QED  BY <1>2, <1>3 DEF DescriptorsOK

\* Plugging again keeps the descriptor of the object.
LEMMA ReplugDescriptors ==
    ASSUME DescriptorsOK, NEW o \in Obj, NEW flags \in SUBSET Condition,
           Replug(o, flags)
    PROVE  DescriptorsOK'
BY DEF DescriptorsOK, TypeOK, Plugged, Replug, PlugIdle, loop

\* The tables of the queue, when a descriptor is unplugged
LEMMA UnplugTables ==
    ASSUME DescriptorsOK, NEW f \in Fd, UnplugIdle(f)
    PROVE  /\ queue' \in [Fd -> Obj \cup {None}]
           /\ watch' \in [Fd -> SUBSET Condition]
           /\ queue'[f] = None /\ watch'[f] = {}
           /\ \A g \in Fd \ {f} : queue'[g] = queue[g] /\ watch'[g] = watch[g]
BY DEF DescriptorsOK, TypeOK, UnplugIdle

\* An object that closes is unplugged first.
LEMMA CloseDescriptors ==
    ASSUME DescriptorsOK, NEW o \in Obj, Close(o)
    PROVE  DescriptorsOK'
<1>. DEFINE f == fd[o]
<1>1. f \in Fd
  BY DEF DescriptorsOK, TypeOK, Close
<1>2. /\ fd' \in [Obj -> Fd \cup {None}]
      /\ \A p \in Obj \ {o} : fd'[p] = fd[p]
      /\ read_timeouts' \in [Fd -> Timeout \cup {NoTimeout}]
  BY <1>1 DEF DescriptorsOK, TypeOK, Close, RemoveTimeout
<1>3. CASE queue[f] # None
  <2>1. UnplugIdle(f)
    BY <1>3 DEF Close
  <2>2. ASSUME NEW g \in Fd
        PROVE  /\ queue'[g] # None => fd'[queue'[g]] = g
               /\ watch'[g] # {} => queue'[g] # None
    <3>1. CASE g = f
      BY <1>1, <2>1, <3>1, UnplugTables
    <3>2. CASE g # f
      <4>1. /\ queue'[g] = queue[g] /\ watch'[g] = watch[g]
            /\ queue[g] \in Obj \cup {None}
        BY <1>1, <2>1, <3>2, UnplugTables DEF DescriptorsOK, TypeOK
      <4>2. queue[g] # None => fd[queue[g]] = g /\ queue[g] # o
        BY <3>2 DEF DescriptorsOK, Plugged
      <4>. QED  BY <4>1, <4>2, <1>2 DEF DescriptorsOK, Plugged
    <3>. QED  BY <3>1, <3>2
  <2>3. Plugged'
    BY <2>2 DEF Plugged
  <2>. QED
    BY <1>1, <1>2, <2>1, <2>3, UnplugTables DEF DescriptorsOK, TypeOK, Close, loop
<1>4. CASE queue[f] = None
  <2>1. Plugged'
    BY <1>1, <1>2, <1>4 DEF DescriptorsOK, TypeOK, Plugged, Close
  <2>. QED
    BY <1>1, <1>2, <1>4, <2>1 DEF DescriptorsOK, TypeOK, Close, loop
<1>. QED  BY <1>3, <1>4

\* The end of a callback touches no descriptor.
LEMMA EndDescriptors ==
    ASSUME DescriptorsOK, running # Nothing, End
    PROVE  DescriptorsOK'
<1>1. running.obj \in Obj /\ running.fd \in Fd
  BY DEF DescriptorsOK, TypeOK, End, Nothing
<1>. QED
  BY <1>1 DEF DescriptorsOK, TypeOK, Plugged, End, UnplugIdle, loop

\* Timeouts are set and
LEMMA SetReadTimeoutDescriptors ==
    ASSUME DescriptorsOK, NEW o \in Obj, NEW seconds \in 1 .. MaxTime,
           SetReadTimeout(o, seconds)
    PROVE  DescriptorsOK'
<1>1. read_timeouts' \in [Fd -> Timeout \cup {NoTimeout}]
  BY DEF DescriptorsOK, TypeOK, SetReadTimeout, Timeout
<1>. QED
  BY <1>1 DEF DescriptorsOK, TypeOK, Plugged, SetReadTimeout, loop, plugs

\* removed without a change of what is plugged,
LEMMA StopTimeoutDescriptors ==
    ASSUME DescriptorsOK, NEW o \in Obj, StopTimeout(o)
    PROVE  DescriptorsOK'
BY DEF DescriptorsOK, TypeOK, Plugged, StopTimeout, RemoveTimeout, loop, plugs

\* and so are alarms.
LEMMA SetAlarmDescriptors ==
    ASSUME DescriptorsOK, NEW a \in Alarm, NEW seconds \in 1 .. MaxTime,
           SetAlarm(a, seconds)
    PROVE  DescriptorsOK'
<1>1. alarms' \in [Time -> Seq(Alarm)]
  BY DEF DescriptorsOK, TypeOK, SetAlarm
<1>. QED
  BY <1>1 DEF DescriptorsOK, TypeOK, Plugged, SetAlarm, loop, plugs

\* What an event calls is plugged, hence open.
LEMMA EventDescriptors ==
    ASSUME DescriptorsOK, NEW f \in Fd, NEW flags \in SUBSET Condition,
           Event(f, flags)
    PROVE  DescriptorsOK'
<1>1. queue[f] \in Obj
  BY DEF DescriptorsOK, TypeOK, Plugged, Event
<1>2. running' \in [call : Call, obj : Obj, fd : Fd, flags : SUBSET Condition]
  BY <1>1 DEF Event, Callback, Call
<1>3. CASE Callback(flags) = "pollend"
  <2>1. UnplugIdle(f)
    BY <1>3 DEF Event
  <2>2. Plugged'
    BY <2>1, UnplugTables DEF DescriptorsOK, TypeOK, Plugged, Event
  <2>3. read_timeouts' \in [Fd -> Timeout \cup {NoTimeout}]
    BY <1>3 DEF DescriptorsOK, TypeOK, Event, RemoveTimeout
  <2>. QED
    BY <1>2, <2>1, <2>2, <2>3, UnplugTables DEF DescriptorsOK, TypeOK, Event, loop
<1>4. CASE Callback(flags) # "pollend"
  BY <1>2, <1>4 DEF DescriptorsOK, TypeOK, Plugged, Event, loop
<1>. QED  BY <1>3, <1>4

\* The loops over timeouts and alarms call nobody themselves.
LEMMA CheckDescriptors ==
    ASSUME DescriptorsOK, CheckTimeEvents \/ CheckAlarms \/ CheckDone
    PROVE  DescriptorsOK'
<1>1. CASE CheckTimeEvents
  <2>1. todo' \subseteq [fd : Fd, at : Time]
    BY <1>1 DEF DescriptorsOK, TypeOK, CheckTimeEvents, Timeout
  <2>. QED
    BY <1>1, <2>1 DEF DescriptorsOK, TypeOK, Plugged, CheckTimeEvents, plugs
<1>2. CASE CheckAlarms \/ CheckDone
  BY <1>2 DEF DescriptorsOK, TypeOK, Plugged, CheckAlarms, CheckDone, plugs
<1>. QED  BY <1>1, <1>2

\* What a timeout calls is plugged when it is called, however old the
\* snapshot is.
LEMMA CheckTimeoutDescriptors ==
    ASSUME DescriptorsOK, NEW e \in [fd : Fd, at : Time], CheckTimeout(e)
    PROVE  DescriptorsOK'
<1>1. \/ running' = Nothing
      \/ running' \in [call : Call, obj : Obj, fd : Fd, flags : SUBSET Condition]
  BY DEF DescriptorsOK, TypeOK, CheckTimeout, Call
<1>. QED
  BY <1>1 DEF DescriptorsOK, TypeOK, Plugged, CheckTimeout, RemoveTimeout, plugs

\* Running an alarm keeps the types.
LEMMA RunAlarmType ==
    ASSUME DescriptorsOK, NEW t \in Time, NEW i \in Nat, RunAlarm(t, i)
    PROVE  /\ running' \in [call : {"alarm"}, at : Time, i : Nat]
           /\ life' \in [Alarm -> {"free", "set", "ran", "again"}]
<1>. DEFINE a == alarms[t][i]
<1>1. life' = [life EXCEPT ![a] = IF @ = "set" THEN "ran" ELSE "again"]
  BY DEF RunAlarm
<1>2. life' \in [Alarm -> {"free", "set", "ran", "again"}]
  <2>. HIDE DEF a
  <2>. QED  BY <1>1 DEF DescriptorsOK, TypeOK
<1>. QED  BY <1>2 DEF RunAlarm

\* Alarms are run without a change of what is plugged.
LEMMA CheckAlarmTimeDescriptors ==
    ASSUME DescriptorsOK, NEW t \in Time, CheckAlarmTime(t)
    PROVE  DescriptorsOK'
<1>1. CASE t > current_time
  BY <1>1 DEF DescriptorsOK, TypeOK, Plugged, CheckAlarmTime, plugs
<1>2. CASE ~(t > current_time)
  <2>1. /\ running' \in [call : {"alarm"}, at : Time, i : Nat]
        /\ life' \in [Alarm -> {"free", "set", "ran", "again"}]
    BY <1>2, RunAlarmType DEF CheckAlarmTime
  <2>. QED
    BY <1>2, <2>1 DEF DescriptorsOK, TypeOK, Plugged, CheckAlarmTime, plugs
<1>. QED  BY <1>1, <1>2

\* When a callback returns, what the loop calls next is open.
LEMMA ReturnDescriptors ==
    ASSUME DescriptorsOK, Return
    PROVE  DescriptorsOK'
<1>1. CASE running.call # "alarm"
  BY <1>1 DEF DescriptorsOK, TypeOK, Plugged, Return, plugs, loop
<1>2. CASE running.call = "alarm"
  <2>1. running.at \in Time /\ running.i \in Nat
    BY <1>2 DEF DescriptorsOK, TypeOK, Call, Nothing
  <2>2. Plugged'
    BY DEF DescriptorsOK, Plugged, Return, plugs
  <2>3. CASE running.i < Len(alarms[running.at])
    <3>1. /\ running' \in [call : {"alarm"}, at : Time, i : Nat]
          /\ life' \in [Alarm -> {"free", "set", "ran", "again"}]
      BY <1>2, <2>1, <2>3, RunAlarmType, running.i + 1 \in Nat DEF Return
    <3>. QED
      BY <1>2, <2>2, <2>3, <3>1 DEF DescriptorsOK, TypeOK, Return, plugs, loop
  <2>4. CASE ~(running.i < Len(alarms[running.at]))
    <3>1. /\ alarms' = [alarms EXCEPT ![running.at] = <<>>]
          /\ running' = Nothing /\ life' = life
      BY <1>2, <2>4 DEF Return
    <3>2. alarms' \in [Time -> Seq(Alarm)]
      BY <3>1, <2>1 DEF DescriptorsOK, TypeOK
    <3>. QED
      BY <2>2, <3>1, <3>2 DEF DescriptorsOK, TypeOK, Return, plugs, loop
  <2>. QED  BY <2>3, <2>4
<1>. QED  BY <1>1, <1>2

\* An exception ends the loop and leaves the descriptors as they are.
LEMMA RaiseDescriptors ==
    ASSUME DescriptorsOK, Raise
    PROVE  DescriptorsOK'
<1>1. running.call \in {"pollin", "pollout", "pollend"} =>
        running.fd \in Fd /\ running.flags \subseteq Condition
  BY DEF DescriptorsOK, TypeOK, Nothing
<1>. QED
  BY <1>1 DEF DescriptorsOK, TypeOK, Plugged, Raise

\* Time passes.
LEMMA TickDescriptors ==
    ASSUME DescriptorsOK, Tick
    PROVE  DescriptorsOK'
<1>1. now' \in Time
  BY DEF DescriptorsOK, TypeOK, Tick, Time
<1>2. UNCHANGED <<plugs, read_timeouts, alarms, loop, running, life>>
  BY DEF Tick
<1>3. Plugged'
  BY <1>2 DEF DescriptorsOK, Plugged, plugs
<1>. QED  BY <1>1, <1>2, <1>3 DEF DescriptorsOK, TypeOK, plugs, loop

\* Every step keeps objects plugged at their own descriptor.
THEOREM Descriptors == Spec => []DescriptorsOK
<1>1. DescriptorsOK /\ [Next]_vars => DescriptorsOK'
  <2>. SUFFICES ASSUME DescriptorsOK, [Next]_vars PROVE DescriptorsOK'
    OBVIOUS
  <2>1. CASE Act
    <3>1. CASE \E o \in Obj, w \in Wanted :
                  \/ \E f \in Fd : Open(o, f, Flags(w[1], w[2]))
                  \/ Replug(o, Flags(w[1], w[2]))
      BY <3>1, FlagsType, OpenDescriptors, ReplugDescriptors
    <3>2. CASE \E o \in Obj : Close(o)
      BY <3>2, CloseDescriptors
    <3>3. CASE \E o \in Obj : StopTimeout(o)
      BY <3>3, StopTimeoutDescriptors
    <3>4. CASE \E o \in Obj, seconds \in 1 .. MaxTime : SetReadTimeout(o, seconds)
      BY <3>4, SetReadTimeoutDescriptors
    <3>5. CASE \E a \in Alarm, seconds \in 1 .. MaxTime : SetAlarm(a, seconds)
      BY <3>5, SetAlarmDescriptors
    <3>6. CASE running # Nothing /\ End
      BY <3>6, EndDescriptors
    <3>. QED  BY <2>1, <3>1, <3>2, <3>3, <3>4, <3>5, <3>6 DEF Act
  <2>2. CASE Loop
    BY <2>2, CheckDescriptors, CheckTimeoutDescriptors,
       CheckAlarmTimeDescriptors, ReturnDescriptors DEF Loop
  <2>3. CASE Raise \/ Tick
    BY <2>3, RaiseDescriptors, TickDescriptors
  <2>4. CASE \E f \in Fd, flags \in SUBSET Condition : Event(f, flags)
    BY <2>4, EventDescriptors
  <2>5. CASE UNCHANGED vars
    BY <2>5 DEF DescriptorsOK, TypeOK, Plugged, vars
  <2>. QED  BY <2>1, <2>2, <2>3, <2>4, <2>5 DEF Next
<1>. QED  BY InitDescriptors, <1>1, PTL DEF Spec

-----------------------------------------------------------------------------
(* Alarms.                                                                 *)

\* A queue begins without alarms.
LEMMA InitAlarms == Init => AlarmsAreKept /\ AlarmsDone
BY DEF Init, AlarmsAreKept, AlarmsDone, Nothing

\* An alarm that is set while others run is for a later time than those,
\* and is not deleted with them.
LEMMA SetAlarmAlarms ==
    ASSUME DescriptorsOK, AlarmsDone, AlarmsAreKept,
           NEW a \in Alarm, NEW seconds \in 1 .. MaxTime, SetAlarm(a, seconds)
    PROVE  AlarmsDone' /\ AlarmsAreKept'
<1>. DEFINE s == now + seconds
<1>1. /\ s \in Time /\ s > now
      /\ alarms' = [alarms EXCEPT ![s] = Append(@, a)]
      /\ life' = [life EXCEPT ![a] = "set"]
      /\ \A t \in Time : ~Contains(alarms[t], a)
      /\ UNCHANGED <<now, current_time, running>>
  <2>1. s > now
    BY DEF DescriptorsOK, TypeOK, Time
  <2>. QED  BY <2>1 DEF SetAlarm, loop
<1>2. /\ alarms \in [Time -> Seq(Alarm)]
      /\ life \in [Alarm -> {"free", "set", "ran", "again"}]
      /\ now \in Int /\ current_time \in Int
      /\ running.call = "alarm" => running.at \in Time
  BY DEF DescriptorsOK, TypeOK, Time, Call, Nothing
<1>. HIDE DEF s
<1>3. ASSUME NEW b \in Alarm, life'[b] = "set"
      PROVE  \E t \in Time : Contains(alarms'[t], b)
  <2>1. CASE b = a
    <3>1. /\ alarms'[s] = Append(alarms[s], a)
          /\ Len(alarms[s]) \in Nat
          /\ Len(Append(alarms[s], a)) = Len(alarms[s]) + 1
          /\ Append(alarms[s], a)[Len(alarms[s]) + 1] = a
      BY <1>1, <1>2
    <3>. QED  BY <1>1, <2>1, <3>1 DEF Contains
  <2>2. CASE b # a
    <3>1. PICK t \in Time : Contains(alarms[t], b)
      BY <1>1, <1>2, <1>3, <2>2 DEF AlarmsAreKept
    <3>2. CASE t # s
      BY <1>1, <1>2, <3>1, <3>2
    <3>3. CASE t = s
      <4>1. PICK i \in 1 .. Len(alarms[s]) : alarms[s][i] = b
        BY <3>1, <3>3 DEF Contains
      <4>2. /\ alarms'[s] = Append(alarms[s], a)
            /\ i \in 1 .. Len(Append(alarms[s], a))
            /\ Append(alarms[s], a)[i] = b
        BY <1>1, <1>2, <4>1
      <4>. QED  BY <1>1, <4>2 DEF Contains
    <3>. QED  BY <3>2, <3>3
  <2>. QED  BY <2>1, <2>2
<1>4. ASSUME running.call = "alarm"
      PROVE  \A i \in 1 .. Len(alarms'[running.at]) :
               i <= running.i => life'[alarms'[running.at][i]] # "set"
  <2>1. running.at # s /\ running.at \in Time
    BY <1>1, <1>2, <1>4 DEF AlarmsDone, Time
  <2>2. alarms'[running.at] = alarms[running.at]
    BY <1>1, <1>2, <2>1
  <2>3. \A i \in 1 .. Len(alarms[running.at]) :
          alarms[running.at][i] \in Alarm /\ alarms[running.at][i] # a
    BY <1>1, <1>2, <2>1 DEF Contains
  <2>. QED  BY <1>1, <1>2, <1>4, <2>2, <2>3 DEF AlarmsDone
<1>5. AlarmsAreKept'
  BY <1>3 DEF AlarmsAreKept
<1>. QED  BY <1>1, <1>4, <1>5 DEF AlarmsDone

\* Running the next alarm of a time leaves no alarm behind it that has not
\* run.
LEMMA RunAlarmAlarms ==
    ASSUME DescriptorsOK, AlarmsAreKept,
           NEW t \in Time, NEW i \in Nat, RunAlarm(t, i), UNCHANGED alarms,
           \A j \in 1 .. Len(alarms[t]) : j < i => life[alarms[t][j]] # "set"
    PROVE  /\ AlarmsAreKept'
           /\ \A j \in 1 .. Len(alarms[t]) : j <= i => life'[alarms[t][j]] # "set"
<1>1. /\ alarms[t] \in Seq(Alarm)
      /\ life \in [Alarm -> {"free", "set", "ran", "again"}]
  BY DEF DescriptorsOK, TypeOK
<1>2. \A b \in Alarm : life'[b] = "set" => life[b] = "set" /\ b # alarms[t][i]
  BY <1>1 DEF RunAlarm
<1>3. AlarmsAreKept'
  BY <1>2 DEF AlarmsAreKept
<1>4. \A j \in 1 .. Len(alarms[t]) : j <= i => life'[alarms[t][j]] # "set"
  BY <1>1, <1>2
<1>. QED  BY <1>3, <1>4

\* The loop over the alarms of a time begins with the first.
LEMMA CheckAlarmTimeAlarms ==
    ASSUME DescriptorsOK, AlarmsDone, AlarmsAreKept,
           NEW t \in Time, CheckAlarmTime(t)
    PROVE  AlarmsDone' /\ AlarmsAreKept'
<1>1. CASE t > current_time
  BY <1>1 DEF CheckAlarmTime, AlarmsDone, AlarmsAreKept
<1>2. CASE ~(t > current_time)
  <2>1. /\ RunAlarm(t, 1) /\ UNCHANGED <<alarms, now, current_time>>
        /\ t <= current_time
    BY <1>2 DEF CheckAlarmTime, DescriptorsOK, TypeOK, Time
  <2>2. \A j \in 1 .. Len(alarms[t]) : j < 1 => life[alarms[t][j]] # "set"
    BY DEF DescriptorsOK, TypeOK
  <2>3. /\ AlarmsAreKept'
        /\ \A j \in 1 .. Len(alarms[t]) : j <= 1 => life'[alarms[t][j]] # "set"
    BY <2>1, <2>2, RunAlarmAlarms
  <2>. QED  BY <2>1, <2>3 DEF AlarmsDone, RunAlarm
<1>. QED  BY <1>1, <1>2

\* The time is deleted only when all its alarms have run.
LEMMA ReturnAlarms ==
    ASSUME DescriptorsOK, AlarmsDone, AlarmsAreKept, Return
    PROVE  AlarmsDone' /\ AlarmsAreKept'
<1>. DEFINE t == running.at
            i == running.i
<1>1. CASE running.call # "alarm"
  BY <1>1 DEF Return, AlarmsDone, AlarmsAreKept, Nothing, loop
<1>2. CASE running.call = "alarm"
  <2>1. /\ t \in Time /\ i \in Nat /\ alarms[t] \in Seq(Alarm)
        /\ UNCHANGED <<now, current_time>>
    BY <1>2 DEF DescriptorsOK, TypeOK, Call, Nothing, Return, loop
  <2>2. CASE i < Len(alarms[t])
    <3>1. RunAlarm(t, i + 1) /\ UNCHANGED alarms
      BY <1>2, <2>2 DEF Return
    <3>2. \A j \in 1 .. Len(alarms[t]) : j < i + 1 => life[alarms[t][j]] # "set"
      BY <1>2, <2>1 DEF AlarmsDone
    <3>3. /\ AlarmsAreKept'
          /\ \A j \in 1 .. Len(alarms[t]) : j <= i + 1 => life'[alarms[t][j]] # "set"
      BY <2>1, <3>1, <3>2, RunAlarmAlarms
    <3>. QED  BY <1>2, <2>1, <3>1, <3>3 DEF AlarmsDone, RunAlarm
  <2>3. CASE ~(i < Len(alarms[t]))
    <3>1. /\ alarms' = [alarms EXCEPT ![t] = <<>>]
          /\ running' = Nothing /\ life' = life
      BY <1>2, <2>3 DEF Return
    <3>2. \A b \in Alarm : life[b] = "set" => ~Contains(alarms[t], b)
      BY <1>2, <2>1, <2>3 DEF AlarmsDone, Contains
    <3>3. ASSUME NEW b \in Alarm, life[b] = "set"
          PROVE  \E s \in Time : Contains(alarms'[s], b)
      <4>1. PICK s \in Time : Contains(alarms[s], b)
        BY <3>3 DEF AlarmsAreKept
      <4>2. s # t
        BY <3>2, <3>3, <4>1
      <4>. QED  BY <3>1, <4>1, <4>2 DEF DescriptorsOK, TypeOK
    <3>. QED  BY <2>1, <3>1, <3>3 DEF AlarmsAreKept, AlarmsDone, Nothing
  <2>. QED  BY <2>2, <2>3
<1>. QED  BY <1>1, <1>2

\* Callbacks that set no alarm lose none,
LEMMA CallbackAlarms ==
    ASSUME DescriptorsOK, AlarmsDone, AlarmsAreKept,
           UNCHANGED <<now, alarms, current_time, running, life>>
    PROVE  AlarmsDone' /\ AlarmsAreKept'
BY DEF AlarmsDone, AlarmsAreKept

\* and no more does calling them,
LEMMA CallAlarms ==
    ASSUME DescriptorsOK, AlarmsDone, AlarmsAreKept,
           UNCHANGED <<now, alarms, life>>,
           running'.call # "alarm", current_time' \in {current_time, now}
    PROVE  AlarmsDone' /\ AlarmsAreKept'
BY DEF AlarmsDone, AlarmsAreKept, DescriptorsOK, TypeOK, Time

\* or the clock.
LEMMA TickAlarms ==
    ASSUME DescriptorsOK, AlarmsDone, AlarmsAreKept, Tick
    PROVE  AlarmsDone' /\ AlarmsAreKept'
BY DEF AlarmsDone, AlarmsAreKept, DescriptorsOK, TypeOK, Time, Tick, loop

\* The alarms that are deleted together have all been run.
THEOREM Alarms == Spec => [](AlarmsAreKept /\ AlarmsDone)
<1>1. DescriptorsOK /\ AlarmsDone /\ AlarmsAreKept /\ [Next]_vars
        => AlarmsDone' /\ AlarmsAreKept'
  <2>. SUFFICES ASSUME DescriptorsOK, AlarmsDone, AlarmsAreKept, [Next]_vars
                PROVE  AlarmsDone' /\ AlarmsAreKept'
    OBVIOUS
  <2>1. CASE Act
    <3>1. CASE \E a \in Alarm, seconds \in 1 .. MaxTime : SetAlarm(a, seconds)
      BY <3>1, SetAlarmAlarms
    <3>2. CASE UNCHANGED <<now, alarms, current_time, running, life>>
      BY <3>2, CallbackAlarms
    <3>. QED
      BY <2>1, <3>1, <3>2 DEF Act, Open, Replug, Close, StopTimeout,
                              SetReadTimeout, End, loop
  <2>2. CASE Return
    BY <2>2, ReturnAlarms
  <2>3. CASE \E t \in Time : CheckAlarmTime(t)
    BY <2>3, CheckAlarmTimeAlarms
  <2>4. CASE CheckTimeEvents \/ CheckAlarms \/ CheckDone
    <3>1. running'.call # "alarm"
      BY <2>4 DEF CheckTimeEvents, CheckAlarms, CheckDone, Nothing
    <3>. QED
      BY <2>4, <3>1, CallAlarms DEF CheckTimeEvents, CheckAlarms, CheckDone
  <2>5. CASE \E e \in [fd : Fd, at : Time] : CheckTimeout(e)
    <3>1. running'.call # "alarm"
      BY <2>5 DEF CheckTimeout, Nothing
    <3>. QED  BY <2>5, <3>1, CallAlarms DEF CheckTimeout
  <2>6. CASE Raise
    BY <2>6, CallAlarms DEF Raise, Nothing
  <2>7. CASE Tick
    BY <2>7, TickAlarms
  <2>8. CASE \E f \in Fd, flags \in SUBSET Condition : Event(f, flags)
    <3>1. running'.call # "alarm"
      BY <2>8 DEF Event, Callback
    <3>. QED  BY <2>8, <3>1, CallAlarms DEF Event, loop
  <2>9. CASE UNCHANGED vars
    BY <2>9, CallbackAlarms DEF vars
  <2>. QED
    BY <2>1, <2>2, <2>3, <2>4, <2>5, <2>6, <2>7, <2>8, <2>9 DEF Next, Loop
<1>. QED  BY InitAlarms, Descriptors, <1>1, PTL DEF Spec

-----------------------------------------------------------------------------
(* The loop over alarms.                                                   *)

\* A queue begins outside the loop.
LEMMA InitAhead == Init => AlarmsAhead
BY DEF Init, AlarmsAhead, Nothing

\* An alarm that is set is not due in the loop under way, and a time that is
\* before the loop keeps its alarms.
LEMMA SetAlarmAhead ==
    ASSUME DescriptorsOK, AlarmsDone, AlarmsAhead,
           NEW a \in Alarm, NEW seconds \in 1 .. MaxTime, SetAlarm(a, seconds)
    PROVE  AlarmsAhead'
<1>. DEFINE s == now + seconds
<1>1. /\ s \in Time /\ s > current_time
      /\ alarms' = [alarms EXCEPT ![s] = Append(@, a)]
      /\ UNCHANGED <<pc, todo, current_time, running>>
  <2>1. s > current_time
    BY DEF DescriptorsOK, TypeOK, AlarmsDone, Time
  <2>. QED  BY <2>1 DEF SetAlarm, loop
<1>. HIDE DEF s
<1>2. alarms \in [Time -> Seq(Alarm)] /\ current_time \in Int
  BY DEF DescriptorsOK, TypeOK, Time
<1>3. \A t \in Time : t # s => alarms'[t] = alarms[t]
  BY <1>1, <1>2
<1>4. alarms'[s] # <<>>
  <2>1. alarms'[s] = Append(alarms[s], a) /\ alarms[s] \in Seq(Alarm)
    BY <1>1, <1>2
  <2>2. Len(Append(alarms[s], a)) = Len(alarms[s]) + 1 /\ Len(alarms[s]) \in Nat
    BY <2>1
  <2>. QED  BY <2>1, <2>2
<1>5. \A t \in Time : Due(t)' => Due(t)
  BY <1>1, <1>2, <1>3 DEF Due, Time
<1>6. pc = "alarms" => todo \subseteq Time
  BY DEF DescriptorsOK, TypeOK
<1>. QED  BY <1>1, <1>3, <1>4, <1>5, <1>6 DEF AlarmsAhead

\* A turn of the loop takes the time it runs from those that are before it.
LEMMA CheckAlarmTimeAhead ==
    ASSUME AlarmsAhead, NEW t \in Time, CheckAlarmTime(t)
    PROVE  AlarmsAhead'
<1>1. UNCHANGED <<alarms, current_time>> /\ running = Nothing /\ pc = "alarms"
  BY DEF CheckAlarmTime
<1>2. CASE t > current_time
  BY <1>1, <1>2 DEF CheckAlarmTime, AlarmsAhead, Nothing
<1>3. CASE ~(t > current_time)
  <2>1. /\ t \in todo /\ todo' = todo \ {t} /\ pc' = pc
        /\ running'.call = "alarm" /\ running'.at = t
    BY <1>3 DEF CheckAlarmTime, RunAlarm
  <2>2. running.call # "alarm"
    BY <1>1 DEF Nothing
  <2>. QED  BY <1>1, <2>1, <2>2 DEF AlarmsAhead, Due
<1>. QED  BY <1>2, <1>3

\* When the alarms of a time are deleted nothing of that time is due.
LEMMA ReturnAhead ==
    ASSUME DescriptorsOK, AlarmsAhead, Return
    PROVE  AlarmsAhead'
<1>1. UNCHANGED <<pc, todo, current_time>>
  BY DEF Return, loop
<1>2. CASE running.call # "alarm"
  <2>1. UNCHANGED alarms /\ running'.call # "alarm"
    BY <1>2 DEF Return, Nothing
  <2>. QED  BY <1>1, <1>2, <2>1 DEF AlarmsAhead, Due
<1>3. CASE running.call = "alarm" /\ running.i < Len(alarms[running.at])
  <2>1. UNCHANGED alarms /\ running'.call = "alarm" /\ running'.at = running.at
    BY <1>3 DEF Return, RunAlarm
  <2>. QED  BY <1>1, <1>3, <2>1 DEF AlarmsAhead, Due
<1>4. CASE running.call = "alarm" /\ ~(running.i < Len(alarms[running.at]))
  <2>1. alarms' = [alarms EXCEPT ![running.at] = <<>>] /\ running' = Nothing
    BY <1>4 DEF Return
  <2>2. alarms \in [Time -> Seq(Alarm)] /\ running.at \in Time
    BY <1>4 DEF DescriptorsOK, TypeOK, Call, Nothing
  <2>3. \A t \in Time : IF t = running.at THEN alarms'[t] = <<>>
                        ELSE alarms'[t] = alarms[t]
    BY <2>1, <2>2
  <2>4. pc = "alarms" => todo \subseteq Time
    BY DEF DescriptorsOK, TypeOK
  <2>. QED  BY <1>1, <1>4, <2>1, <2>3, <2>4 DEF AlarmsAhead, Due, Nothing
<1>. QED  BY <1>2, <1>3, <1>4

\* What neither enters the loop nor sets an alarm keeps what is before it.
LEMMA KeptAhead ==
    ASSUME AlarmsAhead, UNCHANGED <<pc, todo, alarms, current_time, running>>
    PROVE  AlarmsAhead'
BY DEF AlarmsAhead, Due

\* What is due is never behind the loop.
THEOREM Ahead == Spec => []AlarmsAhead
<1>1. DescriptorsOK /\ AlarmsDone /\ AlarmsAhead /\ [Next]_vars => AlarmsAhead'
  <2>. SUFFICES ASSUME DescriptorsOK, AlarmsDone, AlarmsAhead, [Next]_vars
                PROVE  AlarmsAhead'
    OBVIOUS
  <2>1. CASE Act
    <3>1. CASE \E a \in Alarm, seconds \in 1 .. MaxTime : SetAlarm(a, seconds)
      BY <3>1, SetAlarmAhead
    <3>2. CASE UNCHANGED <<pc, todo, alarms, current_time, running>>
      BY <3>2, KeptAhead
    <3>. QED
      BY <2>1, <3>1, <3>2 DEF Act, Open, Replug, Close, StopTimeout,
                              SetReadTimeout, End, loop
  <2>2. CASE Return
    BY <2>2, ReturnAhead
  <2>3. CASE \E t \in Time : CheckAlarmTime(t)
    BY <2>3, CheckAlarmTimeAhead
  <2>4. CASE CheckAlarms
    <3>1. /\ todo' = {t \in Time : alarms[t] # <<>>} /\ running'.call # "alarm"
          /\ UNCHANGED <<alarms, current_time>>
      BY <2>4 DEF CheckAlarms, Nothing
    <3>. QED  BY <3>1 DEF AlarmsAhead, Due
  <2>5. CASE CheckTimeEvents \/ CheckDone
    BY <2>5 DEF CheckTimeEvents, CheckDone, AlarmsAhead, Nothing
  <2>6. CASE \E e \in [fd : Fd, at : Time] : CheckTimeout(e)
    BY <2>6 DEF CheckTimeout, AlarmsAhead, Nothing
  <2>7. CASE Raise
    BY <2>7 DEF Raise, AlarmsAhead, Nothing
  <2>8. CASE Tick
    BY <2>8, KeptAhead DEF Tick, loop
  <2>9. CASE \E f \in Fd, flags \in SUBSET Condition : Event(f, flags)
    BY <2>9 DEF Event, Callback, AlarmsAhead, loop
  <2>10. CASE UNCHANGED vars
    BY <2>10, KeptAhead DEF vars
  <2>. QED
    BY <2>1, <2>2, <2>3, <2>4, <2>5, <2>6, <2>7, <2>8, <2>9, <2>10
       DEF Next, Loop
<1>. QED  BY InitAhead, Descriptors, Alarms, <1>1, PTL DEF Spec

-----------------------------------------------------------------------------
(* The properties.                                                         *)

\* TypeOK: the queue never leaves its state space, whatever callbacks do.
THEOREM TypeCorrect == Spec => []TypeOK
BY Descriptors, PTL DEF DescriptorsOK

\* PluggedIsOpen: plug_idle, unplug_idle and the disconnect methods keep
\* every object of the queue at a descriptor that is open and its own.
THEOREM PluggedAtItsOwn == Spec => []PluggedIsOpen
<1>1. DescriptorsOK => PluggedIsOpen
  BY DEF DescriptorsOK, Plugged, PluggedIsOpen
<1>. QED  BY Descriptors, <1>1, PTL

\* AlarmsAreKept: neither check_time_events nor an exception in a callback
\* loses an alarm that has not run.
THEOREM NoAlarmIsLost == Spec => []AlarmsAreKept
BY Alarms, PTL

\* ClosedIsNotCalled: process_events and the loop over the timeouts look up
\* the object they call, so that none is called after it was closed.
THEOREM NoneClosedIsCalled == Spec => ClosedIsNotCalled
<1>1. DescriptorsOK /\ [Next]_vars /\ running = Nothing /\ running'.call \in Call
        => running'.obj # None /\ fd[running'.obj] = running'.fd
  <2>. SUFFICES ASSUME DescriptorsOK, [Next]_vars, running = Nothing,
                       running'.call \in Call
                PROVE  running'.obj # None /\ fd[running'.obj] = running'.fd
    OBVIOUS
  <2>1. running' # running
    BY DEF Nothing, Call
  <2>2. CASE \E f \in Fd, flags \in SUBSET Condition : Event(f, flags)
    BY <2>2 DEF DescriptorsOK, TypeOK, Plugged, Event
  <2>3. CASE \E e \in [fd : Fd, at : Time] : CheckTimeout(e)
    BY <2>1, <2>3 DEF DescriptorsOK, TypeOK, Plugged, CheckTimeout
  <2>4. CASE \E t \in Time : CheckAlarmTime(t)
    BY <2>1, <2>4 DEF CheckAlarmTime, RunAlarm, Call
  <2>. QED
    BY <2>1, <2>2, <2>3, <2>4
       DEF Next, vars, Act, Loop, Open, Replug, Close, StopTimeout,
           SetReadTimeout, SetAlarm, End, CheckTimeEvents, CheckAlarms,
           CheckDone, Return, Raise, Tick
<1>. QED  BY Descriptors, <1>1, PTL DEF Spec, ClosedIsNotCalled

\* SkippedForLater: check_time_events stops before an alarm that is due only
\* at one that is not, so that no alarm is skipped where none is set for
\* later, however many there are and wherever the loops before it stopped.
THEOREM NoneIsSkippedForNothing == Spec => SkippedForLater
<1>1. DescriptorsOK /\ AlarmsAhead /\ [Next]_vars /\ LoopEnds
        /\ (\E t \in Time : Due(t))
        => \E t \in Time : t > current_time /\ alarms[t] # <<>>
  <2>. SUFFICES ASSUME DescriptorsOK, AlarmsAhead, [Next]_vars, LoopEnds,
                       NEW d \in Time, Due(d)
                PROVE  \E t \in Time : t > current_time /\ alarms[t] # <<>>
    OBVIOUS
  <2>1. d \in todo /\ pc = "alarms" /\ running = Nothing /\ pc' = "idle"
    BY DEF AlarmsAhead, LoopEnds, Nothing
  <2>2. PICK t \in Time : CheckAlarmTime(t)
    BY <2>1
       DEF Next, vars, Act, Loop, Open, Replug, Close, StopTimeout,
           SetReadTimeout, SetAlarm, End, CheckTimeEvents, CheckAlarms,
           CheckTimeout, CheckDone, Return, Raise, Tick, Event, loop
  <2>3. t > current_time /\ t \in todo
    BY <2>1, <2>2 DEF CheckAlarmTime
  <2>. QED  BY <2>1, <2>3 DEF AlarmsAhead
<1>. QED  BY Descriptors, Ahead, <1>1, PTL DEF Spec, SkippedForLater

==============================================================================
