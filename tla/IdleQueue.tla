------------------------------ MODULE IdleQueue ------------------------------
(***************************************************************************)
(* The event loop of Gajim: IdleQueue of common/xmpp/idlequeue.py, in the  *)
(* form of GlibIdleQueue of gajim.py, which is the one in use on Unix.     *)
(* Glib calls _process_events for a descriptor that has an event, and      *)
(* check_time_events every two seconds.  A callback is not atomic here:    *)
(* while one runs it may open, plug, close and set what it likes, on any   *)
(* object, and then returns or raises an exception.                        *)
(***************************************************************************)
EXTENDS Integers, SequencesExt

CONSTANTS
    Fd,        \* file descriptors, a set of numbers
    Obj,       \* IdleObjects: transports, transfers, commands
    Alarm,     \* alarm callbacks
    None,      \* no object
    Wanted,    \* what objects are plugged for: whether to write, and to read
    Raises,    \* callbacks may raise an exception
    MaxTime    \* bound on the clock

ASSUME IdleQueueAssumption ==
    /\ Fd \subseteq Nat /\ Fd # {} /\ None \notin Obj \cup Fd
    /\ Wanted \subseteq BOOLEAN \X BOOLEAN
    /\ Obj \cap Alarm = {} /\ Raises \in BOOLEAN /\ MaxTime \in Nat

VARIABLES
    now,            \* the clock
    fd,             \* the descriptor of each object, None when it is closed
    queue,          \* IdleQueue.queue: the object plugged at a descriptor
    watch,          \* the conditions Glib watches it for
    read_timeouts,  \* IdleQueue.read_timeouts; "by" is not in the code
    alarms,         \* IdleQueue.alarms: callbacks by time
    pc,             \* "idle", or the loop of check_time_events under way
    todo,           \* what that loop has still to look at
    current_time,   \* its local variable
    running,        \* the callback that runs: what, on whom, and where
    life            \* of an alarm callback: whether it is set and has run

vars == <<now, fd, queue, watch, read_timeouts, alarms, pc, todo,
          current_time, running, life>>
plugs == <<fd, queue, watch>>
loop == <<pc, todo, current_time>>

Time == 0 .. MaxTime
Condition == {"in", "out", "hup"}
NoTimeout == [at |-> None, by |-> None]
Timeout == [at : Time, by : Obj]
Call == {"pollin", "pollout", "pollend", "read_timeout"}
Nothing == [call |-> "none"]

TypeOK ==
    /\ now \in Time /\ current_time \in Time
    /\ fd \in [Obj -> Fd \cup {None}]
    /\ queue \in [Fd -> Obj \cup {None}]
    /\ watch \in [Fd -> SUBSET Condition]
    /\ read_timeouts \in [Fd -> Timeout \cup {NoTimeout}]
    /\ alarms \in [Time -> Seq(Alarm)]
    /\ pc \in {"idle", "timeouts", "alarms"}
    /\ IF pc = "alarms" THEN todo \subseteq Time
       ELSE todo \subseteq [fd : Fd, at : Time]
    /\ \/ running = Nothing
       \/ running \in [call : Call, obj : Obj, fd : Fd, flags : SUBSET Condition]
       \/ running \in [call : {"alarm"}, at : Time, i : Nat]
    /\ life \in [Alarm -> {"free", "set", "ran", "again"}]

Init ==
    /\ now = 0 /\ current_time = 0
    /\ fd = [o \in Obj |-> None]
    /\ queue = [f \in Fd |-> None]
    /\ watch = [f \in Fd |-> {}]
    /\ read_timeouts = [f \in Fd |-> NoTimeout]
    /\ alarms = [t \in Time |-> <<>>]
    /\ pc = "idle" /\ todo = {} /\ running = Nothing
    /\ life = [a \in Alarm |-> "free"]

-----------------------------------------------------------------------------
(* What callbacks, and the user interface between them, do to the queue.   *)

Acting == running # Nothing \/ pc = "idle"

\* The flags of plug_idle: 20, 23, 19, and 16 for a transfer that is paused
Flags(writable, readable) ==
    {"hup"} \cup (IF writable THEN {"out"} ELSE {})
            \cup (IF readable THEN {"in"} ELSE {})

\* plug_idle, once obj.fd is f
PlugIdle(o, f, flags) ==
    /\ queue' = [queue EXCEPT ![f] = o]
    /\ watch' = [watch EXCEPT ![f] = flags]

\* unplug_idle
UnplugIdle(f) ==
    /\ queue' = [queue EXCEPT ![f] = None]
    /\ watch' = [watch EXCEPT ![f] = {}]

RemoveTimeout(f) == read_timeouts' = [read_timeouts EXCEPT ![f] = NoTimeout]

Taken(f) == \E p \in Obj : fd[p] = f

\* A socket or pipe is opened, at the lowest descriptor, and plugged
Open(o, f, flags) ==
    /\ Acting /\ fd[o] = None
    /\ ~Taken(f) /\ \A g \in Fd : g < f => Taken(g)
    /\ fd' = [fd EXCEPT ![o] = f]
    /\ PlugIdle(o, f, flags)
    /\ UNCHANGED <<now, read_timeouts, alarms, loop, running, life>>

\* plug_idle of an object that is plugged, for other conditions
Replug(o, flags) ==
    /\ Acting /\ fd[o] # None /\ queue[fd[o]] = o /\ flags # watch[fd[o]]
    /\ PlugIdle(o, fd[o], flags)
    /\ UNCHANGED <<now, fd, read_timeouts, alarms, loop, running, life>>

\* The disconnect methods of transports and transfers, and what pollend of
\* a command does
Close(o) ==
    /\ Acting /\ fd[o] # None
    /\ fd' = [fd EXCEPT ![o] = None]
    /\ IF queue[fd[o]] # None THEN UnplugIdle(fd[o])
       ELSE UNCHANGED <<queue, watch>>
    /\ RemoveTimeout(fd[o])
    /\ UNCHANGED <<now, alarms, loop, running, life>>

\* IdleCommand.read_timeout: the pipe is unplugged and closed
End ==
    /\ running.call = "read_timeout" /\ fd[running.obj] = running.fd
    /\ fd' = [fd EXCEPT ![running.obj] = None]
    /\ UnplugIdle(running.fd)
    /\ UNCHANGED <<now, read_timeouts, alarms, loop, running, life>>

\* set_read_timeout, by an object for itself or for one it has just opened
SetReadTimeout(o, seconds) ==
    /\ Acting /\ fd[o] # None /\ now + seconds \in Time
    /\ running.call \in Call => running.obj = o \/ read_timeouts[fd[o]].by # o
    /\ read_timeouts' = [read_timeouts EXCEPT
                            ![fd[o]] = [at |-> now + seconds, by |-> o]]
    /\ UNCHANGED <<now, plugs, alarms, loop, running, life>>

\* remove_timeout, by an object that lives on
StopTimeout(o) ==
    /\ running.call \in Call /\ running.obj = o
    /\ fd[o] # None /\ read_timeouts[fd[o]] # NoTimeout
    /\ RemoveTimeout(fd[o])
    /\ UNCHANGED <<now, plugs, alarms, loop, running, life>>

\* set_alarm
SetAlarm(a, seconds) ==
    /\ Acting /\ now + seconds \in Time
    /\ \A t \in Time : ~Contains(alarms[t], a)
    /\ alarms' = [alarms EXCEPT ![now + seconds] = Append(@, a)]
    /\ life' = [life EXCEPT ![a] = "set"]
    /\ UNCHANGED <<now, plugs, read_timeouts, loop, running>>

-----------------------------------------------------------------------------
(* Events of descriptors.                                                  *)

\* process_events, for an event on a descriptor
Callback(flags) ==
    IF "in" \in flags THEN "pollin"
    ELSE IF "out" \in flags THEN "pollout" ELSE "pollend"

Event(f, flags) ==
    /\ pc = "idle" /\ running = Nothing
    /\ flags # {} /\ flags \subseteq watch[f]
    /\ running' = [call |-> Callback(flags), obj |-> queue[f], fd |-> f,
                   flags |-> flags]
    /\ IF Callback(flags) = "pollend"
       THEN UnplugIdle(f) /\ RemoveTimeout(f)
       ELSE UNCHANGED <<queue, watch, read_timeouts>>
    /\ UNCHANGED <<now, fd, alarms, loop, life>>

-----------------------------------------------------------------------------
(* check_time_events.                                                      *)

\* The snapshot read_timeouts.items()
CheckTimeEvents ==
    /\ pc = "idle" /\ running = Nothing
    /\ pc' = "timeouts" /\ current_time' = now
    /\ todo' = {[fd |-> f, at |-> read_timeouts[f].at] :
                   f \in {g \in Fd : read_timeouts[g] # NoTimeout}}
    /\ UNCHANGED <<now, plugs, read_timeouts, alarms, running, life>>

\* Mutant: the object is not looked up when its turn comes
CheckTimeoutUnlooked(e) ==
    /\ pc = "timeouts" /\ running = Nothing /\ e \in todo
    /\ todo' = todo \ {e}
    /\ running' = IF e.at <= current_time /\ read_timeouts[e.fd] # NoTimeout
                  THEN [call |-> "read_timeout", obj |-> read_timeouts[e.fd].by,
                        fd |-> e.fd, flags |-> {}]
                  ELSE Nothing
    /\ UNCHANGED <<now, plugs, read_timeouts, alarms, pc, current_time, life>>

\* Mutant: what is not plugged any more is called as well
CheckTimeoutAnyway(e) ==
    LET due == e.at <= current_time
    IN /\ pc = "timeouts" /\ running = Nothing /\ e \in todo
       /\ todo' = todo \ {e}
       /\ running' = IF due THEN [call |-> "read_timeout", obj |-> queue[e.fd],
                                  fd |-> e.fd, flags |-> {}]
                     ELSE Nothing
       /\ UNCHANGED <<now, plugs, read_timeouts, alarms, pc, current_time, life>>

\* One turn of the loop over read_timeouts, in no particular order
CheckTimeout(e) ==
    LET o == queue[e.fd]
        due == e.at <= current_time
    IN /\ pc = "timeouts" /\ running = Nothing /\ e \in todo
       /\ todo' = todo \ {e}
       /\ running' = IF due /\ o # None
                     THEN [call |-> "read_timeout", obj |-> o, fd |-> e.fd,
                           flags |-> {}]
                     ELSE Nothing
       /\ IF due /\ o = None THEN RemoveTimeout(e.fd)
          ELSE UNCHANGED read_timeouts
       /\ UNCHANGED <<now, plugs, alarms, pc, current_time, life>>

\* Mutant: an alarm is not due at its own time
CheckAlarmsBefore ==
    /\ pc = "timeouts" /\ running = Nothing /\ todo = {}
    /\ pc' = "alarms"
    /\ todo' = {t \in Time : alarms[t] # <<>> /\ t # current_time}
    /\ UNCHANGED <<now, plugs, read_timeouts, alarms, current_time, running, life>>

\* The snapshot alarms.keys()
CheckAlarms ==
    /\ pc = "timeouts" /\ running = Nothing /\ todo = {}
    /\ pc' = "alarms" /\ todo' = {t \in Time : alarms[t] # <<>>}
    /\ UNCHANGED <<now, plugs, read_timeouts, alarms, current_time, running, life>>

RunAlarm(t, i) ==
    /\ running' = [call |-> "alarm", at |-> t, i |-> i]
    /\ life' = [life EXCEPT ![alarms[t][i]] = IF @ = "set" THEN "ran" ELSE "again"]

\* One turn of the loop over the times of alarms, in the order of a
\* dictionary of floating-point numbers, which is any order.  The first that
\* is not due ends the loop.
CheckAlarmTime(t) ==
    /\ pc = "alarms" /\ running = Nothing /\ t \in todo
    /\ IF t > current_time
       THEN /\ pc' = "idle" /\ todo' = {}
            /\ UNCHANGED <<running, life>>
       ELSE /\ pc' = pc /\ todo' = todo \ {t}
            /\ RunAlarm(t, 1)
    /\ UNCHANGED <<now, plugs, read_timeouts, alarms, current_time>>

CheckDone ==
    /\ pc = "alarms" /\ running = Nothing /\ todo = {}
    /\ pc' = "idle"
    /\ UNCHANGED <<now, plugs, read_timeouts, alarms, todo, current_time,
                   running, life>>

\* Mutant: only the first alarm of a time is run
ReturnAfterOne ==
    /\ running # Nothing /\ running' = Nothing
    /\ alarms' = IF running.call # "alarm" THEN alarms
                 ELSE [alarms EXCEPT ![running.at] = <<>>]
    /\ UNCHANGED <<now, plugs, read_timeouts, loop, life>>

\* A callback returns.  After an alarm the next one of the same time is run,
\* and after the last one all are deleted.
Return ==
    /\ running # Nothing
    /\ IF running.call # "alarm"
       THEN /\ running' = Nothing /\ UNCHANGED <<alarms, life>>
       ELSE IF running.i < Len(alarms[running.at])
       THEN RunAlarm(running.at, running.i + 1) /\ UNCHANGED alarms
       ELSE /\ running' = Nothing
            /\ alarms' = [alarms EXCEPT ![running.at] = <<>>]
            /\ UNCHANGED life
    /\ UNCHANGED <<now, plugs, read_timeouts, loop>>

\* Mutant: the alarms of a time are forgotten, not deleted when they are done
RaiseForgetting ==
    /\ Raises /\ running # Nothing
    /\ running' = Nothing /\ pc' = "idle" /\ todo' = {}
    /\ alarms' = IF running.call # "alarm" THEN alarms
                 ELSE [alarms EXCEPT ![running.at] = <<>>]
    /\ UNCHANGED <<now, plugs, read_timeouts, current_time, life>>

\* A callback raises an exception.  check_time_events ends where it is.  For
\* a descriptor that is still watched, whoever's it is, _process_events sets
\* a new watch for the conditions of the event.
Raise ==
    /\ Raises /\ running # Nothing
    /\ running' = Nothing /\ pc' = "idle" /\ todo' = {}
    /\ watch' = IF /\ running.call \in {"pollin", "pollout", "pollend"}
                   /\ watch[running.fd] # {}
                THEN [watch EXCEPT ![running.fd] = running.flags]
                ELSE watch
    /\ UNCHANGED <<now, fd, queue, read_timeouts, alarms,
                   current_time, life>>

Tick ==
    /\ now < MaxTime
    /\ now' = now + 1
    /\ UNCHANGED <<plugs, read_timeouts, alarms, loop, running, life>>

-----------------------------------------------------------------------------
Act ==
    \/ \E o \in Obj, w \in Wanted :
          \/ \E f \in Fd : Open(o, f, Flags(w[1], w[2]))
          \/ Replug(o, Flags(w[1], w[2]))
    \/ \E o \in Obj : Close(o) \/ StopTimeout(o)
    \/ \E o \in Obj, seconds \in 1 .. MaxTime : SetReadTimeout(o, seconds)
    \/ \E a \in Alarm, seconds \in 1 .. MaxTime : SetAlarm(a, seconds)
    \/ running # Nothing /\ End

Loop ==
    \/ CheckTimeEvents \/ CheckAlarms \/ CheckDone \/ Return
    \/ \E e \in [fd : Fd, at : Time] : CheckTimeout(e)
    \/ \E t \in Time : CheckAlarmTime(t)

Next ==
    \/ Act \/ Loop \/ Raise \/ Tick
    \/ \E f \in Fd, flags \in SUBSET Condition : Event(f, flags)

Spec == Init /\ [][Next]_vars

-----------------------------------------------------------------------------
(* Properties.                                                             *)

\* What is plugged is open, at its own descriptor, so that an event of one
\* socket is never taken for an event of another.
PluggedIsOpen == \A f \in Fd : queue[f] # None => fd[queue[f]] = f

\* An object whose descriptor was closed, by itself or by a callback of
\* another one, is not called any more, although the loop under way took a
\* snapshot that has it.
ClosedIsNotCalled ==
    [][running = Nothing /\ running'.call \in Call
         => running'.obj # None /\ fd[running'.obj] = running'.fd]_vars

\* An alarm that was set and has not run is still there to be run, whatever
\* other callbacks raised in the meantime.
AlarmsAreKept ==
    \A a \in Alarm :
        life[a] = "set" => \E t \in Time : Contains(alarms[t], a)

\* The loop over alarms ends by itself, not by an exception.
LoopEnds == pc = "alarms" /\ running = Nothing /\ pc' = "idle"

Due(t) == t <= current_time /\ alarms[t] # <<>>

\* The loop leaves an alarm that is due only where one is set that is not: the
\* alarm for the latest time is always run when it is due, and all with it,
\* whatever callbacks set in the meantime and wherever earlier loops stopped.
SkippedForLater ==
    [][LoopEnds /\ (\E t \in Time : Due(t))
         => \E t \in Time : t > current_time /\ alarms[t] # <<>>]_vars

\* set_alarm, "to be called after alarm_cb sec.": when the loop is over, all
\* alarms that were due have been called.
DueAreRun == [][LoopEnds => \A t \in Time : ~Due(t)]_vars

=============================================================================
