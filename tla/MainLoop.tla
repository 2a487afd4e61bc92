------------------------------ MODULE MainLoop ------------------------------
(***************************************************************************)
(* The main thread: run() puts the settings together and starts the parts, *)
(* then reactor::bigbang serves the console's descriptors and the timer    *)
(* events for ever.  The operator's connections and the clock are its      *)
(* environment; the worker of the testsuite runs beside it (module Lua).   *)
(***************************************************************************)
EXTENDS Lua, Settings, FiniteSets, SequencesExt

CONSTANTS
    Given,         \* configuration file and command line of each start
    Clients,       \* connections an operator may make
    Fds,           \* descriptors a connection may be given
    MaxCommands,   \* how many commands each connection sends
    TickPeriod     \* jiffies between two runs of the statistics event

Nobody == "nobody"

ASSUME MainLoopAssumption ==
    /\ IsFiniteSet(Clients) /\ IsFiniteSet(Fds)
    /\ Nobody \notin Clients
    /\ Fds \subseteq Nat \ {0, 1}
    /\ MaxCommands \in [Clients -> Nat] /\ TickPeriod \in Nat \ {0}
    /\ \A given \in Given : \A i \in {1, 2} :
          /\ DOMAIN given[i] \subseteq Options
          /\ \A o \in DOMAIN given[i] : given[i][o] \in Texts

VARIABLES
    pc,          \* where the main thread is
    conf,        \* what readin() found
    args,        \* the command line
    settings,    \* g_configuration
    workhorses,  \* the descriptors registered with the reactor
    conn,        \* _console_connected_fd
    owner,       \* the connection of each descriptor
    batch,       \* the events of this epoll_wait still to be served
    backlog,     \* connections waiting to be accepted
    came,        \* connections that have been made
    inbox,       \* commands that have arrived on a connection
    sent,        \* how many it has sent
    gone,        \* connections closed by the operator
    tmpEvents,   \* _tmp_events, in the order of their ids
    events,      \* _events
    index,       \* the iterator over them
    cmd,         \* the command being executed
    asked,       \* reloads the operator has asked for
    reloads      \* reloads that have been done

start == <<conf, args, settings>>
descriptors == <<workhorses, conn, owner>>
operator == <<came, sent, gone>>
queues == <<backlog, inbox>>
timers == <<tmpEvents, events, index>>
counts == <<asked, reloads>>
mainVars == <<pc, start, descriptors, batch, operator, queues, timers, cmd,
              counts>>
vars == <<luaVars, mainVars>>

Listener == 1    \* _console_listening_fd
NoFd == 0        \* -1
\* "other" stands for stat and for any lua expression
Commands == {"reload", "other"}
Event(kind, left) == [kind |-> kind, left |-> left]
HaveScripts == settings["lua_scripts_home"] # Unset

MainInit ==
    /\ pc = "start"
    /\ \E given \in Given : conf = given[1] /\ args = given[2]
    /\ settings = Defaults
    /\ workhorses = {} /\ conn = NoFd /\ owner = [f \in Fds |-> Nobody]
    /\ batch = <<>> /\ backlog = <<>>
    /\ came = {} /\ gone = {}
    /\ inbox = [c \in Clients |-> <<>>] /\ sent = [c \in Clients |-> 0]
    /\ tmpEvents = <<>> /\ events = <<>> /\ index = 1
    /\ cmd = "none" /\ asked = 0 /\ reloads = 0

-----------------------------------------------------------------------------
(***************************************************************************)
(* run(), up to the loop.                                                  *)
(***************************************************************************)
ReadsIn ==
    /\ pc = "start"
    /\ IF EndsAt(conf) THEN Crash /\ UNCHANGED settings
       ELSE GoesOn /\ settings' = After(settings, conf)
    /\ pc' = "args"
    /\ UNCHANGED <<stack, work, done, top, conf, args, descriptors,
                   batch, operator, queues, timers, cmd, counts>>

TakesCommandLine ==
    /\ pc = "args"
    /\ settings' = After(settings, FromCommandLine(args))
    /\ pc' = "check"
    /\ UNCHANGED <<luaVars, conf, args, descriptors, batch, operator, queues,
                   timers, cmd, counts>>

Rejected ==
    /\ pc = "check" /\ ~CheckValidity(settings)
    /\ Crash
    /\ UNCHANGED <<stack, work, done, top, mainVars>>

\* the pcap file of the settings cannot be opened
NoPcapFile ==
    /\ pc = "check" /\ CheckValidity(settings)
    /\ settings["pcap_file_path"] # Unset
    /\ Crash
    /\ UNCHANGED <<stack, work, done, top, mainVars>>

GetsReady ==
    /\ pc = "check" /\ CheckValidity(settings)
    /\ tmpEvents' = <<Event("tick", 0)>>
    /\ workhorses' = {Listener}
    /\ ReadyGo(HaveScripts)
    /\ pc' = "wait"
    /\ UNCHANGED <<halted, stack, top, start, conn, owner, batch,
                   operator, queues, events, index, cmd, counts>>

-----------------------------------------------------------------------------
(***************************************************************************)
(* The reactor.  A batch holds all that is ready, in any order.            *)
(***************************************************************************)
ReadyFds ==
    {f \in workhorses :
        IF f = Listener THEN backlog # <<>>
        ELSE inbox[owner[f]] # <<>> \/ owner[f] \in gone}

Waits ==
    /\ pc = "wait"
    /\ batch' \in SetToSeqs(ReadyFds)
    /\ pc' = "serve"
    /\ UNCHANGED <<luaVars, start, descriptors, operator, queues, timers, cmd,
                   counts>>

\* _workhorses.at() throws for a descriptor closed since
StaleEvent ==
    /\ pc = "serve" /\ batch # <<>>
    /\ Head(batch) \notin workhorses
    /\ Crash
    /\ UNCHANGED <<stack, work, done, top, mainVars>>

\* a mutant: a connection is closed and stays registered
StillRegistered == workhorses

\* the descriptors after close_conn_fd
Registered == workhorses \ {conn}
Owners == [f \in Fds |-> IF f = conn THEN Nobody ELSE owner[f]]

AcceptsConn ==
    /\ pc = "serve" /\ batch # <<>> /\ Head(batch) = Listener
    /\ batch' = Tail(batch)
    /\ backlog' = Tail(backlog)
    /\ \/ \E f \in {g \in Fds : Owners[g] = Nobody} :
             /\ conn' = f
             /\ workhorses' = Registered \cup {f}
             /\ owner' = [Owners EXCEPT ![f] = Head(backlog)]
       \/ conn' = NoFd /\ workhorses' = Registered /\ owner' = Owners
    /\ UNCHANGED <<luaVars, pc, start, operator, inbox, timers, cmd, counts>>

\* read() waits when an event is left over from an earlier connection with
\* the same descriptor
BeginsRead ==
    /\ pc = "serve" /\ batch # <<>>
    /\ Head(batch) \in workhorses \ {Listener}
    /\ batch' = Tail(batch)
    /\ pc' = "reading"
    /\ UNCHANGED <<luaVars, start, descriptors, operator, queues, timers, cmd,
                   counts>>

ReadsCommand ==
    /\ pc = "reading" /\ inbox[owner[conn]] # <<>>
    /\ cmd' = Head(inbox[owner[conn]])
    /\ inbox' = [inbox EXCEPT ![owner[conn]] = Tail(@)]
    /\ pc' = "printing"
    /\ RunsCommand(cmd')
    /\ IF cmd' = "reload"
       THEN tmpEvents' = Append(tmpEvents, Event("reload", 0)) /\ asked' = asked + 1
       ELSE UNCHANGED <<tmpEvents, asked>>
    \* stat divides by the number of normal closes, which the strands count:
    \* zero ends the process
    /\ IF cmd' = "other" THEN halted' \in BOOLEAN ELSE GoesOn
    /\ UNCHANGED <<work, done, start, descriptors, batch, operator,
                   backlog, events, index, reloads>>

PrintsResult ==
    /\ pc = "printing"
    /\ ClearsStack
    /\ IF Printable THEN GoesOn ELSE Crash
    /\ cmd' = "none" /\ pc' = "serve"
    /\ UNCHANGED <<work, done, start, descriptors, batch, operator,
                   queues, timers, counts>>

ReadsEnd ==
    /\ pc = "reading" /\ inbox[owner[conn]] = <<>> /\ owner[conn] \in gone
    /\ workhorses' = Registered /\ owner' = Owners /\ conn' = NoFd
    /\ pc' = "serve"
    /\ UNCHANGED <<luaVars, start, batch, operator, queues, timers, cmd, counts>>

(***************************************************************************)
(* loop_through_all_timer_event.  Handlers register in _tmp_events only.   *)
(***************************************************************************)
BeginsTimers ==
    /\ pc = "serve" /\ batch = <<>>
    /\ events' = events \o tmpEvents
    /\ tmpEvents' = <<>> /\ index' = 1
    /\ pc' = "timers"
    /\ UNCHANGED <<luaVars, start, descriptors, batch, operator, queues, cmd,
                   counts>>

AtDue(kind) ==
    /\ index <= Len(events)
    /\ events[index].kind = kind /\ events[index].left = 0

PassesEvent ==
    /\ pc = "timers" /\ index <= Len(events) /\ events[index].left > 0
    /\ index' = index + 1
    /\ UNCHANGED <<luaVars, pc, start, descriptors, batch, operator, queues,
                   tmpEvents, events, cmd, counts>>

\* a mutant: the event that has fired is not erased
FiresTickAgain ==
    /\ pc = "timers" /\ AtDue("tick")
    /\ index' = index + 1
    /\ tmpEvents' = Append(tmpEvents, Event("tick", TickPeriod))
    /\ UNCHANGED <<luaVars, pc, start, descriptors, batch, operator, queues,
                   events, cmd, counts>>

\* the statistics event asks for the next one
FiresTick ==
    /\ pc = "timers" /\ AtDue("tick")
    /\ events' = RemoveAt(events, index)
    /\ tmpEvents' = Append(tmpEvents, Event("tick", TickPeriod))
    /\ UNCHANGED <<luaVars, pc, start, descriptors, batch, operator, queues,
                   index, cmd, counts>>

\* one_shot_timer_event_handler of mylua: stop(), with its join, ...
FiresReload ==
    /\ pc = "timers" /\ AtDue("reload")
    /\ Stops
    /\ pc' = "joining"
    /\ UNCHANGED <<halted, stack, work, top, start, descriptors,
                   batch, operator, queues, timers, cmd, counts>>

\* ... then restart() and ready_go(), and the event is erased
Reloads ==
    /\ pc = "joining" /\ Joinable
    /\ Restarts /\ ReadyGo(HaveScripts)
    /\ events' = RemoveAt(events, index)
    /\ reloads' = reloads + 1
    /\ pc' = "timers"
    /\ UNCHANGED <<halted, top, start, descriptors, batch, operator,
                   queues, tmpEvents, index, cmd, asked>>

EndsTimers ==
    /\ pc = "timers" /\ index > Len(events)
    /\ pc' = "wait"
    /\ UNCHANGED <<luaVars, start, descriptors, batch, operator, queues, timers,
                   cmd, counts>>

MainThread ==
    /\ ~halted
    /\ \/ ReadsIn \/ TakesCommandLine \/ Rejected \/ NoPcapFile \/ GetsReady
       \/ Waits \/ StaleEvent \/ AcceptsConn
       \/ BeginsRead \/ ReadsCommand \/ PrintsResult \/ ReadsEnd
       \/ BeginsTimers \/ PassesEvent \/ FiresTick
       \/ FiresReload \/ Reloads \/ EndsTimers

-----------------------------------------------------------------------------
(***************************************************************************)
(* The environment: jiffies, the operator, the sessions.                   *)
(***************************************************************************)
Nearer(seq) == [i \in DOMAIN seq |->
                   [seq[i] EXCEPT !.left = IF @ = 0 THEN 0 ELSE @ - 1]]

JiffyPasses ==
    /\ Nearer(tmpEvents) # tmpEvents \/ Nearer(events) # events
    /\ tmpEvents' = Nearer(tmpEvents) /\ events' = Nearer(events)
    /\ UNCHANGED <<luaVars, pc, start, descriptors, batch, operator, queues,
                   index, cmd, counts>>

Connects(c) ==
    /\ workhorses # {} /\ c \notin came
    /\ came' = came \cup {c} /\ backlog' = Append(backlog, c)
    /\ UNCHANGED <<luaVars, pc, start, descriptors, batch, inbox, sent, gone,
                   timers, cmd, counts>>

Sends(c) ==
    /\ c \in came \ gone /\ sent[c] < MaxCommands[c]
    /\ \E command \in Commands : inbox' = [inbox EXCEPT ![c] = Append(@, command)]
    /\ sent' = [sent EXCEPT ![c] = @ + 1]
    /\ UNCHANGED <<luaVars, pc, start, descriptors, batch, backlog, came, gone,
                   timers, cmd, counts>>

HangsUp(c) ==
    /\ c \in came \ gone
    /\ gone' = gone \cup {c}
    /\ UNCHANGED <<luaVars, pc, start, descriptors, batch, queues, came, sent,
                   timers, cmd, counts>>

Environment ==
    /\ ~halted
    /\ \/ JiffyPasses
       \/ \E c \in Clients : Connects(c) \/ Sends(c) \/ HangsUp(c)

Init == LuaInit /\ MainInit

WorkerSteps == Worker /\ UNCHANGED mainVars

Next == MainThread \/ WorkerSteps \/ Environment

Spec == Init /\ [][Next]_vars

(***************************************************************************)
(* Both threads and the clock go on; nobody has to type anything.  A       *)
(* script that is called returns, and a pass of the worker ends: it takes  *)
(* one job from each queue.                                                *)
(***************************************************************************)
FairSpec ==
    Spec /\ WF_vars(MainThread) /\ WF_vars(WorkerSteps)
         /\ SF_vars(~halted /\ EndsPass /\ UNCHANGED mainVars)
         /\ WF_vars(~halted /\ JiffyPasses)

-----------------------------------------------------------------------------
ConsoleTypes ==
    /\ pc \in {"start", "args", "check", "wait", "serve", "reading", "printing",
               "timers", "joining"}
    /\ workhorses \subseteq Fds \cup {Listener} /\ conn \in Fds \cup {NoFd}
    /\ owner \in [Fds -> Clients \cup {Nobody}]
    /\ pc = "reading" => conn # NoFd

TimerTypes ==
    /\ index \in 1 .. Len(events) + 1
    /\ reloads \in 0 .. asked /\ asked \in Nat

TypeOK == LuaTypes /\ ConsoleTypes /\ TimerTypes

Running == pc \notin {"start", "args", "check"}

\* What gets past the setters and check_validity() has what these make sure
\* of, and is what the sessions and strands are modelled with as long as no
\* timeout and no limit below zero is given.
SettingsUsable ==
    Running =>
        /\ Guaranteed(settings)
        /\ NonNegative(conf) /\ NonNegative(FromCommandLine(args)) => Assumed(settings)

\* The command line goes before the configuration file and the file before
\* the defaults, for the options that run() passes on (main.cpp, run).
CommandLineFirst ==
    Running =>
        /\ \A o \in Passed(args) : settings[o] = Stored(o, args[o], settings[o])
        /\ \A o \in Options \ Passed(args) :
               settings[o] = After(Defaults, conf)[o]

\* Both of it (main.cpp, run; configuration.cpp, check_validity).
SettingsSound == SettingsUsable /\ CommandLineFirst

\* The reactor watches exactly what is open: the console's listener and the
\* connection in use, one at most (reactor.cpp, mylua.cpp).
WatchesOpen ==
    /\ TypeOK
    /\ \A f \in Fds : f \in workhorses <=> owner[f] # Nobody
    /\ workhorses \subseteq {Listener, conn}
    /\ conn # NoFd => conn \in workhorses

\* Each reload is done once for each time it was asked for, and there is one
\* statistics event, never none (thetimer.cpp).
PlacesOf(seq, kind) == {i \in DOMAIN seq : seq[i].kind = kind}
PendingOf(kind) ==
    Cardinality(PlacesOf(events, kind)) + Cardinality(PlacesOf(tmpEvents, kind))

EventsOnce ==
    Running => /\ PendingOf("tick") = 1
               /\ asked = reloads + PendingOf("reload")

\* The lua machine is closed when no other thread is inside it
\* (mylua.cpp, one_shot_timer_event_handler).
ClosedAlone == [][reloads' # reloads => ~Inside]_vars

\* Whatever the threads do to each other's frames, they do not pile up:
\* between two uses there are no more than those of a new machine and of the
\* scripts that failed to load.
StackBounded ==
    ~Inside /\ cmd = "none" => Len(frames) <= Len(NewStack) + Cardinality(Scripts)

(***************************************************************************)
(* What makes these inductive.                                             *)
(***************************************************************************)
\* where the settings come from, ...
FromFile == After(Defaults, conf)
FromBoth == After(FromFile, FromCommandLine(args))

SettingsInv ==
    /\ \E given \in Given : conf = given[1] /\ args = given[2]
    /\ pc = "start" => settings = Defaults
    /\ pc = "args" /\ ~halted => settings = FromFile /\ ~EndsAt(conf)
    /\ pc \notin {"start", "args"} => settings = FromBoth /\ ~EndsAt(conf)
    /\ Running => CheckValidity(settings)

\* ... that the listener is among the events to be served only while a
\* connection waits to be accepted, ...
BatchInv ==
    /\ batch \in Seq(Fds \cup {Listener})
    /\ \A i, j \in DOMAIN batch : batch[i] = batch[j] => i = j
    /\ \A i \in DOMAIN batch : batch[i] = Listener => backlog # <<>>

ConsoleInv ==
    /\ backlog \in Seq(Clients) /\ inbox \in [Clients -> Seq(Commands)]
    /\ BatchInv
    /\ cmd # "none" => pc = "printing"
    /\ ~Running => conn = NoFd

\* ... that the main thread joins for the event it is at, ...
EventTypes == [kind : {"tick", "reload"}, left : Nat]

TimersInv ==
    /\ events \in Seq(EventTypes) /\ tmpEvents \in Seq(EventTypes)
    /\ ~Running => events = <<>> /\ tmpEvents = <<>> /\ asked = 0 /\ reloads = 0
    /\ pc = "joining" => index <= Len(events) /\ events[index].kind = "reload"

\* ... and how many frames each use of the machine has left.
OfScripts == IF worker \in {"none", "started"} THEN 0 ELSE Cardinality(Scripts \ todo)
OfTest == IF worker \in Tests THEN OwnFrames[worker] ELSE 0
OfCommand == IF cmd # "none" THEN 1 ELSE 0
DepthBound == Len(frames) <= Len(NewStack) + OfScripts + OfTest + OfCommand

MachineInv == WorkerPlace /\ (~Running => worker = "none") /\ DepthBound

MainInv == /\ SettingsInv /\ WatchesOpen /\ ConsoleInv /\ TimersInv /\ EventsOnce
           /\ MachineInv

\* A reload that is asked for is done, unless the process ends or the main
\* thread waits for ever for a connection that sends nothing.
ReloadServed ==
    (asked > reloads) ~> (asked = reloads \/ halted \/ [](pc = "reading"))
=============================================================================
