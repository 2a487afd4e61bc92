-------------------------------- MODULE Lua ---------------------------------
(***************************************************************************)
(* The lua machine of mylua and the two threads that use it: the worker of *)
(* the testsuite loads the scripts and runs them on replayed sessions,     *)
(* while the main thread executes what the operator types.  There is one   *)
(* lua_State and no lock: a thread counts the frames its code has left on  *)
(* the stack, and clears the stack when it is done, while the other may    *)
(* have frames there too.                                                  *)
(*                                                                         *)
(* Each call that run_lua_tests makes of the C API is a step of its own.   *)
(* A string of lua code is executed in the step that reads the top of the  *)
(* stack before it; the top after it is read in the step that looks at     *)
(* what is new, and clears the stack.  A call does nothing but what it is  *)
(* for: what two of them do to the machine at the same instant is not      *)
(* modelled.                                                               *)
(***************************************************************************)
EXTENDS Integers, Sequences, FiniteSets

CONSTANTS
    Scripts,       \* names of lua scripts
    Results        \* what a command that is no reload may leave on the stack

\* "library" is the table of exported functions and "module" that of a script.
\* "string" stands for numbers too, which are printed as strings are, and
\* "table" for every value that is none of the others.
Kinds == {"library", "module", "function", "string", "true", "false", "nil", "table"}

ASSUME LuaAssumption ==
    /\ IsFiniteSet(Scripts)
    /\ Results \subseteq {<<>>} \cup {<<kind>> : kind \in Kinds}

VARIABLES
    halted,    \* the process has ended
    frames,    \* the stack of _lua_state, the kind of each value
    globals,   \* modules that exist in _lua_state
    modules,   \* _lua_modules
    worker,    \* where the worker thread is
    todo,      \* scripts it has found and not loaded yet
    loading,   \* [script, top, ok]: the one it is loading
    testing,   \* the position in _lua_modules it is running
    done,      \* _done of the testsuite
    top        \* orig_top of the command that is executed

stack == <<frames, globals, modules>>
work == <<worker, todo, loading, testing>>
luaVars == <<halted, stack, work, done, top>>

NewStack == <<"library">>   \* left by register_APIs4lua, popped by nobody

\* How many frames of its own a test has at each of its calls.
OwnFrames == [fetches |-> 1, removes |-> 2, client |-> 1, request |-> 2,
              response |-> 3, calls |-> 4, clears |-> 1]
\* where it goes when it has pushed one of the three arguments
AfterPush == [client |-> "request", request |-> "response", response |-> "calls"]
Tests == DOMAIN OwnFrames
Places == {"none", "started", "loads", "counts", "idle", "passing", "ended"} \cup Tests
FramesOfTest == 4
NoLoad == [script |-> "none", top |-> 0, ok |-> FALSE]

LuaInit ==
    /\ halted = FALSE
    /\ frames = NewStack /\ globals = {} /\ modules = <<>>
    /\ worker = "none" /\ todo = {} /\ loading = NoLoad /\ testing = 0
    /\ done = FALSE /\ top = 0

Crash == halted' = TRUE
GoesOn == UNCHANGED halted

(***************************************************************************)
(* The worker: load_lua_scripts.                                           *)
(***************************************************************************)
NextToLoad(left) == IF left = {} THEN "idle" ELSE "loads"

\* What lua_scripts_home holds is changed from outside, which is what a
\* reload is for.
FindsScripts ==
    /\ worker = "started"
    /\ todo' \in SUBSET Scripts
    /\ worker' = NextToLoad(todo')
    /\ UNCHANGED <<halted, stack, loading, testing, done, top>>

\* luaL_dostring leaves one value: whether the script has a main, or an error,
\* which may be any value.
LoadsScript(s) ==
    /\ worker = "loads" /\ s \in todo
    /\ todo' = todo \ {s}
    /\ \E value \in {"true", "false", "string", "table"} :
          LET ok == value \in {"true", "false"} IN
          /\ loading' = [script |-> s, top |-> Len(frames), ok |-> ok]
          /\ globals' = IF ok THEN globals \cup {s} ELSE globals
          /\ frames' = Append(frames, value)
    /\ worker' = "counts"
    /\ UNCHANGED <<halted, modules, testing, done, top>>

NewFrames == SubSeq(frames, loading.top + 1, Len(frames))

\* One format and one place for a result: do_lua_string aborts at a second
\* frame and at nil, load_lua_module at a script without a main and when
\* there is no frame.  Whatever the frame is, it is taken for a boolean.
WellFormed ==
    loading.ok /\ Len(NewFrames) = 1 /\ NewFrames[1] \notin {"false", "nil"}

\* An error that is a string is thrown past the settop() and caught, ...
Thrown ==
    ~loading.ok /\ NewFrames # <<>> /\ frames[Len(frames)] = "string"

\* ... where the assertion on the return code, which has not been assigned,
\* may hold or not.
CountsLoaded ==
    /\ worker = "counts"
    /\ worker' = NextToLoad(todo) /\ loading' = NoLoad
    /\ \/ /\ WellFormed
          /\ modules' = Append(modules, loading.script)
          /\ frames' = <<>>
          /\ GoesOn /\ UNCHANGED globals
       \/ Thrown /\ halted' \in BOOLEAN /\ UNCHANGED stack
       \/ ~WellFormed /\ ~Thrown /\ Crash /\ UNCHANGED stack
    /\ UNCHANGED <<todo, testing, done, top>>

(***************************************************************************)
(* The worker: run_worker tests _done before each pass over its queues,    *)
(* and calls run_lua_tests for whole sessions that it finds there.         *)
(* testing is zero between two sessions.                                   *)
(***************************************************************************)
BeginsPass ==
    /\ worker = "idle" /\ ~done
    /\ worker' = "passing"
    /\ UNCHANGED <<halted, stack, todo, loading, testing, done, top>>

EndsPass ==
    /\ worker = "passing" /\ testing = 0
    /\ worker' = "idle"
    /\ UNCHANGED <<halted, stack, todo, loading, testing, done, top>>

\* What a call that reaches below the frames does is undefined.
Underflows == halted' \in BOOLEAN /\ frames' = <<>>

\* lua_getglobal: a module this machine does not have is nil
GetsModule ==
    /\ worker = "passing" /\ modules # <<>>
    /\ testing' = testing + 1
    /\ frames' = Append(frames, IF modules[testing'] \in globals THEN "module" ELSE "nil")
    /\ worker' = "fetches"
    /\ UNCHANGED <<halted, globals, modules, todo, loading, done, top>>

\* lua_getfield of whatever is on top.  What has no fields is an error outside
\* any pcall: nil, a boolean, a number, a function.
FetchesMain ==
    /\ worker = "fetches"
    /\ worker' = "removes"
    /\ \/ frames = <<>> /\ Underflows
       \/ /\ frames # <<>>
          /\ LET last == frames[Len(frames)]
             IN  /\ frames' = Append(frames, IF last = "module" THEN "function" ELSE "nil")
                 /\ CASE last \in {"module", "library"} -> GoesOn
                      [] last \in {"string", "table"} -> halted' \in BOOLEAN
                      [] OTHER -> Crash
    /\ UNCHANGED <<globals, modules, todo, loading, testing, done, top>>

\* lua_remove
RemovesModule ==
    /\ worker = "removes"
    /\ worker' = "client"
    /\ \/ Len(frames) < 2 /\ Underflows
       \/ /\ Len(frames) >= 2
          /\ frames' = Append(SubSeq(frames, 1, Len(frames) - 2), frames[Len(frames)])
          /\ GoesOn
    /\ UNCHANGED <<globals, modules, todo, loading, testing, done, top>>

\* lua_pushstring, lua_pushlstring and lua_pushlstring
PushesArgument ==
    /\ worker \in DOMAIN AfterPush
    /\ worker' = AfterPush[worker]
    /\ frames' = Append(frames, "string")
    /\ UNCHANGED <<halted, globals, modules, todo, loading, testing, done, top>>

\* lua_pcall takes the four frames on top, whosever they are; an error leaves
\* its message
CallsMain ==
    /\ worker = "calls"
    /\ worker' = "clears"
    /\ \/ Len(frames) < FramesOfTest /\ Underflows
       \/ /\ Len(frames) >= FramesOfTest
          /\ LET rest == SubSeq(frames, 1, Len(frames) - FramesOfTest)
             IN  \/ frames' = Append(rest, "string")
                 \/ frames[Len(rest) + 1] = "function" /\ frames' = rest
          /\ GoesOn
    /\ UNCHANGED <<globals, modules, todo, loading, testing, done, top>>

\* lua_settop
ClearsTest ==
    /\ worker = "clears"
    /\ worker' = "passing"
    /\ testing' = IF testing = Len(modules) THEN 0 ELSE testing
    /\ frames' = <<>>
    /\ UNCHANGED <<halted, globals, modules, todo, loading, done, top>>

WorkerEnds ==
    /\ worker = "idle" /\ done
    /\ worker' = "ended"
    /\ UNCHANGED <<halted, stack, todo, loading, testing, done, top>>

Worker ==
    /\ ~halted
    /\ \/ FindsScripts \/ CountsLoaded
       \/ \E s \in Scripts : LoadsScript(s)
       \/ BeginsPass \/ EndsPass
       \/ GetsModule \/ FetchesMain \/ RemovesModule \/ PushesArgument
       \/ CallsMain \/ ClearsTest
       \/ WorkerEnds

(***************************************************************************)
(* What the main thread does with the machine: parts of its actions.       *)
(***************************************************************************)
\* the reply to a reload is a string
ResultsOf(command) == IF command = "reload" THEN {<<"string">>} ELSE Results

RunsCommand(command) ==
    /\ top' = Len(frames)
    /\ \E result \in ResultsOf(command) : frames' = frames \o result
    /\ UNCHANGED <<globals, modules>>

\* What is new is printed, whosever it is: luaL_checkstring ends the process
\* at what is neither a string nor nil.
Printable == \A i \in top + 1 .. Len(frames) : frames[i] \in {"string", "nil"}

\* a mutant: the frames of a command are left on the stack
LeavesStack == UNCHANGED <<stack, top>>

ClearsStack ==
    /\ frames' = <<>> /\ top' = 0
    /\ UNCHANGED <<globals, modules>>

\* a mutant: the worker is not told
StopsSilently == UNCHANGED done

Stops == done' = TRUE

\* a mutant: nobody waits for the worker
JoinableAlways == worker \in Places

Joinable == worker \in {"none", "ended"}

\* restart() makes a new machine; _lua_modules is not cleared
Restarts == frames' = NewStack /\ globals' = {} /\ UNCHANGED modules

ReadyGo(haveScripts) ==
    /\ done' = FALSE
    /\ worker' = IF haveScripts THEN "started" ELSE worker
    /\ UNCHANGED <<todo, loading, testing>>

\* the worker has something on the stack, or is in the middle of a list
Inside == worker \in {"loads", "counts"} \cup Tests \/ testing > 0
-----------------------------------------------------------------------------
LuaTypes ==
    /\ halted \in BOOLEAN /\ done \in BOOLEAN
    /\ frames \in Seq(Kinds) /\ top \in Nat /\ globals \subseteq Scripts
    /\ modules \in Seq(Scripts) /\ testing \in 0 .. Len(modules)
    /\ worker \in Places /\ todo \subseteq Scripts

\* The worker tests sessions in its passes only, each by the whole list.
WorkerPlace ==
    /\ testing > 0 => worker \in {"passing"} \cup Tests
    /\ worker \in Tests => testing > 0
    /\ worker = "passing" => testing = 0 \/ testing < Len(modules)
    /\ worker = "counts" => loading.script \in Scripts
=============================================================================
