--------------------------- MODULE MainLoop_proof ---------------------------
(***************************************************************************)
(* Proofs about MainLoop, Lua and Settings, for any configuration, any     *)
(* number of connections, descriptors, commands and scripts.               *)
(***************************************************************************)
EXTENDS MainLoop, Basics

-----------------------------------------------------------------------------
(* The settings.                                                           *)

Given2(given) == DOMAIN given \subseteq Options /\ \A o \in DOMAIN given : given[o] \in Texts

\* the options that measure time
Measured == Timeouts \cup {"injecting_rt_traffic_timeout"}

LEMMA PortStored ==
  ASSUME NEW text \in Texts, NEW old
  PROVE  Stored("dst_port", text, old) \in 0 .. (PortSpace - 1)
<1>1. Stored("dst_port", text, old) = Strtol(text) % PortSpace
  BY DEF Stored, Names, Switches
<1>2. Strtol(text) \in Int
  BY DEF Strtol, Texts, Words
<1>3. PortSpace \in Nat \ {0}
  BY SettingsAssumption
<1>4. \A n \in Int, m \in Nat \ {0} : n % m \in 0 .. (m - 1)
  OBVIOUS
<1> QED BY <1>1, <1>2, <1>3, <1>4

LEMMA ThreadsDeduced ==
  ASSUME NEW num \in Int
  PROVE  Deduced(num) \in Nat \ {0}
BY SettingsAssumption DEF Deduced

LEMMA DefaultsAre ==
  /\ Defaults["asio_thrd_num"] = Deduced(-1)
  /\ Defaults["session_count_limit"] = 10000
  /\ Defaults["clone"] = 0
  /\ Defaults["dst_port"] = 0
  /\ Defaults["concurrency_limit"] = 1000
  /\ \A o \in Measured : Defaults[o] \in Nat \ {0}
<1>1. Defaults["asio_thrd_num"] = Deduced(-1)
  BY DEF Defaults, Names, Options, MainOptions
<1>2. Defaults["session_count_limit"] = 10000
  BY DEF Defaults, Names, Options, SessionOptions
<1>3. Defaults["clone"] = 0
  BY DEF Defaults, Names, Options, SessionOptions
<1>4. Defaults["dst_port"] = 0
  BY DEF Defaults, Names, Options, MainOptions
<1>5. Defaults["injecting_rt_traffic_timeout"] = 4000
  BY DEF Defaults, Names, Options, SessionOptions
<1>6. /\ Defaults["response_from_peer_time_out"] = 300
      /\ Defaults["have_to_send_data_within_this_timeperiod"] = 300
  BY DEF Defaults, Names, Options, SessionOptions, HZ
<1>7. Defaults["retransmit_time_interval"] = HZ \div 4
  BY DEF Defaults, Names, Options, SessionOptions
<1>8. Defaults["wait_for_fin_from_peer_time_out"] = 400
  BY DEF Defaults, Names, Options, SessionOptions, HZ
<1>9. HZ \div 4 = 25
  BY DEF HZ
<1>10. Defaults["concurrency_limit"] = 1000
  BY DEF Defaults, Names, Options, MainOptions
<1>11. \A o \in Measured : Defaults[o] \in Nat \ {0}
  BY <1>5, <1>6, <1>7, <1>8, <1>9 DEF Measured, Timeouts
<1> QED BY <1>1, <1>2, <1>3, <1>4, <1>10, <1>11

(* What an option of the file is worth, if its setter lets it pass.        *)
LEMMA FileStored ==
  ASSUME NEW given, Given2(given), ~EndsAt(given)
  PROVE  LET s == After(Defaults, given)
         IN  /\ s["asio_thrd_num"] \in Nat \ {0}
             /\ s["session_count_limit"] \in Nat \ {0}
             /\ s["clone"] \in Nat
             /\ s["dst_port"] \in 0 .. (PortSpace - 1)
             /\ \A o \in Measured : s[o] # 0
             /\ NonNegative(given) =>
                   s["concurrency_limit"] \in Nat /\ \A o \in Measured : s[o] \in Nat \ {0}
<1> DEFINE s == After(Defaults, given)
<1>1. ASSUME NEW o \in Options
      PROVE  s[o] = IF o \in DOMAIN given THEN Stored(o, given[o], Defaults[o])
                    ELSE Defaults[o]
  BY DEF After
<1>2. \A o \in DOMAIN given : given[o] \in Texts /\ ~Ends(o, given[o])
  BY DEF Given2, EndsAt
<1>3. {"asio_thrd_num", "session_count_limit", "clone", "dst_port",
       "concurrency_limit"} \cup Measured \subseteq Options
  BY DEF Options, MainOptions, SessionOptions, Timeouts, Measured
<1> HIDE DEF s
<1>4. s["asio_thrd_num"] \in Nat \ {0}
  <2>1. CASE "asio_thrd_num" \in DOMAIN given
    <3>1. given["asio_thrd_num"] \in Int
      BY <2>1, <1>2 DEF Ends, Cast, Texts, Words
    <3>2. s["asio_thrd_num"] = Deduced(given["asio_thrd_num"])
      BY <2>1, <1>1, <1>3 DEF Stored, Names, Switches
    <3> QED BY <3>1, <3>2, ThreadsDeduced
  <2>2. CASE "asio_thrd_num" \notin DOMAIN given
    <3>1. s["asio_thrd_num"] = Deduced(-1)
      BY <2>2, <1>1, <1>3, DefaultsAre
    <3> QED BY <3>1, ThreadsDeduced
  <2> QED BY <2>1, <2>2
<1>5. s["session_count_limit"] \in Nat \ {0}
  <2>1. Defaults["session_count_limit"] = 10000
    BY DefaultsAre
  <2>2. CASE "session_count_limit" \in DOMAIN given
    <3>1. given["session_count_limit"] \in Int
      BY <2>2, <1>2 DEF Ends, Cast, Texts, Words
    <3>2. s["session_count_limit"] = IF given["session_count_limit"] < 1 THEN 10000
                                     ELSE given["session_count_limit"]
      BY <2>1, <2>2, <1>1, <1>3 DEF Stored, Names, Switches
    <3> QED BY <3>1, <3>2
  <2>3. CASE "session_count_limit" \notin DOMAIN given
    BY <2>1, <2>3, <1>1, <1>3
  <2> QED BY <2>2, <2>3
<1>6. s["clone"] \in Nat
  <2>1. CASE "clone" \in DOMAIN given
    <3>1. given["clone"] \in Int /\ ~(Strtol(given["clone"]) < 0)
      BY <2>1, <1>2 DEF Ends, Cast, Texts, Words
    <3>2. s["clone"] = Strtol(given["clone"])
      BY <2>1, <1>1, <1>3 DEF Stored, Names, Switches
    <3> QED BY <3>1, <3>2 DEF Strtol, Words
  <2>2. CASE "clone" \notin DOMAIN given
    BY <2>2, <1>1, <1>3, DefaultsAre
  <2> QED BY <2>1, <2>2
<1>7. s["dst_port"] \in 0 .. (PortSpace - 1)
  <2>1. CASE "dst_port" \in DOMAIN given
    BY <2>1, <1>1, <1>2, <1>3, PortStored
  <2>2. CASE "dst_port" \notin DOMAIN given
    <3>1. s["dst_port"] = 0
      BY <2>2, <1>1, <1>3, DefaultsAre
    <3> QED BY <3>1, SettingsAssumption
  <2> QED BY <2>1, <2>2
<1>8. ASSUME NEW o \in Measured
      PROVE  s[o] # 0 /\ (NonNegative(given) => s[o] \in Nat \ {0})
  <2>1. CASE o \in DOMAIN given
    <3>1. Strtol(given[o]) # 0 /\ Strtol(given[o]) \in Int
      BY <2>1, <1>2 DEF Ends, Cast, Texts, Words, Strtol, Measured
    <3>2. s[o] = Strtol(given[o])
      BY <2>1, <1>1, <1>3 DEF Stored, Names, Switches, Timeouts, Measured
    <3>3. NonNegative(given) => Strtol(given[o]) >= 0
      BY <2>1 DEF NonNegative, Measured
    <3> QED BY <3>1, <3>2, <3>3
  <2>2. CASE o \notin DOMAIN given
    BY <2>2, <1>1, <1>3, DefaultsAre
  <2> QED BY <2>1, <2>2
<1>9. NonNegative(given) => s["concurrency_limit"] \in Nat
  <2>1. CASE "concurrency_limit" \in DOMAIN given
    <3>1. Strtol(given["concurrency_limit"]) \in Int
      BY <2>1, <1>2 DEF Texts, Words, Strtol
    <3>2. s["concurrency_limit"] = Strtol(given["concurrency_limit"])
      BY <2>1, <1>1, <1>3 DEF Stored, Names, Switches
    <3>3. NonNegative(given) => Strtol(given["concurrency_limit"]) >= 0
      BY <2>1 DEF NonNegative
    <3> QED BY <3>1, <3>2, <3>3
  <2>2. CASE "concurrency_limit" \notin DOMAIN given
    BY <2>2, <1>1, <1>3, DefaultsAre
  <2> QED BY <2>1, <2>2
<1> QED BY <1>4, <1>5, <1>6, <1>7, <1>8, <1>9 DEF s

(* The command line changes four options only, and the port in its range.  *)
LEMMA BothGuaranteed ==
  ASSUME NEW given, NEW line, Given2(given), Given2(line), ~EndsAt(given),
         CheckValidity(After(After(Defaults, given), FromCommandLine(line)))
  PROVE  LET t == After(After(Defaults, given), FromCommandLine(line))
         IN  /\ Guaranteed(t)
             /\ NonNegative(given) /\ NonNegative(FromCommandLine(line)) => Assumed(t)
<1> DEFINE s == After(Defaults, given)
           t == After(s, FromCommandLine(line))
<1>1. /\ s["asio_thrd_num"] \in Nat \ {0}
      /\ s["session_count_limit"] \in Nat \ {0}
      /\ s["clone"] \in Nat
      /\ s["dst_port"] \in 0 .. (PortSpace - 1)
      /\ \A o \in Measured : s[o] # 0
      /\ NonNegative(given) =>
            s["concurrency_limit"] \in Nat /\ \A o \in Measured : s[o] \in Nat \ {0}
  BY FileStored
<1> HIDE DEF s
<1>2. ASSUME NEW o \in Options
      PROVE  t[o] = IF o \in Passed(line) THEN Stored(o, line[o], s[o]) ELSE s[o]
  BY DEF After, FromCommandLine
<1>3. CheckValidity(t)
  BY DEF s
<1> HIDE DEF t
<1>4. {"asio_thrd_num", "session_count_limit", "clone"} \cup Measured
        \subseteq Options \ CommandLineOptions
  BY DEF Options, MainOptions, SessionOptions, Timeouts, CommandLineOptions, Measured
<1>5. \A o \in Options \ CommandLineOptions : t[o] = s[o]
  BY <1>2 DEF Passed
<1>6. /\ t["asio_thrd_num"] \in Nat \ {0} /\ t["session_count_limit"] \in Nat \ {0}
      /\ t["clone"] \in Nat
      /\ \A o \in Measured : t[o] = s[o] /\ t[o] # 0
  BY <1>1, <1>4, <1>5
<1>7. t["dst_port"] \in 1 .. (PortSpace - 1)
  <2>1. "dst_port" \in Options
    BY DEF Options, MainOptions
  <2>2. "dst_port" \in Passed(line) => line["dst_port"] \in Texts
    BY DEF Given2, Passed
  <2>3. t["dst_port"] \in 0 .. (PortSpace - 1)
    BY <1>1, <1>2, <2>1, <2>2, PortStored
  <2> QED BY <2>3, <1>3 DEF CheckValidity
<1>8. SessionLimitPerStrand(t) \in Nat \ {0}
  <2>1. \A n \in Nat \ {0}, m \in Nat \ {0} : n \div m \in Int
    OBVIOUS
  <2>2. t["session_count_limit"] \div t["asio_thrd_num"] \in Int
    BY <1>6, <2>1
  <2> QED BY <2>2 DEF SessionLimitPerStrand
<1>9. Guaranteed(t)
  BY <1>3, <1>6, <1>7, <1>8 DEF Guaranteed, CheckValidity, Measured
<1>10. ASSUME NonNegative(given), NonNegative(FromCommandLine(line)) PROVE Assumed(t)
  <2>1. "concurrency_limit" \in Options
    BY DEF Options, MainOptions
  <2>2. CASE "concurrency_limit" \in Passed(line)
    <3>1. line["concurrency_limit"] \in Texts
      BY <2>2 DEF Given2, Passed
    <3>2. Strtol(line["concurrency_limit"]) \in Int
      BY <3>1 DEF Texts, Words, Strtol
    <3>3. Strtol(line["concurrency_limit"]) >= 0
      BY <2>2, <1>10 DEF NonNegative, FromCommandLine
    <3>4. t["concurrency_limit"] = Strtol(line["concurrency_limit"])
      BY <2>1, <2>2, <1>2 DEF Stored, Names, Switches
    <3>5. t["concurrency_limit"] \in Nat
      BY <3>2, <3>3, <3>4
    <3> QED BY <3>5, <1>1, <1>6, <1>10 DEF Assumed, Measured
  <2>3. CASE "concurrency_limit" \notin Passed(line)
    <3>1. t["concurrency_limit"] = s["concurrency_limit"]
      BY <2>1, <2>3, <1>2
    <3> QED BY <3>1, <1>1, <1>6, <1>10 DEF Assumed, Measured
  <2> QED BY <2>2, <2>3
<1> QED BY <1>9, <1>10 DEF s, t

(* What each step leaves of the settings.                                  *)
LEMMA SettingsStep == ASSUME SettingsInv, [Next]_vars PROVE SettingsInv'
<1>1. CASE MainThread /\ ReadsIn
  <2>1. /\ pc = "start" /\ pc' = "args" /\ conf' = conf /\ args' = args
        /\ EndsAt(conf) => halted' = TRUE
        /\ ~EndsAt(conf) => settings' = After(settings, conf)
    BY <1>1 DEF ReadsIn, Crash, start
  <2>2. ~halted' => ~EndsAt(conf) /\ settings' = FromFile
    BY <2>1 DEF SettingsInv, FromFile
  <2> QED BY <2>1, <2>2 DEF SettingsInv, FromFile, Running
<1>2. CASE MainThread /\ TakesCommandLine
  <2>1. /\ pc = "args" /\ ~halted /\ pc' = "check" /\ conf' = conf /\ args' = args
        /\ settings' = After(settings, FromCommandLine(args))
    BY <1>2 DEF MainThread, TakesCommandLine, start
  <2> QED BY <2>1 DEF SettingsInv, FromFile, FromBoth, Running
<1>3. CASE MainThread /\ (Rejected \/ NoPcapFile \/ StaleEvent)
  <2>1. UNCHANGED <<pc, conf, args, settings>> /\ halted' = TRUE
    BY <1>3 DEF Rejected, NoPcapFile, StaleEvent, Crash, mainVars, start
  <2> QED BY <2>1 DEF SettingsInv, FromFile, FromBoth, Running
<1>4. CASE MainThread /\ GetsReady
  <2>1. /\ pc = "check" /\ pc' = "wait" /\ CheckValidity(settings)
        /\ UNCHANGED <<conf, args, settings>>
    BY <1>4 DEF GetsReady, start
  <2> QED BY <2>1 DEF SettingsInv, FromFile, FromBoth, Running
<1>5. CASE \/ Waits \/ AcceptsConn \/ BeginsRead \/ ReadsCommand \/ PrintsResult \/ ReadsEnd
           \/ BeginsTimers \/ PassesEvent \/ FiresTick
           \/ FiresReload \/ Reloads \/ EndsTimers
  <2>1. /\ UNCHANGED <<conf, args, settings>>
        /\ pc \in {"wait", "serve", "reading", "printing", "timers", "joining"}
        /\ pc' \in {"wait", "serve", "reading", "printing", "timers", "joining"}
    BY <1>5 DEF Waits, AcceptsConn, BeginsRead, ReadsCommand, PrintsResult, ReadsEnd,
                BeginsTimers, PassesEvent, FiresTick, FiresReload, Reloads, EndsTimers, start
  <2> QED BY <2>1 DEF SettingsInv, FromFile, FromBoth, Running
<1>6. CASE WorkerSteps \/ Environment \/ UNCHANGED vars
  <2>1. UNCHANGED <<pc, conf, args, settings>> /\ (~halted' => ~halted)
    BY <1>6 DEF WorkerSteps, Worker, Environment, JiffyPasses, Connects, Sends, HangsUp,
                vars, mainVars, start, luaVars
  <2> QED BY <2>1 DEF SettingsInv, FromFile, FromBoth, Running
<1> QED BY <1>1, <1>2, <1>3, <1>4, <1>5, <1>6 DEF Next, MainThread

LEMMA SettingsStart == ASSUME Init PROVE SettingsInv
BY DEF Init, MainInit, SettingsInv, Running

LEMMA SettingsAreSound == ASSUME SettingsInv PROVE SettingsSound
<1> SUFFICES ASSUME Running PROVE SettingsUsable /\ CommandLineFirst
  BY DEF SettingsSound, SettingsUsable, CommandLineFirst
<1>1. settings = FromBoth /\ ~EndsAt(conf) /\ CheckValidity(settings)
  BY DEF SettingsInv, Running
<1>2. Given2(conf) /\ Given2(args)
  <2>1. PICK given \in Given : conf = given[1] /\ args = given[2]
    BY DEF SettingsInv
  <2>2. 1 \in {1, 2} /\ 2 \in {1, 2}
    OBVIOUS
  <2> QED BY <2>1, <2>2, MainLoopAssumption DEF Given2
<1>3. SettingsUsable
  BY <1>1, <1>2, BothGuaranteed DEF SettingsUsable, FromBoth, FromFile
<1>4. ASSUME NEW o \in Options
      PROVE  settings[o] = IF o \in Passed(args)
                           THEN Stored(o, args[o], FromFile[o]) ELSE FromFile[o]
  BY <1>1 DEF FromBoth, After, FromCommandLine
<1>5. ASSUME NEW o \in CommandLineOptions, NEW text, NEW a, NEW b
      PROVE  Stored(o, text, a) = Stored(o, text, b)
  BY DEF CommandLineOptions, Stored, Names, Switches
<1>6. Passed(args) \subseteq CommandLineOptions /\ CommandLineOptions \subseteq Options
  BY DEF Passed, CommandLineOptions, Options, MainOptions
<1>7. CommandLineFirst
  BY <1>4, <1>5, <1>6 DEF CommandLineFirst, FromFile
<1> QED BY <1>3, <1>7

-----------------------------------------------------------------------------
(* The lua machine.                                                        *)

LEMMA StackAtFirst == NewStack \in Seq(Kinds) /\ Len(NewStack) = 1
BY DEF NewStack, Kinds

LEMMA Pushed ==
  ASSUME NEW s \in Seq(Kinds), NEW kind \in Kinds
  PROVE  Append(s, kind) \in Seq(Kinds) /\ Len(Append(s, kind)) = Len(s) + 1
OBVIOUS

LEMMA Popped ==
  ASSUME NEW s \in Seq(Kinds), NEW n \in Nat, n <= Len(s)
  PROVE  SubSeq(s, 1, n) \in Seq(Kinds) /\ Len(SubSeq(s, 1, n)) = n
OBVIOUS

LEMMA TestsAre ==
  /\ Tests = {"fetches", "removes", "client", "request", "response", "calls", "clears"}
  /\ DOMAIN AfterPush = {"client", "request", "response"}
BY DEF Tests, OwnFrames, AfterPush

(* What a test has on the stack at each of its calls.                      *)
LEMMA TestHas ==
  /\ worker \in {"fetches", "client", "clears"} => OfTest = 1
  /\ worker \in {"removes", "request"} => OfTest = 2
  /\ worker = "response" => OfTest = 3
  /\ worker = "calls" => OfTest = 4
  /\ worker \notin Tests => OfTest = 0
BY TestsAre DEF OfTest, OwnFrames

LEMMA TestHasThen ==
  /\ worker' \in {"fetches", "client", "clears"} => OfTest' = 1
  /\ worker' \in {"removes", "request"} => OfTest' = 2
  /\ worker' = "response" => OfTest' = 3
  /\ worker' = "calls" => OfTest' = 4
  /\ worker' \notin Tests => OfTest' = 0
BY TestsAre DEF OfTest, OwnFrames

LEMMA TestHasSome == LuaTypes => OfTest \in Nat
BY TestsAre, TestHas DEF LuaTypes

LEMMA MachineStart == ASSUME Init PROVE LuaTypes /\ MachineInv
<1>1. LuaTypes
  <2>1. <<>> \in Seq(Scripts) /\ Len(<<>>) = 0 /\ 0 \in 0 .. 0
    OBVIOUS
  <2> QED BY <2>1, StackAtFirst DEF Init, LuaInit, LuaTypes, Places
<1>2. worker = "none" /\ frames = NewStack /\ testing = 0 /\ pc = "start" /\ cmd = "none"
  BY DEF Init, LuaInit, MainInit
<1>3. worker \notin Tests
  BY <1>2, TestsAre
<1>4. OfTest = 0 /\ OfScripts = 0 /\ OfCommand = 0
  BY <1>2, <1>3, TestHas DEF OfScripts, OfCommand
<1>5. DepthBound
  BY <1>2, <1>4, StackAtFirst DEF DepthBound
<1>6. MachineInv
  BY <1>2, <1>3, <1>5 DEF MachineInv, WorkerPlace, Running
<1> QED BY <1>1, <1>6

(* The scripts loaded are counted, and one more is when one is loaded.     *)
LEMMA Loaded ==
  /\ Cardinality(Scripts \ todo) \in Nat
  /\ Cardinality(Scripts \ todo') \in Nat
  /\ \A s \in Scripts : s \in todo =>
        Cardinality(Scripts \ (todo \ {s})) = Cardinality(Scripts \ todo) + 1
<1>1. ASSUME NEW S, S \subseteq Scripts
      PROVE  IsFiniteSet(S) /\ Cardinality(S) \in Nat
  BY <1>1, LuaAssumption, FS_Subset, FS_CardinalityType
<1>2. ASSUME NEW s \in Scripts, s \in todo
      PROVE  Cardinality(Scripts \ (todo \ {s})) = Cardinality(Scripts \ todo) + 1
  <2>1. Scripts \ (todo \ {s}) = (Scripts \ todo) \cup {s} /\ s \notin Scripts \ todo
    BY <1>2
  <2>2. IsFiniteSet(Scripts \ todo)
    BY <1>1
  <2> HIDE <1>2
  <2> QED BY <2>1, <2>2, FS_AddElement
<1> QED BY <1>1, <1>2

(* A test puts on the stack what it is counted for, or finds it empty.    *)
TestSteps ==
    GetsModule \/ FetchesMain \/ RemovesModule \/ PushesArgument \/ CallsMain \/ ClearsTest

LEMMA TestKeeps ==
  ASSUME LuaTypes, TestSteps
  PROVE  /\ frames' \in Seq(Kinds) /\ halted' \in BOOLEAN
         /\ worker \in {"passing"} \cup Tests /\ worker' \in {"passing"} \cup Tests
         /\ UNCHANGED <<globals, modules, todo, loading, done, top>>
         /\ frames' = <<>> \/ Len(frames') + OfTest <= Len(frames) + OfTest'
<1>t. /\ frames \in Seq(Kinds) /\ Len(frames) \in Nat /\ halted \in BOOLEAN
      /\ \A i \in 1 .. Len(frames) : frames[i] \in Kinds
  BY DEF LuaTypes
<1>k. {"module", "function", "string", "nil"} \subseteq Kinds
  BY DEF Kinds
<1>e. <<>> \in Seq(Kinds)
  OBVIOUS
<1>1. CASE GetsModule
  <2>1. /\ worker = "passing" /\ worker' = "fetches" /\ halted' = halted
        /\ UNCHANGED <<globals, modules, todo, loading, done, top>>
        /\ \E kind \in {"module", "nil"} : frames' = Append(frames, kind)
    BY <1>1 DEF GetsModule
  <2>2. frames' \in Seq(Kinds) /\ Len(frames') = Len(frames) + 1
    BY <2>1, <1>t, <1>k, Pushed
  <2>3. OfTest = 0 /\ OfTest' = 1
    BY <2>1, TestsAre, TestHas, TestHasThen
  <2> QED BY <2>1, <2>2, <2>3, <1>t, TestsAre
<1>2. CASE FetchesMain
  <2>1. /\ worker = "fetches" /\ worker' = "removes"
        /\ UNCHANGED <<globals, modules, todo, loading, done, top>>
    BY <1>2 DEF FetchesMain
  <2>2. halted' \in BOOLEAN
    BY <1>2, <1>t DEF FetchesMain, Underflows, GoesOn, Crash
  <2>3. frames' = <<>> \/ \E kind \in {"function", "nil"} : frames' = Append(frames, kind)
    BY <1>2 DEF FetchesMain, Underflows
  <2>4. frames' \in Seq(Kinds) /\ (frames' = <<>> \/ Len(frames') = Len(frames) + 1)
    BY <2>3, <1>t, <1>k, <1>e, Pushed
  <2>5. OfTest = 1 /\ OfTest' = 2
    BY <2>1, TestHas, TestHasThen
  <2> QED BY <2>1, <2>2, <2>4, <2>5, <1>t, TestsAre
<1>3. CASE RemovesModule
  <2>1. /\ worker = "removes" /\ worker' = "client"
        /\ UNCHANGED <<globals, modules, todo, loading, done, top>>
    BY <1>3 DEF RemovesModule
  <2>2. halted' \in BOOLEAN
    BY <1>3, <1>t DEF RemovesModule, Underflows, GoesOn
  <2>3. frames' \in Seq(Kinds) /\ (frames' = <<>> \/ Len(frames') = Len(frames) - 1)
    <3>1. CASE Underflows
      BY <3>1, <1>e DEF Underflows
    <3>2. CASE /\ Len(frames) >= 2
               /\ frames' = Append(SubSeq(frames, 1, Len(frames) - 2), frames[Len(frames)])
      <4>1. Len(frames) - 2 \in Nat /\ Len(frames) - 2 <= Len(frames) /\ Len(frames) \in 1 .. Len(frames)
        BY <3>2, <1>t
      <4> DEFINE rest == SubSeq(frames, 1, Len(frames) - 2)
      <4>2. rest \in Seq(Kinds) /\ Len(rest) = Len(frames) - 2 /\ frames[Len(frames)] \in Kinds
        BY <4>1, <1>t, Popped
      <4>3. frames' = Append(rest, frames[Len(frames)])
        BY <3>2
      <4> HIDE DEF rest
      <4> QED BY <4>2, <4>3, <1>t, Pushed
    <3> QED BY <1>3, <3>1, <3>2 DEF RemovesModule
  <2>4. OfTest = 2 /\ OfTest' = 1
    BY <2>1, TestHas, TestHasThen
  <2> QED BY <2>1, <2>2, <2>3, <2>4, <1>t, TestsAre
<1>4. CASE PushesArgument
  <2>1. /\ \/ worker = "client" /\ worker' = "request"
           \/ worker = "request" /\ worker' = "response"
           \/ worker = "response" /\ worker' = "calls"
        /\ UNCHANGED <<globals, modules, todo, loading, done, top>>
        /\ halted' = halted /\ frames' = Append(frames, "string")
    BY <1>4, TestsAre DEF PushesArgument, AfterPush
  <2>2. frames' \in Seq(Kinds) /\ Len(frames') = Len(frames) + 1
    BY <2>1, <1>t, <1>k, Pushed
  <2>3. OfTest' = OfTest + 1 /\ OfTest \in Nat
    BY <2>1, TestHas, TestHasThen
  <2> QED BY <2>1, <2>2, <2>3, <1>t, TestsAre
<1>5. CASE CallsMain
  <2>1. /\ worker = "calls" /\ worker' = "clears"
        /\ UNCHANGED <<globals, modules, todo, loading, done, top>>
    BY <1>5 DEF CallsMain
  <2>2. halted' \in BOOLEAN
    BY <1>5, <1>t DEF CallsMain, Underflows, GoesOn
  <2>3. frames' \in Seq(Kinds) /\ (frames' = <<>> \/ Len(frames') <= Len(frames) - 3)
    <3>1. CASE Underflows
      BY <3>1, <1>e DEF Underflows
    <3> DEFINE rest == SubSeq(frames, 1, Len(frames) - 4)
    <3>2. CASE Len(frames) >= 4 /\ (frames' = Append(rest, "string") \/ frames' = rest)
      <4>1. Len(frames) - 4 \in Nat /\ Len(frames) - 4 <= Len(frames)
        BY <3>2, <1>t
      <4>2. rest \in Seq(Kinds) /\ Len(rest) = Len(frames) - 4
        BY <4>1, <1>t, Popped
      <4> HIDE DEF rest
      <4> QED BY <3>2, <4>2, <1>t, <1>k, Pushed
    <3> QED BY <1>5, <3>1, <3>2 DEF CallsMain, FramesOfTest
  <2>4. OfTest = 4 /\ OfTest' = 1
    BY <2>1, TestHas, TestHasThen
  <2> QED BY <2>1, <2>2, <2>3, <2>4, <1>t, TestsAre
<1>6. CASE ClearsTest
  <2>1. /\ worker = "clears" /\ worker' = "passing" /\ halted' = halted /\ frames' = <<>>
        /\ UNCHANGED <<globals, modules, todo, loading, done, top>>
    BY <1>6 DEF ClearsTest
  <2> QED BY <2>1, <1>t, <1>e, TestsAre
<1> QED BY <1>1, <1>2, <1>3, <1>4, <1>5, <1>6 DEF TestSteps

(* The worker.                                                             *)
LEMMA MachineWorker ==
  ASSUME LuaTypes, MachineInv, WorkerSteps
  PROVE  LuaTypes' /\ MachineInv'
<1>0. UNCHANGED <<pc, cmd>> /\ Worker
  BY DEF WorkerSteps, mainVars
<1>c. Running' = Running /\ OfCommand' = OfCommand /\ OfCommand \in Nat
  BY <1>0 DEF Running, OfCommand
<1>t. /\ Cardinality(Scripts \ todo) \in Nat /\ Cardinality(Scripts \ todo') \in Nat
      /\ frames \in Seq(Kinds) /\ Len(frames) \in Nat
      /\ OfTest \in Nat /\ Len(NewStack) = 1
      /\ Len(frames) <= 1 + OfScripts + OfTest + OfCommand
      /\ <<>> \in Seq(Kinds) /\ Len(<<>>) = 0
  BY Loaded, StackAtFirst, TestHasSome DEF LuaTypes, MachineInv, DepthBound
<1>n. \A place \in {"none", "started", "loads", "counts", "idle", "passing", "ended"} :
         place \notin Tests /\ place \in Places
  BY TestsAre DEF Places
<1>1. CASE FindsScripts
  <2>1. /\ worker = "started" /\ worker' \in {"idle", "loads"} /\ todo' \subseteq Scripts
        /\ UNCHANGED <<halted, frames, globals, modules, testing, done, top, loading>>
    BY <1>1 DEF FindsScripts, NextToLoad, stack
  <2>2. LuaTypes'
    BY <2>1, <1>n DEF LuaTypes
  <2>3. WorkerPlace' /\ Running
    BY <2>1, <1>n DEF MachineInv, WorkerPlace, LuaTypes
  <2>4. OfTest = 0 /\ OfTest' = 0
    BY <2>1, <1>n, TestHas, TestHasThen
  <2>5. DepthBound'
    BY <2>1, <2>4, <1>c, <1>t DEF DepthBound, OfScripts
  <2> QED BY <2>1, <2>2, <2>3, <2>5, <1>c DEF MachineInv
<1>2. CASE CountsLoaded
  <2>1. /\ worker = "counts" /\ worker' \in {"idle", "loads"} /\ UNCHANGED <<todo, testing, done, top>>
        /\ frames' \in {<<>>, frames}
        /\ globals' = globals
        /\ modules' \in {modules, Append(modules, loading.script)}
        /\ halted' \in BOOLEAN
    <3>1. halted \in BOOLEAN
      BY DEF LuaTypes
    <3>2. worker' \in {"idle", "loads"} /\ worker = "counts" /\ UNCHANGED <<todo, testing, done, top>>
      BY <1>2 DEF CountsLoaded, NextToLoad
    <3>3. CASE modules' = Append(modules, loading.script) /\ frames' = <<>> /\ GoesOn /\ UNCHANGED globals
      BY <3>1, <3>2, <3>3 DEF GoesOn
    <3>4. CASE (halted' \in BOOLEAN \/ Crash) /\ UNCHANGED stack
      BY <3>2, <3>4 DEF Crash, stack
    <3> QED BY <1>2, <3>3, <3>4 DEF CountsLoaded
  <2>2. modules' \in Seq(Scripts) /\ Len(modules') \in Nat /\ Len(modules) <= Len(modules')
    <3>1. modules \in Seq(Scripts) /\ loading.script \in Scripts
      BY <2>1 DEF LuaTypes, MachineInv, WorkerPlace
    <3>2. ASSUME NEW e \in Scripts
          PROVE  Append(modules, e) \in Seq(Scripts) /\ Len(Append(modules, e)) = Len(modules) + 1
      BY <3>1
    <3>3. Len(modules) \in Nat
      BY <3>1
    <3> QED BY <2>1, <3>1, <3>2, <3>3
  <2>3. testing = 0
    BY <2>1, <1>n DEF MachineInv, WorkerPlace, LuaTypes
  <2>4. LuaTypes'
    <3>1. testing' \in 0 .. Len(modules')
      BY <2>1, <2>2, <2>3
    <3>2. frames' \in Seq(Kinds) /\ top' \in Nat /\ done' \in BOOLEAN
      BY <2>1, <1>t DEF LuaTypes
    <3> QED BY <2>1, <2>2, <3>1, <3>2, <1>n DEF LuaTypes
  <2>5. WorkerPlace'
    BY <2>1, <2>3, <1>n DEF WorkerPlace
  <2>6. Running
    BY <2>1 DEF MachineInv
  <2>7. OfTest = 0 /\ OfTest' = 0
    BY <2>1, <1>n, TestHas, TestHasThen
  <2>8. Len(frames') <= Len(frames)
    BY <2>1, <1>t
  <2>9. DepthBound'
    BY <2>1, <2>7, <2>8, <1>c, <1>t DEF DepthBound, OfScripts
  <2> QED BY <2>4, <2>5, <2>6, <2>9, <1>c DEF MachineInv
<1>3. CASE \E s \in Scripts : LoadsScript(s)
  <2>1. PICK s \in Scripts : LoadsScript(s)
    BY <1>3
  <2>2. /\ worker = "loads" /\ s \in todo /\ worker' = "counts"
        /\ todo' = todo \ {s}
        /\ loading'.script = s
        /\ globals' \subseteq globals \cup {s}
        /\ \E value \in {"true", "false", "string", "table"} : frames' = Append(frames, value)
        /\ UNCHANGED <<halted, modules, testing, done, top>>
    BY <2>1 DEF LoadsScript
  <2>3. frames' \in Seq(Kinds) /\ Len(frames') = Len(frames) + 1
    <3>1. {"true", "false", "string", "table"} \subseteq Kinds
      BY DEF Kinds
    <3> QED BY <2>2, <3>1, <1>t, Pushed
  <2>4. Cardinality(Scripts \ todo') = Cardinality(Scripts \ todo) + 1
    BY <2>2, Loaded
  <2>5. LuaTypes'
    BY <2>2, <2>3, <1>n DEF LuaTypes
  <2>6. WorkerPlace' /\ Running
    BY <2>2, <1>n DEF MachineInv, WorkerPlace, LuaTypes
  <2>7. OfTest = 0 /\ OfTest' = 0
    BY <2>2, <1>n, TestHas, TestHasThen
  <2>8. DepthBound'
    BY <2>2, <2>3, <2>4, <2>7, <1>c, <1>t DEF DepthBound, OfScripts
  <2> QED BY <2>2, <2>5, <2>6, <2>8, <1>c DEF MachineInv
<1>4. CASE BeginsPass \/ EndsPass \/ WorkerEnds
  <2>1. /\ worker \in {"idle", "passing"} /\ worker' \in {"idle", "passing", "ended"}
        /\ UNCHANGED <<halted, frames, globals, modules, todo, loading, testing, done, top>>
    BY <1>4 DEF BeginsPass, EndsPass, WorkerEnds, stack
  <2>2. testing = 0
    BY <1>4, <1>n DEF BeginsPass, EndsPass, WorkerEnds, MachineInv, WorkerPlace, LuaTypes
  <2>3. LuaTypes'
    BY <2>1, <1>n DEF LuaTypes
  <2>4. WorkerPlace' /\ Running
    BY <2>1, <2>2, <1>n DEF MachineInv, WorkerPlace
  <2>5. OfTest = 0 /\ OfTest' = 0
    BY <2>1, <1>n, TestHas, TestHasThen
  <2>6. DepthBound'
    BY <2>1, <2>5, <1>c, <1>t DEF DepthBound, OfScripts
  <2> QED BY <2>3, <2>4, <2>6, <1>c DEF MachineInv
<1>5. CASE TestSteps
  <2>1. /\ frames' \in Seq(Kinds) /\ halted' \in BOOLEAN
        /\ worker \in {"passing"} \cup Tests /\ worker' \in {"passing"} \cup Tests
        /\ UNCHANGED <<globals, modules, todo, loading, done, top>>
        /\ frames' = <<>> \/ Len(frames') + OfTest <= Len(frames) + OfTest'
    BY <1>5, TestKeeps
  <2>2. worker \notin {"none", "started", "counts"} /\ worker' \notin {"none", "started", "counts"}
    BY <2>1, TestsAre
  <2>3. OfTest' \in Nat /\ Len(frames') \in Nat
    BY <2>1, TestsAre, TestHasThen
  <2>4. DepthBound'
    BY <2>1, <2>2, <2>3, <1>c, <1>t DEF DepthBound, OfScripts
  <2>5. /\ testing' \in 0 .. Len(modules)
        /\ worker' = "passing" => testing' = 0 \/ testing' < Len(modules)
        /\ worker' \in Tests => testing' > 0
    <3>1. Len(modules) \in Nat /\ testing \in 0 .. Len(modules) /\ (modules # <<>> => Len(modules) # 0)
      BY DEF LuaTypes
    <3>2. CASE GetsModule
      <4>1. worker = "passing" /\ modules # <<>> /\ testing' = testing + 1 /\ worker' = "fetches"
        BY <3>2 DEF GetsModule
      <4>2. testing = 0 \/ testing < Len(modules)
        BY <4>1 DEF MachineInv, WorkerPlace
      <4> QED BY <3>1, <4>1, <4>2
    <3>3. CASE FetchesMain \/ RemovesModule \/ PushesArgument \/ CallsMain
      <4>1. testing' = testing /\ worker \in Tests /\ worker' # "passing"
        BY <3>3, TestsAre DEF FetchesMain, RemovesModule, PushesArgument, CallsMain, AfterPush
      <4> QED BY <3>1, <4>1 DEF MachineInv, WorkerPlace
    <3>4. CASE ClearsTest
      <4>1. /\ worker \in Tests /\ worker' = "passing"
            /\ testing' = IF testing = Len(modules) THEN 0 ELSE testing
        BY <3>4, TestsAre DEF ClearsTest
      <4> QED BY <3>1, <4>1, <1>n
    <3> QED BY <1>5, <3>2, <3>3, <3>4 DEF TestSteps
  <2>6. LuaTypes'
    <3>1. worker' \in Places
      BY <2>1 DEF Places
    <3> QED BY <2>1, <2>5, <3>1 DEF LuaTypes
  <2>7. WorkerPlace' /\ Running
    BY <2>1, <2>2, <2>5 DEF MachineInv, WorkerPlace
  <2> QED BY <2>4, <2>6, <2>7, <1>c DEF MachineInv
<1> QED BY <1>0, <1>1, <1>2, <1>3, <1>4, <1>5 DEF Worker, TestSteps

(* The connection that is read from.                                       *)
LEMMA InUse ==
  ASSUME WatchesOpen, ConsoleInv, pc = "reading"
  PROVE  /\ conn \in Fds /\ conn \in workhorses /\ owner[conn] \in Clients
         /\ inbox[owner[conn]] \in Seq(Commands)
         /\ cmd = "none"
<1>1. conn \in Fds /\ conn # NoFd
  BY DEF WatchesOpen, TypeOK, ConsoleTypes
<1>2. conn \in workhorses /\ owner[conn] # Nobody
  BY <1>1 DEF WatchesOpen
<1>3. owner[conn] \in Clients
  BY <1>1, <1>2 DEF WatchesOpen, TypeOK, ConsoleTypes
<1> QED BY <1>1, <1>2, <1>3 DEF ConsoleInv

(* What the main thread does to the machine.                               *)
LEMMA MachineMain ==
  ASSUME LuaTypes, MachineInv, WatchesOpen, ConsoleInv, MainThread
  PROVE  LuaTypes' /\ MachineInv'
<1>t. /\ Cardinality(Scripts \ todo) \in Nat /\ Cardinality(Scripts \ todo') \in Nat
      /\ frames \in Seq(Kinds) /\ Len(frames) \in Nat /\ halted \in BOOLEAN
      /\ OfTest \in Nat /\ OfScripts \in Nat
      /\ NewStack \in Seq(Kinds) /\ Len(NewStack) = 1
      /\ <<>> \in Seq(Kinds) /\ Len(<<>>) = 0
  BY Loaded, StackAtFirst, TestHasSome DEF LuaTypes, OfScripts
<1>n. \A place \in {"none", "started", "ended"} : place \notin Tests /\ place \in Places
  BY TestsAre DEF Places
<1>1. CASE \/ ReadsIn \/ TakesCommandLine \/ Rejected \/ NoPcapFile \/ Waits \/ StaleEvent
           \/ AcceptsConn \/ BeginsRead \/ ReadsEnd \/ BeginsTimers \/ PassesEvent
           \/ FiresTick \/ EndsTimers
  <2>1. UNCHANGED <<stack, work, done, top, cmd>>
    BY <1>1 DEF ReadsIn, TakesCommandLine, Rejected, NoPcapFile, Waits, StaleEvent, AcceptsConn,
                BeginsRead, ReadsEnd, BeginsTimers, PassesEvent, FiresTick, EndsTimers,
                luaVars, mainVars
  <2>2. halted' \in BOOLEAN
    BY <1>1, <1>t
       DEF ReadsIn, TakesCommandLine, Rejected, NoPcapFile, Waits, StaleEvent, AcceptsConn,
           BeginsRead, ReadsEnd, BeginsTimers, PassesEvent, FiresTick, EndsTimers,
           luaVars, Crash, GoesOn
  <2>3. ~Running' => ~Running
    BY <1>1 DEF ReadsIn, TakesCommandLine, Rejected, NoPcapFile, Waits, StaleEvent, AcceptsConn,
                BeginsRead, ReadsEnd, BeginsTimers, PassesEvent, FiresTick, EndsTimers,
                mainVars, Running
  <2>4. /\ UNCHANGED <<frames, globals, modules, worker, todo, loading, testing, done, top, cmd>>
    BY <2>1 DEF stack, work
  <2>5. LuaTypes'
    BY <2>2, <2>4 DEF LuaTypes
  <2>6. WorkerPlace' /\ DepthBound'
    BY <2>4 DEF MachineInv, WorkerPlace, DepthBound, OfScripts, OfTest, OfCommand
  <2> QED BY <2>3, <2>4, <2>5, <2>6 DEF MachineInv
<1>2. CASE GetsReady
  <2>1. /\ pc = "check" /\ pc' = "wait" /\ worker' \in {worker, "started"} /\ done' = FALSE
        /\ UNCHANGED <<halted, frames, globals, modules, todo, loading, testing, top, cmd>>
    BY <1>2 DEF GetsReady, ReadyGo, stack
  <2>2. worker = "none"
    BY <2>1 DEF MachineInv, Running
  <2>3. LuaTypes'
    BY <2>1, <2>2, <1>n DEF LuaTypes
  <2>4. WorkerPlace' /\ Running'
    BY <2>1, <2>2, <1>n DEF MachineInv, WorkerPlace, Running, LuaTypes
  <2>5. DepthBound'
    <3>1. OfTest = 0 /\ OfTest' = 0 /\ OfScripts' = OfScripts
      BY <2>1, <2>2, <1>n, TestHas, TestHasThen DEF OfScripts
    <3> QED BY <2>1, <3>1 DEF MachineInv, DepthBound, OfCommand
  <2> QED BY <2>3, <2>4, <2>5 DEF MachineInv
<1>3. CASE ReadsCommand
  <2>1. /\ pc = "reading" /\ pc' = "printing" /\ inbox[owner[conn]] # <<>>
        /\ cmd' = Head(inbox[owner[conn]])
        /\ top' = Len(frames)
        /\ \E result \in ResultsOf(cmd') : frames' = frames \o result
        /\ UNCHANGED <<globals, modules, worker, todo, loading, testing, done>>
    BY <1>3 DEF ReadsCommand, RunsCommand, work
  <2>2. halted' \in BOOLEAN
    BY <1>3, <1>t DEF ReadsCommand, GoesOn
  <2>3. cmd = "none" /\ cmd' # "none"
    <3>1. inbox[owner[conn]] \in Seq(Commands) /\ cmd = "none"
      BY <2>1, InUse
    <3>2. Head(inbox[owner[conn]]) \in Commands
      BY <2>1, <3>1
    <3> QED BY <2>1, <3>1, <3>2 DEF Commands
  <2>7. frames' \in Seq(Kinds) /\ Len(frames') <= Len(frames) + 1 /\ Len(frames') \in Nat
    <3>1. PICK result \in ResultsOf(cmd') : frames' = frames \o result
      BY <2>1
    <3>2. "string" \in Kinds
      BY DEF Kinds
    <3>3. result = <<>> \/ \E kind \in Kinds : result = <<kind>>
      BY <3>1, <3>2, LuaAssumption DEF ResultsOf
    <3>4. result \in Seq(Kinds) /\ Len(result) <= 1 /\ Len(result) \in Nat
      <4>1. <<>> \in Seq(Kinds) /\ Len(<<>>) = 0
        OBVIOUS
      <4>2. ASSUME NEW kind \in Kinds PROVE <<kind>> \in Seq(Kinds) /\ Len(<<kind>>) = 1
        OBVIOUS
      <4>3. CASE result = <<>>
        BY <4>1, <4>3
      <4>4. CASE \E kind \in Kinds : result = <<kind>>
        <5>1. PICK kind \in Kinds : result = <<kind>>
          BY <4>4
        <5>2. Len(result) = 1 /\ result \in Seq(Kinds)
          BY <4>2, <5>1
        <5> QED BY <5>2
      <4> QED BY <3>3, <4>3, <4>4
    <3>5. \A a, b \in Seq(Kinds) : a \o b \in Seq(Kinds) /\ Len(a \o b) = Len(a) + Len(b)
      OBVIOUS
    <3>6. frames' \in Seq(Kinds) /\ Len(frames') = Len(frames) + Len(result)
      BY <3>1, <3>4, <3>5, <1>t
    <3> QED BY <3>4, <3>6, <1>t
  <2>4. LuaTypes'
    BY <2>1, <2>2, <2>7, <1>t DEF LuaTypes
  <2>5. WorkerPlace' /\ Running'
    BY <2>1 DEF MachineInv, WorkerPlace, Running
  <2>6. DepthBound'
    <3>1. OfTest' = OfTest /\ OfScripts' = OfScripts
      BY <2>1 DEF OfScripts, OfTest
    <3> QED BY <2>3, <2>7, <3>1, <1>t DEF MachineInv, DepthBound, OfCommand
  <2> QED BY <2>4, <2>5, <2>6 DEF MachineInv
<1>4. CASE PrintsResult
  <2>1. /\ pc' = "serve" /\ cmd' = "none" /\ frames' = <<>> /\ top' = 0
        /\ UNCHANGED <<globals, modules, worker, todo, loading, testing, done>>
    BY <1>4 DEF PrintsResult, ClearsStack, work
  <2>2. halted' \in BOOLEAN
    BY <1>4, <1>t DEF PrintsResult, GoesOn, Crash
  <2>3. LuaTypes'
    BY <2>1, <2>2, <1>t DEF LuaTypes
  <2>4. WorkerPlace' /\ Running'
    BY <2>1 DEF MachineInv, WorkerPlace, Running
  <2>5. DepthBound'
    <3>1. OfTest' = OfTest /\ OfScripts' = OfScripts /\ OfCommand' = 0
      BY <2>1 DEF OfScripts, OfTest, OfCommand
    <3> QED BY <2>1, <3>1, <1>t DEF DepthBound
  <2> QED BY <2>3, <2>4, <2>5 DEF MachineInv
<1>5. CASE FiresReload
  <2>1. /\ pc' = "joining" /\ done' = TRUE
        /\ UNCHANGED <<halted, frames, globals, modules, worker, todo, loading, testing, top, cmd>>
    BY <1>5 DEF FiresReload, Stops, stack, work
  <2>2. LuaTypes'
    BY <2>1 DEF LuaTypes
  <2>3. WorkerPlace' /\ DepthBound' /\ Running'
    BY <2>1 DEF MachineInv, WorkerPlace, DepthBound, OfScripts, OfTest, OfCommand, Running
  <2> QED BY <2>2, <2>3 DEF MachineInv
<1>6. CASE Reloads
  <2>1. /\ pc' = "timers" /\ worker \in {"none", "ended"} /\ worker' \in {worker, "started"}
        /\ frames' = NewStack /\ globals' = {} /\ done' = FALSE
        /\ UNCHANGED <<halted, modules, todo, loading, testing, top, cmd>>
    BY <1>6 DEF Reloads, Joinable, Restarts, ReadyGo
  <2>2. LuaTypes'
    BY <2>1, <1>n, <1>t DEF LuaTypes
  <2>3. WorkerPlace' /\ Running'
    BY <2>1, <1>n DEF MachineInv, WorkerPlace, Running
  <2>4. DepthBound'
    <3>1. OfTest' = 0 /\ OfScripts' \in Nat /\ OfCommand' \in Nat
      BY <2>1, <1>n, <1>t, TestHasThen DEF OfScripts, OfCommand
    <3>2. Len(frames') = Len(NewStack) /\ Len(NewStack) = 1
      BY <2>1, <1>t
    <3> DEFINE x == OfScripts'
               y == OfCommand'
               z == OfTest'
    <3>3. x \in Nat /\ y \in Nat /\ z = 0
      BY <3>1
    <3>4. 1 <= 1 + x + z + y
      <4> HIDE DEF x, y, z
      <4> QED BY <3>3
    <3> QED BY <3>2, <3>4 DEF DepthBound
  <2> QED BY <2>2, <2>3, <2>4 DEF MachineInv
<1> QED BY <1>1, <1>2, <1>3, <1>4, <1>5, <1>6 DEF MainThread

LEMMA MachineStep ==
  ASSUME LuaTypes, MachineInv, WatchesOpen, ConsoleInv, [Next]_vars
  PROVE  LuaTypes' /\ MachineInv'
<1>1. CASE Environment \/ UNCHANGED vars
  <2>1. UNCHANGED <<luaVars, pc, cmd>>
    BY <1>1 DEF Environment, JiffyPasses, Connects, Sends, HangsUp, vars, mainVars
  <2> QED BY <2>1 DEF LuaTypes, MachineInv, WorkerPlace, Running, DepthBound, OfScripts, OfTest,
                      OfCommand, luaVars, stack, work
<1> QED BY <1>1, MachineMain, MachineWorker DEF Next

(* No more frames than those counted, when neither thread uses the machine. *)
LEMMA StackIsBounded == ASSUME LuaTypes, MachineInv PROVE StackBounded
<1> SUFFICES ASSUME ~Inside, cmd = "none"
             PROVE  Len(frames) <= Len(NewStack) + Cardinality(Scripts)
  BY DEF StackBounded
<1>1. OfTest = 0 /\ OfCommand = 0
  BY TestHas DEF Inside, OfCommand
<1>2. OfScripts \in Nat /\ OfScripts <= Cardinality(Scripts) /\ Cardinality(Scripts) \in Nat
  <2>1. /\ Cardinality(Scripts \ todo) \in Nat /\ Cardinality(Scripts) \in Nat
        /\ Cardinality(Scripts \ todo) <= Cardinality(Scripts)
    BY LuaAssumption, FS_Subset, FS_CardinalityType
  <2> QED BY <2>1 DEF OfScripts
<1>3. Len(frames) \in Nat /\ Len(frames) <= 1 + OfScripts /\ Len(NewStack) = 1
  BY <1>1, <1>2, StackAtFirst DEF LuaTypes, MachineInv, DepthBound
<1> QED BY <1>2, <1>3

(* A step that reloads finds the worker gone.                              *)
LEMMA ReloadsAlone ==
  ASSUME LuaTypes, MachineInv, [Next]_vars, reloads' # reloads
  PROVE  ~Inside
<1>1. Reloads
  BY DEF Next, MainThread, ReadsIn, TakesCommandLine, Rejected, NoPcapFile, GetsReady, Waits,
         StaleEvent, AcceptsConn, BeginsRead, ReadsCommand, PrintsResult, ReadsEnd, BeginsTimers,
         PassesEvent, FiresTick, FiresReload, EndsTimers, WorkerSteps, Environment, JiffyPasses,
         Connects, Sends, HangsUp, vars, mainVars, counts
<1>2. worker \in {"none", "ended"}
  BY <1>1 DEF Reloads, Joinable
<1>3. testing = 0 /\ worker \notin Tests
  BY <1>2, TestsAre DEF MachineInv, WorkerPlace, LuaTypes
<1> QED BY <1>2, <1>3 DEF Inside

-----------------------------------------------------------------------------
(* The console.                                                            *)

\* WatchesOpen, but for the types
Watching ==
    /\ \A f \in Fds : f \in workhorses <=> owner[f] # Nobody
    /\ workhorses \subseteq {Listener, conn}
    /\ conn # NoFd => conn \in workhorses

ConsolePart == ConsoleTypes /\ Watching /\ ConsoleInv

LEMMA ConsoleStart == ASSUME Init PROVE ConsolePart
<1>1. ConsoleTypes
  BY DEF Init, MainInit, ConsoleTypes
<1>2. Watching
  BY DEF Init, MainInit, Watching
<1>3. <<>> \in Seq(Fds \cup {Listener}) /\ <<>> \in Seq(Clients) /\ <<>> \in Seq(Commands)
  OBVIOUS
<1>4. DOMAIN <<>> = {}
  OBVIOUS
<1>5. BatchInv
  BY <1>3, <1>4 DEF Init, MainInit, BatchInv
<1> QED BY <1>1, <1>2, <1>3, <1>5 DEF Init, MainInit, ConsoleInv, ConsolePart

(* The rest of a batch holds other descriptors than the first.             *)
LEMMA BatchTail ==
  ASSUME NEW S, NEW s \in Seq(S), s # <<>>,
         \A i, j \in DOMAIN s : s[i] = s[j] => i = j
  PROVE  /\ Tail(s) \in Seq(S) /\ Head(s) \in S /\ Head(s) = s[1] /\ 1 \in DOMAIN s
         /\ \A i, j \in DOMAIN Tail(s) : Tail(s)[i] = Tail(s)[j] => i = j
         /\ \A i \in DOMAIN Tail(s) :
               Tail(s)[i] # Head(s) /\ i + 1 \in DOMAIN s /\ Tail(s)[i] = s[i + 1]
<1>1. /\ Tail(s) \in Seq(S) /\ Head(s) \in S /\ Head(s) = s[1] /\ 1 \in DOMAIN s
      /\ DOMAIN Tail(s) \subseteq Nat \ {0}
      /\ \A i \in DOMAIN Tail(s) : i + 1 \in DOMAIN s /\ Tail(s)[i] = s[i + 1]
  OBVIOUS
<1>2. ASSUME NEW i \in DOMAIN Tail(s), NEW j \in DOMAIN Tail(s), Tail(s)[i] = Tail(s)[j]
      PROVE  i = j
  <2>1. i + 1 = j + 1
    BY <1>1, <1>2
  <2> QED BY <1>1, <2>1
<1>3. ASSUME NEW i \in DOMAIN Tail(s) PROVE Tail(s)[i] # Head(s)
  <2>1. i + 1 # 1
    BY <1>1
  <2> QED BY <1>1, <2>1
<1> QED BY <1>1, <1>2, <1>3

(* What epoll_wait returns.                                                *)
LEMMA BatchReturned ==
  ASSUME ConsolePart, NEW s \in SetToSeqs(ReadyFds)
  PROVE  /\ s \in Seq(Fds \cup {Listener})
         /\ \A i, j \in DOMAIN s : s[i] = s[j] => i = j
         /\ \A i \in DOMAIN s : s[i] = Listener => backlog # <<>>
<1>1. ReadyFds \subseteq Fds \cup {Listener} /\ (Listener \in ReadyFds => backlog # <<>>)
  BY DEF ConsolePart, ConsoleTypes, ReadyFds
<1>2. Cardinality(ReadyFds) \in Nat
  <2>1. IsFiniteSet(Fds \cup {Listener})
    BY MainLoopAssumption, FS_AddElement
  <2> QED BY <1>1, <2>1, FS_Subset, FS_CardinalityType
<1>3. /\ s \in [1 .. Cardinality(ReadyFds) -> ReadyFds]
      /\ \A i, j \in 1 .. Cardinality(ReadyFds) : i # j => s[i] # s[j]
  BY DEF SetToSeqs
<1> DEFINE n == Cardinality(ReadyFds)
<1> HIDE DEF n
<1>4. n \in Nat /\ s \in [1 .. n -> Fds \cup {Listener}]
  BY <1>1, <1>2, <1>3 DEF n
<1>5. s \in Seq(Fds \cup {Listener}) /\ DOMAIN s = 1 .. n
  BY <1>4
<1>6. \A i, j \in DOMAIN s : s[i] = s[j] => i = j
  BY <1>3, <1>5 DEF n
<1>7. \A i \in DOMAIN s : s[i] \in ReadyFds
  BY <1>3, <1>5 DEF n
<1> QED BY <1>1, <1>5, <1>6, <1>7

(* A connection closed is one that is watched no more.                     *)
LEMMA ConnClosed ==
  ASSUME ConsolePart
  PROVE  /\ Registered \subseteq {Listener} /\ Owners \in [Fds -> Clients \cup {Nobody}]
         /\ \A f \in Fds : f \notin Registered /\ Owners[f] = Nobody
<1>1. Listener \notin Fds /\ NoFd \notin Fds
  BY MainLoopAssumption DEF Listener, NoFd
<1>2. Registered \subseteq {Listener}
  BY DEF ConsolePart, Watching, Registered
<1>3. Owners \in [Fds -> Clients \cup {Nobody}]
  BY DEF ConsolePart, ConsoleTypes, Owners
<1>4. ASSUME NEW f \in Fds PROVE f \notin Registered /\ Owners[f] = Nobody
  <2>1. f \notin Registered
    BY <1>1, <1>2
  <2>2. f # conn => f \notin workhorses
    BY <1>1 DEF ConsolePart, Watching
  <2>3. f # conn => owner[f] = Nobody
    BY <2>2 DEF ConsolePart, Watching
  <2> QED BY <2>1, <2>3 DEF Owners
<1> QED BY <1>2, <1>3, <1>4

MainPlaces == {"start", "args", "check", "wait", "serve", "reading", "printing", "timers", "joining"}

(* Steps that leave the console alone.                                     *)
LEMMA ConsoleSame ==
  ASSUME ConsolePart, UNCHANGED <<workhorses, conn, owner, batch, backlog, inbox, cmd>>,
         pc' \in MainPlaces, pc' = "reading" => conn # NoFd,
         cmd # "none" => pc' = "printing", ~Running' => ~Running
  PROVE  ConsolePart'
<1>1. ConsoleTypes' /\ Watching'
  BY DEF ConsolePart, ConsoleTypes, Watching, MainPlaces
<1>2. ConsoleInv'
  BY DEF ConsolePart, ConsoleInv, BatchInv
<1> QED BY <1>1, <1>2 DEF ConsolePart

LEMMA ConsoleMain ==
  ASSUME WatchesOpen, ConsolePart, MainThread
  PROVE  ConsolePart'
<1>n. Listener \notin Fds /\ NoFd \notin Fds /\ Nobody \notin Clients /\ Listener # NoFd
  BY MainLoopAssumption DEF Listener, NoFd
<1>p. pc \in MainPlaces /\ (cmd # "none" => pc = "printing") /\ (pc = "reading" => conn # NoFd)
  BY DEF ConsolePart, ConsoleTypes, ConsoleInv, MainPlaces
<1>1. CASE \/ ReadsIn \/ TakesCommandLine \/ Rejected \/ NoPcapFile \/ StaleEvent
           \/ BeginsTimers \/ PassesEvent \/ FiresTick \/ FiresReload \/ Reloads \/ EndsTimers
  <2>1. /\ UNCHANGED <<workhorses, conn, owner, batch, backlog, inbox, cmd>>
        /\ \/ pc' = pc
           \/ pc' \in {"args", "check"} /\ pc \in {"start", "args"}
           \/ pc' \in {"timers", "joining", "wait"} /\ pc \in {"serve", "timers", "joining"}
    BY <1>1 DEF ReadsIn, TakesCommandLine, Rejected, NoPcapFile, StaleEvent, BeginsTimers,
                PassesEvent, FiresTick, FiresReload, Reloads, EndsTimers, mainVars, descriptors,
                queues
  <2>2. /\ pc' \in MainPlaces /\ (pc' = "reading" => conn # NoFd)
        /\ (cmd # "none" => pc' = "printing") /\ (~Running' => ~Running)
    BY <2>1, <1>p DEF MainPlaces, Running
  <2> QED BY <2>1, <2>2, ConsoleSame
<1>2. CASE GetsReady
  <2>1. /\ pc = "check" /\ pc' = "wait" /\ workhorses' = {Listener}
        /\ UNCHANGED <<conn, owner, batch, backlog, inbox, cmd>>
    BY <1>2 DEF GetsReady, queues
  <2>2. conn = NoFd /\ \A f \in Fds : owner[f] = Nobody
    <3>1. conn = NoFd
      BY <2>1 DEF ConsolePart, ConsoleInv, Running
    <3> QED BY <3>1, <1>n DEF ConsolePart, Watching
  <2>3. ConsoleTypes'
    BY <2>1 DEF ConsolePart, ConsoleTypes
  <2>4. Watching'
    BY <2>1, <2>2, <1>n DEF Watching
  <2>5. ConsoleInv'
    BY <2>1, <1>p DEF ConsolePart, ConsoleInv, BatchInv, Running
  <2> QED BY <2>3, <2>4, <2>5 DEF ConsolePart
<1>3. CASE Waits
  <2>1. /\ pc = "wait" /\ pc' = "serve" /\ batch' \in SetToSeqs(ReadyFds)
        /\ UNCHANGED <<workhorses, conn, owner, backlog, inbox, cmd>>
    BY <1>3 DEF Waits, descriptors, queues
  <2>2. ConsoleTypes' /\ Watching'
    BY <2>1 DEF ConsolePart, ConsoleTypes, Watching
  <2>3. BatchInv'
    BY <2>1, BatchReturned DEF BatchInv
  <2>4. ConsoleInv'
    BY <2>1, <2>3, <1>p DEF ConsolePart, ConsoleInv, Running
  <2> QED BY <2>2, <2>4 DEF ConsolePart
<1>4. CASE AcceptsConn
  <2>1. /\ pc = "serve" /\ pc' = pc /\ batch # <<>> /\ Head(batch) = Listener
        /\ batch' = Tail(batch) /\ backlog' = Tail(backlog)
        /\ UNCHANGED <<inbox, cmd>>
    BY <1>4 DEF AcceptsConn
  <2>2. /\ batch \in Seq(Fds \cup {Listener})
        /\ \A i, j \in DOMAIN batch : batch[i] = batch[j] => i = j
    BY DEF ConsolePart, ConsoleInv, BatchInv
  <2>3. /\ batch' \in Seq(Fds \cup {Listener}) /\ batch[1] = Listener /\ 1 \in DOMAIN batch
        /\ \A i, j \in DOMAIN batch' : batch'[i] = batch'[j] => i = j
        /\ \A i \in DOMAIN batch' : batch'[i] # Listener
    BY <2>1, <2>2, BatchTail
  <2>4. backlog \in Seq(Clients) /\ backlog # <<>>
    BY <2>3 DEF ConsolePart, ConsoleInv, BatchInv
  <2>5. backlog' \in Seq(Clients) /\ Head(backlog) \in Clients
    BY <2>1, <2>4
  <2>6. ConsoleInv'
    <3>1. BatchInv'
      BY <2>3 DEF BatchInv
    <3> QED BY <2>1, <2>5, <3>1, <1>p DEF ConsolePart, ConsoleInv, Running
  <2>7. /\ Registered \subseteq {Listener} /\ Owners \in [Fds -> Clients \cup {Nobody}]
        /\ \A f \in Fds : f \notin Registered /\ Owners[f] = Nobody
    BY ConnClosed
  <2>8. CASE \E f \in {g \in Fds : Owners[g] = Nobody} :
                /\ conn' = f
                /\ workhorses' = Registered \cup {f}
                /\ owner' = [Owners EXCEPT ![f] = Head(backlog)]
    <3>1. PICK f \in Fds : /\ conn' = f
                           /\ workhorses' = Registered \cup {f}
                           /\ owner' = [Owners EXCEPT ![f] = Head(backlog)]
      BY <2>8
    <3>2. owner' \in [Fds -> Clients \cup {Nobody}]
      BY <2>5, <2>7, <3>1
    <3>3. ConsoleTypes'
      BY <2>1, <2>7, <3>1, <3>2 DEF ConsoleTypes
    <3>4. \A g \in Fds : owner'[g] = IF g = f THEN Head(backlog) ELSE Nobody
      BY <2>7, <3>1
    <3>5. \A g \in Fds : g \in workhorses' <=> g = f
      BY <2>7, <3>1
    <3>6. Watching'
      <4>1. \A g \in Fds : g \in workhorses' <=> owner'[g] # Nobody
        BY <2>5, <3>4, <3>5, <1>n
      <4>2. workhorses' \subseteq {Listener, conn'} /\ conn' \in workhorses'
        BY <2>7, <3>1
      <4> QED BY <4>1, <4>2 DEF Watching
    <3> QED BY <2>6, <3>3, <3>6 DEF ConsolePart
  <2>9. CASE conn' = NoFd /\ workhorses' = Registered /\ owner' = Owners
    <3>1. ConsoleTypes'
      BY <2>1, <2>7, <2>9 DEF ConsoleTypes
    <3>2. Watching'
      BY <2>7, <2>9 DEF Watching
    <3> QED BY <2>6, <3>1, <3>2 DEF ConsolePart
  <2> QED BY <1>4, <2>8, <2>9 DEF AcceptsConn
<1>5. CASE BeginsRead
  <2>1. /\ pc = "serve" /\ pc' = "reading" /\ batch # <<>>
        /\ Head(batch) \in workhorses \ {Listener}
        /\ batch' = Tail(batch)
        /\ UNCHANGED <<workhorses, conn, owner, backlog, inbox, cmd>>
    BY <1>5 DEF BeginsRead, descriptors, queues
  <2>2. conn # NoFd
    BY <2>1, <1>n DEF ConsolePart, ConsoleTypes, Watching
  <2>3. /\ batch \in Seq(Fds \cup {Listener})
        /\ \A i, j \in DOMAIN batch : batch[i] = batch[j] => i = j
        /\ \A i \in DOMAIN batch : batch[i] = Listener => backlog # <<>>
    BY DEF ConsolePart, ConsoleInv, BatchInv
  <2>4. /\ batch' \in Seq(Fds \cup {Listener})
        /\ \A i, j \in DOMAIN batch' : batch'[i] = batch'[j] => i = j
        /\ \A i \in DOMAIN batch' : i + 1 \in DOMAIN batch /\ batch'[i] = batch[i + 1]
    BY <2>1, <2>3, BatchTail
  <2>5. BatchInv'
    BY <2>1, <2>3, <2>4 DEF BatchInv
  <2>6. ConsoleInv'
    BY <2>1, <2>5, <1>p DEF ConsolePart, ConsoleInv, Running
  <2>7. ConsoleTypes' /\ Watching'
    BY <2>1, <2>2 DEF ConsolePart, ConsoleTypes, Watching
  <2> QED BY <2>6, <2>7 DEF ConsolePart
<1>6. CASE ReadsCommand
  <2>1. /\ pc = "reading" /\ pc' = "printing" /\ inbox[owner[conn]] # <<>>
        /\ inbox' = [inbox EXCEPT ![owner[conn]] = Tail(@)]
        /\ UNCHANGED <<workhorses, conn, owner, batch, backlog>>
    BY <1>6 DEF ReadsCommand, descriptors
  <2>2. owner[conn] \in Clients /\ inbox[owner[conn]] \in Seq(Commands)
    BY <2>1, InUse DEF ConsolePart
  <2>3. inbox' \in [Clients -> Seq(Commands)]
    <3>1. Tail(inbox[owner[conn]]) \in Seq(Commands)
      BY <2>1, <2>2
    <3>2. inbox \in [Clients -> Seq(Commands)]
      BY DEF ConsolePart, ConsoleInv
    <3> QED BY <2>1, <3>1, <3>2
  <2>4. ConsoleInv'
    BY <2>1, <2>3 DEF ConsolePart, ConsoleInv, BatchInv, Running
  <2>5. ConsoleTypes' /\ Watching'
    BY <2>1 DEF ConsolePart, ConsoleTypes, Watching
  <2> QED BY <2>4, <2>5 DEF ConsolePart
<1>7. CASE PrintsResult
  <2>1. /\ pc = "printing" /\ pc' = "serve" /\ cmd' = "none"
        /\ UNCHANGED <<workhorses, conn, owner, batch, backlog, inbox>>
    BY <1>7 DEF PrintsResult, descriptors, queues
  <2>2. ConsoleTypes' /\ Watching'
    BY <2>1 DEF ConsolePart, ConsoleTypes, Watching
  <2>3. ConsoleInv'
    BY <2>1 DEF ConsolePart, ConsoleInv, BatchInv, Running
  <2> QED BY <2>2, <2>3 DEF ConsolePart
<1>8. CASE ReadsEnd
  <2>1. /\ pc = "reading" /\ pc' = "serve"
        /\ workhorses' = Registered /\ owner' = Owners /\ conn' = NoFd
        /\ UNCHANGED <<batch, backlog, inbox, cmd>>
    BY <1>8 DEF ReadsEnd, queues
  <2>2. /\ Registered \subseteq {Listener} /\ Owners \in [Fds -> Clients \cup {Nobody}]
        /\ \A f \in Fds : f \notin Registered /\ Owners[f] = Nobody
    BY ConnClosed
  <2>3. ConsoleTypes'
    BY <2>1, <2>2 DEF ConsoleTypes
  <2>4. Watching'
    BY <2>1, <2>2 DEF Watching
  <2>5. ConsoleInv'
    BY <2>1, <1>p DEF ConsolePart, ConsoleInv, BatchInv, Running
  <2> QED BY <2>3, <2>4, <2>5 DEF ConsolePart
<1> QED BY <1>1, <1>2, <1>3, <1>4, <1>5, <1>6, <1>7, <1>8 DEF MainThread

LEMMA ConsoleStep ==
  ASSUME WatchesOpen, ConsolePart, [Next]_vars
  PROVE  ConsolePart'
<1>p. pc \in MainPlaces /\ (cmd # "none" => pc = "printing") /\ (pc = "reading" => conn # NoFd)
  BY DEF ConsolePart, ConsoleTypes, ConsoleInv, MainPlaces
<1>1. CASE \/ WorkerSteps \/ JiffyPasses \/ UNCHANGED vars
           \/ \E c \in Clients : HangsUp(c)
  <2>1. UNCHANGED <<workhorses, conn, owner, batch, backlog, inbox, cmd, pc>>
    BY <1>1 DEF WorkerSteps, JiffyPasses, HangsUp, vars, mainVars, descriptors, queues
  <2>2. Running' = Running
    BY <2>1 DEF Running
  <2> QED BY <2>1, <2>2, <1>p, ConsoleSame
<1>2. ASSUME NEW c \in Clients, Connects(c) PROVE ConsolePart'
  <2>1. /\ backlog' = Append(backlog, c)
        /\ UNCHANGED <<workhorses, conn, owner, batch, inbox, cmd, pc>>
    BY <1>2 DEF Connects, descriptors
  <2>2. backlog' \in Seq(Clients) /\ backlog' # <<>>
    <3>1. backlog \in Seq(Clients)
      BY DEF ConsolePart, ConsoleInv
    <3> QED BY <2>1, <3>1
  <2>3. ConsoleTypes' /\ Watching'
    BY <2>1 DEF ConsolePart, ConsoleTypes, Watching
  <2>4. ConsoleInv'
    BY <2>1, <2>2 DEF ConsolePart, ConsoleInv, BatchInv, Running
  <2> QED BY <2>3, <2>4 DEF ConsolePart
<1>3. ASSUME NEW c \in Clients, Sends(c) PROVE ConsolePart'
  <2>1. /\ \E command \in Commands : inbox' = [inbox EXCEPT ![c] = Append(@, command)]
        /\ UNCHANGED <<workhorses, conn, owner, batch, backlog, cmd, pc>>
    BY <1>3 DEF Sends, descriptors
  <2>2. inbox' \in [Clients -> Seq(Commands)]
    <3>1. PICK command \in Commands : inbox' = [inbox EXCEPT ![c] = Append(@, command)]
      BY <2>1
    <3>2. inbox \in [Clients -> Seq(Commands)]
      BY DEF ConsolePart, ConsoleInv
    <3>3. Append(inbox[c], command) \in Seq(Commands)
      BY <3>2
    <3> QED BY <3>1, <3>2, <3>3
  <2>3. ConsoleTypes' /\ Watching'
    BY <2>1 DEF ConsolePart, ConsoleTypes, Watching
  <2>4. ConsoleInv'
    BY <2>1, <2>2 DEF ConsolePart, ConsoleInv, BatchInv, Running
  <2> QED BY <2>3, <2>4 DEF ConsolePart
<1> QED BY <1>1, <1>2, <1>3, ConsoleMain DEF Next, Environment

-----------------------------------------------------------------------------
(* The timer events, counted by their kind.                                *)
Count(s, kind) == Cardinality(PlacesOf(s, kind))

LEMMA CountType ==
  ASSUME NEW s \in Seq(EventTypes), NEW kind
  PROVE  /\ PlacesOf(s, kind) \subseteq 1 .. Len(s)
         /\ IsFiniteSet(PlacesOf(s, kind)) /\ Count(s, kind) \in Nat
<1>1. PlacesOf(s, kind) \subseteq 1 .. Len(s) /\ Len(s) \in Int
  BY DEF PlacesOf
<1>2. IsFiniteSet(1 .. Len(s))
  BY <1>1, FS_Interval
<1> QED BY <1>1, <1>2, FS_Subset, FS_CardinalityType DEF Count

LEMMA CountEmpty == ASSUME NEW kind PROVE Count(<<>>, kind) = 0
<1>1. PlacesOf(<<>>, kind) = {}
  BY DEF PlacesOf
<1> QED BY <1>1, FS_EmptySet DEF Count

LEMMA CountAppend ==
  ASSUME NEW s \in Seq(EventTypes), NEW e \in EventTypes, NEW kind
  PROVE  Count(Append(s, e), kind) = Count(s, kind) + (IF e.kind = kind THEN 1 ELSE 0)
<1>1. /\ DOMAIN Append(s, e) = (1 .. Len(s)) \cup {Len(s) + 1} /\ DOMAIN s = 1 .. Len(s)
      /\ \A i \in 1 .. Len(s) : Append(s, e)[i] = s[i]
      /\ Append(s, e)[Len(s) + 1] = e
      /\ Len(s) + 1 \notin 1 .. Len(s)
  OBVIOUS
<1>2. /\ PlacesOf(s, kind) \subseteq 1 .. Len(s)
      /\ IsFiniteSet(PlacesOf(s, kind)) /\ Count(s, kind) \in Nat
  BY CountType
<1> DEFINE n == Len(s) + 1
           a == Append(s, e)
<1>3. /\ DOMAIN a = (1 .. Len(s)) \cup {n} /\ DOMAIN s = 1 .. Len(s)
      /\ \A i \in 1 .. Len(s) : a[i] = s[i]
      /\ a[n] = e /\ n \notin 1 .. Len(s)
  BY <1>1
<1> HIDE DEF n, a
<1>4. CASE e.kind = kind
  <2>1. PlacesOf(a, kind) = PlacesOf(s, kind) \cup {n} /\ n \notin PlacesOf(s, kind)
    BY <1>2, <1>3, <1>4 DEF PlacesOf
  <2>2. Cardinality(PlacesOf(s, kind) \cup {n}) = Cardinality(PlacesOf(s, kind)) + 1
    BY <1>2, <2>1, FS_AddElement
  <2> QED BY <1>2, <1>4, <2>1, <2>2 DEF Count, a
<1>5. CASE e.kind # kind
  <2>1. PlacesOf(a, kind) = PlacesOf(s, kind)
    BY <1>2, <1>3, <1>5 DEF PlacesOf
  <2> QED BY <1>2, <1>5, <2>1 DEF Count, a
<1> QED BY <1>4, <1>5

LEMMA CountConcat ==
  ASSUME NEW s \in Seq(EventTypes), NEW t \in Seq(EventTypes), NEW kind
  PROVE  Count(s \o t, kind) = Count(s, kind) + Count(t, kind)
<1> DEFINE Good(q) == Count(s \o q, kind) = Count(s, kind) + Count(q, kind)
           N == {n \in Nat : \A q \in Seq(EventTypes) : Len(q) = n => Good(q)}
<1>0. Count(s, kind) \in Nat
  BY CountType
<1>1. 0 \in N
  <2> SUFFICES ASSUME NEW q \in Seq(EventTypes), Len(q) = 0 PROVE Good(q)
    OBVIOUS
  <2>1. q = <<>> /\ s \o <<>> = s
    OBVIOUS
  <2> QED BY <2>1, <1>0, CountEmpty
<1>2. ASSUME NEW n \in Nat, n \in N PROVE n + 1 \in N
  <2> SUFFICES ASSUME NEW q \in Seq(EventTypes), Len(q) = n + 1 PROVE Good(q)
    OBVIOUS
  <2>1. PICK p \in Seq(EventTypes), e \in EventTypes : q = Append(p, e)
    <3>1. q # <<>>
      OBVIOUS
    <3> QED BY <3>1, SequenceEmptyOrAppend
  <2>2. Len(p) = n /\ s \o p \in Seq(EventTypes)
    BY <2>1
  <2>3. Good(p)
    BY <1>2, <2>2
  <2>4. s \o q = Append(s \o p, e)
    BY <2>1, AppendConcat
  <2> DEFINE more == IF e.kind = kind THEN 1 ELSE 0
  <2> DEFINE w == s \o p
  <2>5. Count(s \o q, kind) = Count(w, kind) + more
    <3>1. w \in Seq(EventTypes) /\ s \o q = Append(w, e)
      BY <2>2, <2>4
    <3> HIDE DEF w
    <3>2. Count(Append(w, e), kind) = Count(w, kind) + more
      BY <3>1, CountAppend
    <3> HIDE DEF more
    <3> QED BY <3>1, <3>2, Zenon
  <2>6. Count(q, kind) = Count(p, kind) + more
    BY <2>1, CountAppend
  <2>7. Count(p, kind) \in Nat /\ more \in Nat
    BY CountType
  <2> HIDE DEF more
  <2> QED BY <2>3, <2>5, <2>6, <2>7, <1>0
<1>3. Len(t) \in Nat
  OBVIOUS
<1> HIDE DEF N
<1>4. Len(t) \in N
  BY <1>1, <1>2, <1>3, Induct
<1> QED BY <1>4 DEF N

LEMMA CountRemove ==
  ASSUME NEW s \in Seq(EventTypes), NEW c \in 1 .. Len(s), NEW kind
  PROVE  Count(s, kind) =
           Count(RemoveAt(s, c), kind) + (IF s[c].kind = kind THEN 1 ELSE 0)
<1> DEFINE a == SubSeq(s, 1, c - 1)
           b == SubSeq(s, c + 1, Len(s))
           more == IF s[c].kind = kind THEN 1 ELSE 0
<1>1. c - 1 \in 0 .. Len(s) /\ c \in 0 .. Len(s) /\ s[c] \in EventTypes
  OBVIOUS
<1>2. a \in Seq(EventTypes) /\ b \in Seq(EventTypes)
  BY <1>1, Halves
<1>3. SubSeq(s, 1, c) = Append(a, s[c])
  OBVIOUS
<1>4. Append(a, s[c]) \o b = s
  BY <1>1, <1>3, Halves
<1>5. RemoveAt(s, c) = a \o b
  BY DEF RemoveAt
<1> HIDE DEF a, b
<1>6. Append(a, s[c]) \in Seq(EventTypes)
  BY <1>1, <1>2
<1>7. Count(Append(a, s[c]) \o b, kind) = Count(Append(a, s[c]), kind) + Count(b, kind)
  BY <1>2, <1>6, CountConcat
<1>8. Count(Append(a, s[c]), kind) = Count(a, kind) + more
  BY <1>1, <1>2, CountAppend
<1>9. Count(a \o b, kind) = Count(a, kind) + Count(b, kind)
  BY <1>2, CountConcat
<1>10. Count(a, kind) \in Nat /\ Count(b, kind) \in Nat /\ more \in Nat
  BY <1>2, CountType
<1> DEFINE x == Count(s, kind)
           y == Count(RemoveAt(s, c), kind)
<1>11. x = Count(Append(a, s[c]), kind) + Count(b, kind) /\ y = Count(a, kind) + Count(b, kind)
  BY <1>4, <1>5, <1>7, <1>9
<1> HIDE DEF x, y, more
<1>12. x = y + more
  BY <1>8, <1>10, <1>11
<1> QED BY <1>12 DEF x, y, more

(* A jiffy brings events nearer, and changes nothing else.                 *)
LEMMA NearerShape ==
  ASSUME NEW s \in Seq(EventTypes)
  PROVE  /\ Nearer(s) \in Seq(EventTypes) /\ Len(Nearer(s)) = Len(s)
         /\ \A i \in 1 .. Len(s) : Nearer(s)[i].kind = s[i].kind
         /\ \A kind : Count(Nearer(s), kind) = Count(s, kind)
<1>1. DOMAIN s = 1 .. Len(s) /\ Len(s) \in Nat /\ \A i \in 1 .. Len(s) : s[i] \in EventTypes
  OBVIOUS
<1>2. ASSUME NEW e \in EventTypes
      PROVE  /\ [e EXCEPT !.left = IF @ = 0 THEN 0 ELSE @ - 1] \in EventTypes
             /\ [e EXCEPT !.left = IF @ = 0 THEN 0 ELSE @ - 1].kind = e.kind
  BY DEF EventTypes
<1> DEFINE n == Len(s)
<1>3. /\ Nearer(s) = [i \in 1 .. n |-> [s[i] EXCEPT !.left = IF @ = 0 THEN 0 ELSE @ - 1]]
      /\ n \in Nat /\ \A i \in 1 .. n : s[i] \in EventTypes
  BY <1>1 DEF Nearer
<1> HIDE DEF n
<1>4. \A i \in 1 .. n : Nearer(s)[i] \in EventTypes /\ Nearer(s)[i].kind = s[i].kind
  BY <1>2, <1>3
<1>5. DOMAIN Nearer(s) = 1 .. n /\ Nearer(s) \in [1 .. n -> EventTypes]
  <2>1. \A f : (f = [i \in 1 .. n |-> f[i]] /\ \A i \in 1 .. n : f[i] \in EventTypes)
                 => DOMAIN f = 1 .. n /\ f \in [1 .. n -> EventTypes]
    OBVIOUS
  <2> QED BY <1>3, <1>4
<1>6. Nearer(s) \in Seq(EventTypes) /\ Len(Nearer(s)) = n
  BY <1>3, <1>5
<1>7. ASSUME NEW kind PROVE PlacesOf(Nearer(s), kind) = PlacesOf(s, kind)
  BY <1>1, <1>4, <1>5 DEF PlacesOf, n
<1> QED BY <1>4, <1>6, <1>7 DEF n, Count

TimersPart == TimerTypes /\ TimersInv /\ EventsOnce

\* what EventsOnce says of a sum
Balance(tmp, evs, a, r) ==
    /\ Count(evs, "tick") + Count(tmp, "tick") = 1
    /\ a = r + (Count(evs, "reload") + Count(tmp, "reload"))

LEMMA Balanced == EventsOnce <=> (Running => Balance(tmpEvents, events, asked, reloads))
BY DEF EventsOnce, PendingOf, Balance, Count

LEMMA BalancedThen ==
  EventsOnce' <=> (Running' => Balance(tmpEvents', events', asked', reloads'))
BY DEF EventsOnce, PendingOf, Balance, Count

LEMMA Counted ==
  ASSUME TimersPart
  PROVE  \A kind : Count(events, kind) \in Nat /\ Count(tmpEvents, kind) \in Nat
BY CountType DEF TimersPart, TimersInv

LEMMA TimersStart == ASSUME Init PROVE TimersPart
<1>1. <<>> \in Seq(EventTypes) /\ Len(<<>>) = 0
  OBVIOUS
<1>2. TimerTypes /\ TimersInv /\ ~Running
  BY <1>1 DEF Init, MainInit, TimerTypes, TimersInv, Running
<1> QED BY <1>2 DEF TimersPart, EventsOnce

LEMMA TimersSame ==
  ASSUME TimersPart, UNCHANGED <<index, events, tmpEvents, asked, reloads>>,
         pc' = "joining" => pc = "joining", Running' <=> Running
  PROVE  TimersPart'
<1>1. TimerTypes' /\ TimersInv'
  BY DEF TimersPart, TimerTypes, TimersInv
<1>2. EventsOnce'
  BY Balanced, BalancedThen DEF TimersPart
<1> QED BY <1>1, <1>2 DEF TimersPart

LEMMA TimersMain ==
  ASSUME TimersPart, MainThread
  PROVE  TimersPart'
<1>t. /\ events \in Seq(EventTypes) /\ tmpEvents \in Seq(EventTypes)
      /\ index \in 1 .. Len(events) + 1 /\ Len(events) \in Nat
      /\ asked \in Nat /\ reloads \in Nat /\ reloads <= asked
  BY DEF TimersPart, TimerTypes, TimersInv
<1>c. \A kind : Count(events, kind) \in Nat /\ Count(tmpEvents, kind) \in Nat
  BY Counted
<1>b. Running => Balance(tmpEvents, events, asked, reloads)
  BY Balanced DEF TimersPart
<1>e. \A kind \in {"tick", "reload"}, n \in Nat :
         Event(kind, n) \in EventTypes /\ Event(kind, n).kind = kind /\ Event(kind, n).left = n
  BY DEF Event, EventTypes
<1>1. CASE \/ ReadsIn \/ TakesCommandLine \/ Rejected \/ NoPcapFile \/ Waits \/ StaleEvent
           \/ AcceptsConn \/ BeginsRead \/ PrintsResult \/ ReadsEnd \/ EndsTimers
  <2>1. /\ UNCHANGED <<index, events, tmpEvents, asked, reloads>>
        /\ \/ pc' = pc
           \/ pc \in {"start", "args"} /\ pc' \in {"args", "check"}
           \/ pc \in {"wait", "serve", "reading", "printing", "timers"}
              /\ pc' \in {"serve", "reading", "wait"}
    BY <1>1 DEF ReadsIn, TakesCommandLine, Rejected, NoPcapFile, Waits, StaleEvent, AcceptsConn,
                BeginsRead, PrintsResult, ReadsEnd, EndsTimers, mainVars, timers, counts
  <2>2. (pc' = "joining" => pc = "joining") /\ (Running' <=> Running)
    BY <2>1 DEF Running
  <2> QED BY <2>1, <2>2, TimersSame
<1>2. CASE GetsReady
  <2>1. /\ pc = "check" /\ pc' = "wait" /\ tmpEvents' = <<Event("tick", 0)>>
        /\ UNCHANGED <<events, index, asked, reloads>>
    BY <1>2 DEF GetsReady, counts
  <2>2. events = <<>> /\ asked = 0 /\ reloads = 0
    BY <2>1 DEF TimersPart, TimersInv, Running
  <2>3. tmpEvents' \in Seq(EventTypes) /\ tmpEvents' = Append(<<>>, Event("tick", 0))
    BY <2>1, <1>e
  <2>4. Count(tmpEvents', "tick") = 1 /\ Count(tmpEvents', "reload") = 0
    <3>1. <<>> \in Seq(EventTypes) /\ Event("tick", 0) \in EventTypes /\ Event("tick", 0).kind = "tick"
      BY <1>e
    <3>2. ASSUME NEW kind
          PROVE  Count(tmpEvents', kind) = Count(<<>>, kind) + (IF "tick" = kind THEN 1 ELSE 0)
      <4> DEFINE e == Event("tick", 0)
      <4>1. e \in EventTypes /\ e.kind = "tick" /\ tmpEvents' = Append(<<>>, e)
        BY <2>3, <3>1
      <4> HIDE DEF e
      <4>2. Count(Append(<<>>, e), kind) = Count(<<>>, kind) + (IF e.kind = kind THEN 1 ELSE 0)
        BY <3>1, <4>1, CountAppend
      <4> QED BY <4>1, <4>2
    <3> QED BY <3>2, CountEmpty
  <2>5. Count(events', "tick") = 0 /\ Count(events', "reload") = 0
    BY <2>1, <2>2, CountEmpty
  <2>6. Balance(tmpEvents', events', asked', reloads')
    BY <2>1, <2>2, <2>4, <2>5 DEF Balance
  <2>7. TimerTypes'
    BY <2>1, <1>t DEF TimerTypes
  <2>8. TimersInv'
    BY <2>1, <2>3, <1>t DEF TimersInv, Running
  <2> QED BY <2>6, <2>7, <2>8, BalancedThen DEF TimersPart
<1>3. CASE ReadsCommand
  <2>1. /\ pc = "reading" /\ pc' = "printing" /\ UNCHANGED <<events, index, reloads>>
        /\ \/ tmpEvents' = Append(tmpEvents, Event("reload", 0)) /\ asked' = asked + 1
           \/ UNCHANGED <<tmpEvents, asked>>
    BY <1>3 DEF ReadsCommand
  <2>2. CASE tmpEvents' = Append(tmpEvents, Event("reload", 0)) /\ asked' = asked + 1
    <3>1. Event("reload", 0) \in EventTypes /\ Event("reload", 0).kind = "reload"
      BY <1>e
    <3>2. tmpEvents' \in Seq(EventTypes)
      BY <2>2, <3>1, <1>t
    <3>3. ASSUME NEW kind
          PROVE  Count(tmpEvents', kind) = Count(tmpEvents, kind) + (IF "reload" = kind THEN 1 ELSE 0)
      BY <2>2, <3>1, <1>t, CountAppend
    <3>4. Balance(tmpEvents', events', asked', reloads')
      <4>1. Balance(tmpEvents, events, asked, reloads)
        BY <2>1, <1>b DEF Running
      <4>2. Count(tmpEvents', "tick") = Count(tmpEvents, "tick")
        BY <3>3, <1>c
      <4>3. Count(tmpEvents', "reload") = Count(tmpEvents, "reload") + 1
        BY <3>3
      <4>4. \A kind : Count(events, kind) \in Nat /\ Count(tmpEvents, kind) \in Nat
        BY <1>c
      <4>5. events' = events /\ reloads' = reloads /\ asked' = asked + 1
        BY <2>1, <2>2
      <4>6. asked \in Nat /\ reloads \in Nat
        BY <1>t DEF TimerTypes
      <4> DEFINE x == Count(events, "reload")
                 y == Count(tmpEvents, "reload")
                 z == Count(tmpEvents', "reload")
      <4>7. x \in Nat /\ y \in Nat /\ z = y + 1 /\ asked = reloads + (x + y)
        BY <4>1, <4>3, <4>4 DEF Balance
      <4>8. Count(events, "tick") + Count(tmpEvents', "tick") = 1
        BY <4>1, <4>2 DEF Balance
      <4>9. asked + 1 = reloads + (x + z)
        <5> HIDE DEF x, y, z
        <5> QED BY <4>6, <4>7
      <4> QED BY <4>5, <4>8, <4>9, Zenon DEF Balance
    <3>5. TimerTypes'
      BY <2>1, <2>2, <1>t DEF TimerTypes
    <3>6. TimersInv'
      BY <2>1, <3>2, <1>t DEF TimersInv, Running
    <3> QED BY <3>4, <3>5, <3>6, BalancedThen DEF TimersPart
  <2>3. CASE UNCHANGED <<tmpEvents, asked>>
    <3>1. (pc' = "joining" => pc = "joining") /\ (Running' <=> Running)
      BY <2>1 DEF Running
    <3> QED BY <2>1, <2>3, <3>1, TimersSame
  <2> QED BY <2>1, <2>2, <2>3
<1>4. CASE BeginsTimers
  <2>1. /\ pc = "serve" /\ pc' = "timers" /\ events' = events \o tmpEvents
        /\ tmpEvents' = <<>> /\ index' = 1 /\ UNCHANGED <<asked, reloads>>
    BY <1>4 DEF BeginsTimers, counts
  <2>2. events' \in Seq(EventTypes) /\ tmpEvents' \in Seq(EventTypes)
    BY <2>1, <1>t
  <2>3. ASSUME NEW kind
        PROVE  /\ Count(events', kind) = Count(events, kind) + Count(tmpEvents, kind)
               /\ Count(tmpEvents', kind) = 0
    BY <2>1, <1>t, CountConcat, CountEmpty
  <2>4. Balance(tmpEvents', events', asked', reloads')
    <3>1. Balance(tmpEvents, events, asked, reloads)
      BY <2>1, <1>b DEF Running
    <3> QED BY <2>1, <2>3, <3>1, <1>c DEF Balance
  <2>5. TimerTypes'
    <3>1. Len(events') \in Nat
      BY <2>2
    <3>2. index' \in 1 .. Len(events') + 1
      BY <2>1, <3>1
    <3> QED BY <2>1, <3>2, <1>t DEF TimerTypes
  <2>6. TimersInv'
    BY <2>1, <2>2 DEF TimersInv, Running
  <2> QED BY <2>4, <2>5, <2>6, BalancedThen DEF TimersPart
<1>5. CASE PassesEvent
  <2>1. /\ pc = "timers" /\ pc' = "timers" /\ index <= Len(events) /\ index' = index + 1
        /\ UNCHANGED <<events, tmpEvents, asked, reloads>>
    BY <1>5 DEF PassesEvent, counts
  <2>2. TimerTypes'
    BY <2>1, <1>t DEF TimerTypes
  <2>3. TimersInv'
    BY <2>1, <1>t DEF TimersInv, Running
  <2>4. EventsOnce'
    <3>1. Balance(tmpEvents, events, asked, reloads)
      BY <2>1, <1>b DEF Running
    <3> QED BY <2>1, <3>1, BalancedThen
  <2> QED BY <2>2, <2>3, <2>4 DEF TimersPart
<1>6. CASE FiresTick
  <2>1. /\ pc = "timers" /\ pc' = "timers" /\ index <= Len(events)
        /\ events[index].kind = "tick"
        /\ events' = RemoveAt(events, index)
        /\ tmpEvents' = Append(tmpEvents, Event("tick", TickPeriod))
        /\ UNCHANGED <<index, asked, reloads>>
    BY <1>6 DEF FiresTick, AtDue, counts
  <2>2. index \in 1 .. Len(events)
    BY <2>1, <1>t
  <2>3. events' \in Seq(EventTypes) /\ Len(events') = Len(events) - 1
    BY <2>1, <2>2, <1>t, RemoveAtShape
  <2>4. Event("tick", TickPeriod) \in EventTypes /\ Event("tick", TickPeriod).kind = "tick"
    BY <1>e, MainLoopAssumption
  <2>5. tmpEvents' \in Seq(EventTypes)
    BY <2>1, <2>4, <1>t
  <2>6. ASSUME NEW kind
        PROVE  /\ Count(events, kind) = Count(events', kind) + (IF "tick" = kind THEN 1 ELSE 0)
               /\ Count(tmpEvents', kind) = Count(tmpEvents, kind) + (IF "tick" = kind THEN 1 ELSE 0)
    <3>1. Count(events, kind) = Count(events', kind) + (IF "tick" = kind THEN 1 ELSE 0)
      BY <2>1, <2>2, <1>t, CountRemove
    <3>2. Count(tmpEvents', kind) = Count(tmpEvents, kind) + (IF "tick" = kind THEN 1 ELSE 0)
      BY <2>1, <2>4, <1>t, CountAppend
    <3> QED BY <3>1, <3>2
  <2>7. \A kind : Count(events', kind) \in Nat
    BY <2>3, CountType
  <2>8. Balance(tmpEvents', events', asked', reloads')
    <3>1. Balance(tmpEvents, events, asked, reloads)
      BY <2>1, <1>b DEF Running
    <3>2. /\ Count(events, "tick") = Count(events', "tick") + 1
          /\ Count(tmpEvents', "tick") = Count(tmpEvents, "tick") + 1
      BY <2>6
    <3>3. /\ Count(events, "reload") = Count(events', "reload")
          /\ Count(tmpEvents', "reload") = Count(tmpEvents, "reload")
      BY <2>6, <2>7, <1>c
    <3> QED BY <2>1, <2>7, <3>1, <3>2, <3>3, <1>c DEF Balance
  <2>9. TimerTypes'
    BY <2>1, <2>2, <2>3, <1>t DEF TimerTypes
  <2>10. TimersInv'
    BY <2>1, <2>3, <2>5 DEF TimersInv, Running
  <2> QED BY <2>8, <2>9, <2>10, BalancedThen DEF TimersPart
<1>7. CASE FiresReload
  <2>1. /\ pc = "timers" /\ pc' = "joining" /\ index <= Len(events)
        /\ events[index].kind = "reload"
        /\ UNCHANGED <<events, tmpEvents, index, asked, reloads>>
    BY <1>7 DEF FiresReload, AtDue, timers, counts
  <2>2. TimerTypes'
    BY <2>1, <1>t DEF TimerTypes
  <2>3. TimersInv'
    BY <2>1, <1>t DEF TimersInv, Running
  <2>4. EventsOnce'
    <3>1. Balance(tmpEvents, events, asked, reloads)
      BY <2>1, <1>b DEF Running
    <3> QED BY <2>1, <3>1, BalancedThen
  <2> QED BY <2>2, <2>3, <2>4 DEF TimersPart
<1>8. CASE Reloads
  <2>1. /\ pc = "joining" /\ pc' = "timers" /\ events' = RemoveAt(events, index)
        /\ reloads' = reloads + 1
        /\ UNCHANGED <<tmpEvents, index, asked>>
    BY <1>8 DEF Reloads
  <2>2. index \in 1 .. Len(events) /\ events[index].kind = "reload"
    BY <2>1, <1>t DEF TimersPart, TimersInv
  <2>3. events' \in Seq(EventTypes) /\ Len(events') = Len(events) - 1
    BY <2>1, <2>2, <1>t, RemoveAtShape
  <2>4. ASSUME NEW kind
        PROVE  Count(events, kind) = Count(events', kind) + (IF "reload" = kind THEN 1 ELSE 0)
    BY <2>1, <2>2, <1>t, CountRemove
  <2>5. \A kind : Count(events', kind) \in Nat
    BY <2>3, CountType
  <2>6. /\ Count(events, "reload") = Count(events', "reload") + 1
        /\ Count(events, "tick") = Count(events', "tick")
    BY <2>4, <2>5
  <2>7. Balance(tmpEvents, events, asked, reloads)
    BY <2>1, <1>b DEF Running
  <2>8. Balance(tmpEvents', events', asked', reloads') /\ reloads' <= asked'
    <3> DEFINE k == Count(events', "reload")
               m == Count(tmpEvents, "reload")
    <3>1. k \in Nat /\ m \in Nat
      BY <2>5, <1>c
    <3>2. asked = reloads + ((k + 1) + m)
      BY <2>6, <2>7 DEF Balance
    <3>3. reloads' = reloads + 1 /\ asked' = asked
      BY <2>1
    <3>4. Count(events', "tick") + Count(tmpEvents', "tick") = 1
      BY <2>1, <2>6, <2>7 DEF Balance
    <3>5. Count(tmpEvents', "reload") = m
      BY <2>1
    <3> HIDE DEF k, m
    <3>6. asked' = reloads' + (k + m) /\ reloads' <= asked'
      BY <3>1, <3>2, <3>3, <1>t
    <3> QED BY <3>4, <3>5, <3>6 DEF Balance, k
  <2>9. TimerTypes'
    BY <2>1, <2>2, <2>3, <2>8, <1>t DEF TimerTypes
  <2>10. TimersInv'
    BY <2>1, <2>3, <1>t DEF TimersInv, Running
  <2> QED BY <2>8, <2>9, <2>10, BalancedThen DEF TimersPart
<1> QED BY <1>1, <1>2, <1>3, <1>4, <1>5, <1>6, <1>7, <1>8 DEF MainThread

LEMMA TimersStep == ASSUME TimersPart, [Next]_vars PROVE TimersPart'
<1>1. CASE WorkerSteps \/ (\E c \in Clients : Connects(c) \/ Sends(c) \/ HangsUp(c)) \/ UNCHANGED vars
  <2>1. UNCHANGED <<index, events, tmpEvents, asked, reloads, pc>>
    BY <1>1 DEF WorkerSteps, Connects, Sends, HangsUp, vars, mainVars, timers, counts
  <2>2. Running' <=> Running
    BY <2>1 DEF Running
  <2> QED BY <2>1, <2>2, TimersSame
<1>2. CASE JiffyPasses
  <2>1. /\ tmpEvents' = Nearer(tmpEvents) /\ events' = Nearer(events)
        /\ UNCHANGED <<index, asked, reloads, pc>>
    BY <1>2 DEF JiffyPasses, counts
  <2>2. /\ events \in Seq(EventTypes) /\ tmpEvents \in Seq(EventTypes) /\ Len(events) \in Nat
        /\ index \in 1 .. Len(events) + 1
    BY DEF TimersPart, TimersInv, TimerTypes
  <2>3. /\ events' \in Seq(EventTypes) /\ Len(events') = Len(events)
        /\ \A i \in 1 .. Len(events) : events'[i].kind = events[i].kind
        /\ \A kind : Count(events', kind) = Count(events, kind)
    BY <2>1, <2>2, NearerShape
  <2>4. /\ tmpEvents' \in Seq(EventTypes) /\ Len(tmpEvents') = Len(tmpEvents)
        /\ \A kind : Count(tmpEvents', kind) = Count(tmpEvents, kind)
    BY <2>1, <2>2, NearerShape
  <2>5. Running' <=> Running
    BY <2>1 DEF Running
  <2>6. EventsOnce'
    <3>1. Running => Balance(tmpEvents', events', asked', reloads')
      BY <2>1, <2>3, <2>4, Balanced DEF TimersPart, Balance
    <3> QED BY <2>5, <3>1, BalancedThen
  <2>7. TimerTypes'
    BY <2>1, <2>3 DEF TimersPart, TimerTypes
  <2>8. TimersInv'
    <3>1. ~Running => events' = <<>> /\ tmpEvents' = <<>>
      <4>1. ASSUME ~Running PROVE Len(events') = 0 /\ Len(tmpEvents') = 0
        BY <4>1, <2>3, <2>4 DEF TimersPart, TimersInv
      <4> QED BY <4>1, <2>3, <2>4, EmptySeq
    <3>2. pc = "joining" => index \in 1 .. Len(events) /\ events[index].kind = "reload"
      BY <2>2 DEF TimersPart, TimersInv
    <3>3. pc' = "joining" => index' <= Len(events') /\ events'[index'].kind = "reload"
      BY <2>1, <2>3, <3>2
    <3> QED BY <2>1, <2>3, <2>4, <2>5, <3>1, <3>3 DEF TimersPart, TimersInv
  <2> QED BY <2>6, <2>7, <2>8 DEF TimersPart
<1> QED BY <1>1, <1>2, TimersMain DEF Next, Environment

-----------------------------------------------------------------------------
(***************************************************************************)
(* The theorems.                                                           *)
(***************************************************************************)
LEMMA MainParts == MainInv <=> SettingsInv /\ ConsolePart /\ TimersPart /\ LuaTypes /\ MachineInv
BY DEF MainInv, WatchesOpen, TypeOK, ConsolePart, Watching, TimersPart

LEMMA MainPartsThen ==
  MainInv' <=> SettingsInv' /\ ConsolePart' /\ TimersPart' /\ LuaTypes' /\ MachineInv'
BY DEF MainInv, WatchesOpen, TypeOK, ConsolePart, Watching, TimersPart

(* What the main thread, its operator, the clock and the worker keep true  *)
(* together: module MainLoop says of what.                                 *)
THEOREM MainSafety == Spec => []MainInv
<1>1. Init => MainInv
  BY SettingsStart, ConsoleStart, TimersStart, MachineStart, MainParts
<1>2. MainInv /\ [Next]_vars => MainInv'
  <2> SUFFICES ASSUME MainInv, [Next]_vars PROVE MainInv'
    OBVIOUS
  <2>1. SettingsInv /\ ConsolePart /\ TimersPart /\ LuaTypes /\ MachineInv /\ WatchesOpen /\ ConsoleInv
    BY MainParts DEF MainInv
  <2> QED BY <2>1, SettingsStep, ConsoleStep, TimersStep, MachineStep, MainPartsThen
<1> QED BY <1>1, <1>2, PTL DEF Spec

(* The settings that the threads are started with have a port, threads, a  *)
(* ceiling, clones and timeouts other than zero whatever is given, and are *)
(* what the modules of sessions and strands assume when no timeout and no  *)
(* limit below zero is given; and the command line goes before the file    *)
(* (main.cpp, run; configuration.cpp, the setters).                        *)
THEOREM SettingsStaySound == Spec => []SettingsSound
<1>1. MainInv => SettingsSound
  BY SettingsAreSound DEF MainInv
<1> QED BY <1>1, MainSafety, PTL

(* The reactor watches exactly the descriptors that are open, whatever the *)
(* order in which connections come, are replaced and close (reactor.cpp).  *)
THEOREM OpenIsWatched == Spec => []WatchesOpen
<1>1. MainInv => WatchesOpen
  BY DEF MainInv
<1> QED BY <1>1, MainSafety, PTL

(* No reload is lost or done twice, and there is always one statistics     *)
(* event (thetimer.cpp, loop_through_all_timer_event).                     *)
THEOREM EachEventOnce == Spec => []EventsOnce
<1>1. MainInv => EventsOnce
  BY DEF MainInv
<1> QED BY <1>1, MainSafety, PTL

(* The frames that two threads leave on one lua stack do not pile up       *)
(* (mylua.cpp, load_lua_scripts, run_lua_tests, lua_shell).                *)
THEOREM StackStaysBounded == Spec => []StackBounded
<1>1. MainInv => StackBounded
  BY StackIsBounded, MainParts
<1> QED BY <1>1, MainSafety, PTL

(* The machine is closed only when the worker is gone (mylua.cpp,          *)
(* one_shot_timer_event_handler, whose stop() joins).                      *)
THEOREM MachineClosedAlone == Spec => ClosedAlone
<1>1. MainInv /\ [Next]_vars => [reloads' # reloads => ~Inside]_vars
  BY ReloadsAlone, MainParts
<1> QED BY <1>1, MainSafety, PTL DEF Spec, ClosedAlone

=============================================================================
