------------------------------ MODULE Settings ------------------------------
(***************************************************************************)
(* The settings of the program: the defaults of class configuration, its   *)
(* setters, the options that readin() takes from the configuration file    *)
(* and run() from the command line, and what check_validity() accepts.     *)
(*                                                                         *)
(* The text of an option is the number it spells, in one way to spell it,  *)
(* or one of Words; texts that are names (an address, a path) are numbers  *)
(* too, and only compared.  Numbers are those that an int can hold.        *)
(***************************************************************************)
EXTENDS Integers

CONSTANTS
    NotANumber,   \* any other text that is no number
    Off,          \* the text "off"
    Unset,        \* the empty text, an option that was never set
    Cores,        \* boost::thread::hardware_concurrency()
    PortSpace     \* the range of unsigned short

ASSUME SettingsAssumption ==
    /\ Cores \in Nat
    /\ PortSpace \in Nat \ {0}
    /\ NotANumber # Unset /\ Off \notin {NotANumber, Unset}

\* the text of an option
Words == {NotANumber, Off, Unset}
Texts == Int \cup Words

HZ == 100

MainOptions == {"pcap_file_path", "dst_addr", "dst_port", "concurrency_limit",
                "onoff_random_port", "accidental_death_pcap_file_limit",
                "sniff_method", "asio_thrd_num"}
SessionOptions == {"session_count_limit", "response_from_peer_time_out",
                   "have_to_send_data_within_this_timeperiod",
                   "injecting_rt_traffic_timeout", "retransmit_time_interval",
                   "wait_for_fin_from_peer_time_out", "enable_active_close",
                   "clone"}
TestsuiteOptions == {"lua_scripts_home", "so_home"}
LogOptions == {"log_on", "duplicate_log_to_stdout"}
Options == MainOptions \cup SessionOptions \cup TestsuiteOptions \cup LogOptions

\* what run() passes on; -f stays in a global variable that run() hides
CommandLineOptions == {"dst_addr", "dst_port", "concurrency_limit",
                       "onoff_random_port"}

Names == {"pcap_file_path", "dst_addr", "lua_scripts_home", "so_home"}
\* options that only "0" turns off
Switches == {"enable_active_close", "log_on", "duplicate_log_to_stdout"}
\* timeouts read with strtol, which makes a zero of what is no number
Timeouts == {"response_from_peer_time_out",
             "have_to_send_data_within_this_timeperiod",
             "retransmit_time_interval", "wait_for_fin_from_peer_time_out"}
\* options read with lexical_cast, which throws at what is no number
Cast == {"session_count_limit", "injecting_rt_traffic_timeout", "clone",
         "asio_thrd_num"}

Strtol(text) == IF text \in Words THEN 0 ELSE text

Deduced(num) == IF num > 0 THEN num
                ELSE IF Cores - 1 < 2 THEN 2 ELSE Cores - 1

Defaults ==
    [o \in Options |->
        CASE o \in Names -> Unset
          [] o = "dst_port" -> 0
          [] o = "concurrency_limit" -> 1000
          [] o \in {"onoff_random_port", "log_on", "duplicate_log_to_stdout"} -> TRUE
          [] o = "accidental_death_pcap_file_limit" -> 100
          [] o = "sniff_method" -> "raw"
          [] o = "asio_thrd_num" -> Deduced(-1)
          [] o = "session_count_limit" -> 10000
          [] o \in {"response_from_peer_time_out",
                    "have_to_send_data_within_this_timeperiod"} -> 3 * HZ
          [] o = "injecting_rt_traffic_timeout" -> 4000
          [] o = "retransmit_time_interval" -> HZ \div 4
          [] o = "wait_for_fin_from_peer_time_out" -> 4 * HZ
          [] o = "enable_active_close" -> FALSE
          [] o = "clone" -> 0]

(***************************************************************************)
(* A setter ends the process (an assertion, an exception nobody catches)   *)
(* or stores a value.  An address that inet_aton refuses is stored too:    *)
(* the result tested for is one it never has.                              *)
(***************************************************************************)
Ends(o, text) ==
    \/ o \in Timeouts /\ Strtol(text) = 0
    \/ o \in Cast /\ text \in Words
    \/ o = "injecting_rt_traffic_timeout" /\ text = 0
    \/ o = "clone" /\ Strtol(text) < 0

Methods == <<"raw", "pcap", "tcp">>

Stored(o, text, old) ==
    CASE o \in Names -> text
      [] o \in Switches -> text # 0
      [] o = "onoff_random_port" -> text \notin {0, Off, Unset}
      [] o = "dst_port" -> Strtol(text) % PortSpace
      [] o = "sniff_method" -> IF text \in {1, 2, 3} THEN Methods[text] ELSE "raw"
      [] o = "asio_thrd_num" -> Deduced(text)
      [] o = "session_count_limit" -> IF text < 1 THEN old ELSE text
      [] OTHER -> Strtol(text)

\* the settings after the setters of the options that are given
After(settings, given) ==
    [o \in Options |-> IF o \in DOMAIN given
                       THEN Stored(o, given[o], settings[o])
                       ELSE settings[o]]

EndsAt(given) == \E o \in DOMAIN given : Ends(o, given[o])

\* an empty text on the command line is as none
Passed(args) == {o \in DOMAIN args \cap CommandLineOptions : args[o] # Unset}
FromCommandLine(args) == [o \in Passed(args) |-> args[o]]

\* a mutant: the port is not looked at
CheckAddressOnly(settings) == settings["dst_addr"] # Unset

CheckValidity(settings) ==
    /\ settings["dst_addr"] # Unset
    /\ settings["dst_port"] # 0

\* the ceiling of one strand's sessions
SessionLimitPerStrand(settings) ==
    LET share == settings["session_count_limit"] \div settings["asio_thrd_num"]
    IN IF share <= 0 THEN 1 ELSE share

\* What the setters and check_validity() make sure of, whatever is given.
\* That is not all the other modules assume: a timeout or a limit below zero
\* passes, and so does an address that is none.
Guaranteed(settings) ==
    /\ settings["dst_addr"] # Unset
    /\ settings["dst_port"] \in 1 .. (PortSpace - 1)
    /\ settings["asio_thrd_num"] \in Nat \ {0}
    /\ SessionLimitPerStrand(settings) \in Nat \ {0}
    /\ settings["clone"] \in Nat
    /\ \A o \in Timeouts \cup {"injecting_rt_traffic_timeout"} : settings[o] # 0

\* What the modules of sessions and strands assume of numbers (their
\* SessionAssumption and StrandAssumption), ...
Assumed(settings) ==
    /\ \A o \in Timeouts \cup {"injecting_rt_traffic_timeout"} :
           settings[o] \in Nat \ {0}
    /\ settings["concurrency_limit"] \in Nat

\* ... which rests on nothing below zero being given.
NonNegative(given) ==
    \A o \in DOMAIN given \cap
            (Timeouts \cup {"injecting_rt_traffic_timeout", "concurrency_limit"}) :
        Strtol(given[o]) >= 0
=============================================================================
