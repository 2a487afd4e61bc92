---------------------------- MODULE MCMainLoop -----------------------------
(***************************************************************************)
(* An instance of MainLoop for TLC: configuration files and command lines  *)
(* that a check accepts and refuses, an operator who connects twice.       *)
(***************************************************************************)
EXTENDS MainLoop, TLC

TwoClients == {"first", "second"}
OneScript == {"script"}

\* the second connection replaces the first, and may hang up
FirstTypes == "first" :> 2 @@ "second" :> 0

\* a reload leaves a string
NothingOrTable == {<<>>, <<"table">>}

Address == 7
Home == 8
Path == 9

Nothing == <<>>
Complete == "dst_addr" :> Address @@ "dst_port" :> 80
\* a ceiling smaller than the number of strands
Scripted == Complete @@ "lua_scripts_home" :> Home @@ "asio_thrd_num" :> 4
                     @@ "session_count_limit" :> 1
\* values that the setters reject or replace
TooSmall == Complete @@ "session_count_limit" :> 0 @@ "asio_thrd_num" :> -1
                     @@ "concurrency_limit" :> -1 @@ "onoff_random_port" :> 0
NoTimeout == Complete @@ "response_from_peer_time_out" :> NotANumber
NoLimit == Complete @@ "session_count_limit" :> NotANumber
NegativeClone == Complete @@ "clone" :> -1
WidePort == Complete @@ "dst_port" :> 65536 @@ "sniff_method" :> 3
                      @@ "onoff_random_port" :> Off

Elsewhere == "dst_port" :> 8080 @@ "pcap_file_path" :> Path
                               @@ "concurrency_limit" :> Unset
NoPort == "dst_port" :> 0

Starts == {<<Nothing, Nothing>>, <<Nothing, NoPort>>, <<WidePort, Nothing>>,
           <<NoTimeout, Complete>>, <<NoLimit, Complete>>,
           <<NegativeClone, Complete>>, <<Scripted, NoPort>>,
           <<TooSmall, Nothing>>, <<Scripted, Elsewhere>>}
=============================================================================
