------------------------------ MODULE TestSuite ------------------------------
(***************************************************************************)
(* The test suite.  A session that ends reports its traffic, on the thread *)
(* of its strand; a worker judges the reports: it saves the traffic of a   *)
(* session that died by accident and has the lua scripts test that of one  *)
(* that was closed, if none is missing.  The console may reload the        *)
(* scripts: the main thread then stops the worker, makes new queues and    *)
(* starts another, while the strands keep reporting.                       *)
(*                                                                         *)
(* lua_scripts_home is set: without it there is no worker.                 *)
(***************************************************************************)
EXTENDS Integers, Sequences, FiniteSets

CONSTANTS
    Strands,    \* 0.._asio_thrd_num - 1
    Reports,    \* what the sessions of each strand will report, in order
    QueueLen,   \* capacity of _queue_jobs
    Garbage,    \* what an atomic_int that nobody initialises may hold
    FileLimit,  \* get_accidental_death_pcap_file_limit()
    MaxReloads  \* bound: how often the console reloads

Sides == {"server", "client"}
Packets == [from : Sides, syn : BOOLEAN, seq : Nat, len : Nat]
Jobs == [closed : BOOLEAN, traffic : Seq(Packets)]

Carries(p) == p.syn \/ p.len > 0
NextExpected(p) == p.seq + (IF p.syn THEN 1 ELSE p.len)

(***************************************************************************)
(* What the history of a session, sorted and without repetitions, looks    *)
(* like: the SYN of a side comes once and before its data, with none; and, *)
(* since the client's data is that of samples which sanitize() found to    *)
(* follow each other, none is missing where an empty packet of the client  *)
(* stands between two that are not.                                        *)
(***************************************************************************)
Follows(t, i, j) ==
    /\ i < j /\ t[i].from = t[j].from /\ Carries(t[i]) /\ Carries(t[j])
    /\ \A k \in (i + 1)..(j - 1) : t[k].from = t[i].from => ~Carries(t[k])

History(t) ==
    /\ \A i, j \in DOMAIN t :
           t[i].from = t[j].from /\ t[i].syn /\ Carries(t[j]) => t[i].len = 0 /\ i <= j
    /\ \A i, j \in DOMAIN t :
           /\ Follows(t, i, j) /\ t[i].from = "client"
           /\ \E k \in (i + 1)..(j - 1) : t[k].from = "client"
           => t[j].seq = NextExpected(t[i])

ASSUME TestSuiteAssumption ==
    /\ IsFiniteSet(Strands) /\ Strands # {}
    /\ Strands = 0..(Cardinality(Strands) - 1)
    /\ Reports \in [Strands -> Seq(Jobs)]
    /\ \A s \in Strands : \A n \in DOMAIN Reports[s] : History(Reports[s][n].traffic)
    /\ QueueLen \in Nat \ {0}
    /\ Garbage \subseteq Int /\ Garbage # {}
    /\ {FileLimit, MaxReloads} \subseteq Nat

VARIABLES
    reported,  \* how many sessions of each strand have reported
    reporter,  \* where report_sess_traffic is, on each strand
    queues,    \* _queue_jobs
    counts,    \* _queue_counts
    worker,    \* where run_worker is
    turn,      \* its i
    busy,      \* have_jobs_done
    hand,      \* the job it has popped
    judged,    \* the jobs of each strand it is done with, and how
    files,     \* saved_traffic_files_counter
    done,      \* _done
    main,      \* where the main thread is in a reload
    reloads,   \* reloads that the console has asked for and not got yet
    asked,     \* how many it has asked for
    dropped    \* jobs that found a full queue or were thrown away with one

strands == <<reported, reporter>>
work == <<worker, turn, busy, hand, judged, files>>
reload == <<main, reloads, asked>>
vars == <<strands, queues, counts, work, done, reload, dropped>>

\* values of main but for the index of the queue that ready_go replaces next
Polling == -1
Joining == -2

Init ==
    /\ reported = [s \in Strands |-> 0]
    /\ reporter = [s \in Strands |-> "idle"]
    /\ queues = [s \in Strands |-> <<>>]
    /\ counts \in [Strands -> Garbage]
    /\ worker = "testing" /\ turn = 0 /\ busy = FALSE /\ hand = <<>>
    /\ judged = [s \in Strands |-> <<>>] /\ files = 0
    /\ done = FALSE
    /\ main = Polling /\ reloads = 0 /\ asked = 0
    /\ dropped = [s \in Strands |-> {}]

(***************************************************************************)
(* report_sess_traffic: push, count, and wake the worker if the count is   *)
(* one or less.                                                            *)
(***************************************************************************)

Report(s) ==
    /\ reporter[s] = "idle" /\ reported[s] < Len(Reports[s])
    /\ reported' = [reported EXCEPT ![s] = @ + 1]
    /\ \/ /\ Len(queues[s]) < QueueLen
          /\ queues' = [queues EXCEPT ![s] = Append(@, reported[s] + 1)]
          /\ reporter' = [reporter EXCEPT ![s] = "counting"]
          /\ UNCHANGED dropped
       \/ /\ Len(queues[s]) = QueueLen
          /\ dropped' = [dropped EXCEPT ![s] = @ \cup {reported[s] + 1}]
          /\ UNCHANGED <<queues, reporter>>
    /\ UNCHANGED <<counts, work, done, reload>>

Count(s) ==
    /\ reporter[s] = "counting"
    /\ counts' = [counts EXCEPT ![s] = @ + 1]
    /\ reporter' = [reporter EXCEPT ![s] = "notifying"]
    /\ UNCHANGED <<reported, queues, work, done, reload, dropped>>

Notify(s) ==
    /\ reporter[s] = "notifying"
    /\ reporter' = [reporter EXCEPT ![s] = "idle"]
    /\ worker' = IF counts[s] <= 1 /\ worker = "asleep" THEN "testing" ELSE worker
    /\ UNCHANGED <<reported, queues, counts, turn, busy, hand, judged, files, done,
                   reload, dropped>>

(***************************************************************************)
(* split_traffic, on the sorted traffic: does every packet with data       *)
(* continue what the same side sent before it?  Of the server's packets    *)
(* those without data are passed over, of the client's they are not.       *)
(***************************************************************************)
SetsExpected(p) == Carries(p) \/ p.from = "client"

Continues(t, i) ==
    \E j \in 1..(i - 1) :
        /\ t[j].from = t[i].from /\ SetsExpected(t[j])
        /\ \A k \in (j + 1)..(i - 1) : ~(t[k].from = t[i].from /\ SetsExpected(t[k]))
        /\ NextExpected(t[j]) = t[i].seq

SplitRequestsOnly(t) ==
    \A i \in DOMAIN t : (t[i].from = "client" /\ ~t[i].syn /\ t[i].len > 0) => Continues(t, i)
SplitTraffic(t) ==
    \A i \in DOMAIN t : (~t[i].syn /\ t[i].len > 0) => Continues(t, i)

(***************************************************************************)
(* run_worker: one job of each queue per round.                            *)
(***************************************************************************)
BeginsRound ==
    /\ worker = "testing"
    /\ worker' = IF done THEN "ended" ELSE "popping"
    /\ turn' = 0 /\ busy' = FALSE
    /\ UNCHANGED <<strands, queues, counts, hand, judged, files, done, reload, dropped>>

PopsNothing ==
    /\ worker = "popping" /\ turn \in Strands /\ queues[turn] # <<>>
    /\ hand' = <<Head(queues[turn])>>
    /\ worker' = "popped"
    /\ UNCHANGED <<strands, queues, counts, turn, busy, judged, files, done, reload, dropped>>

Pops ==
    /\ worker = "popping" /\ turn \in Strands /\ queues[turn] # <<>>
    /\ hand' = <<Head(queues[turn])>>
    /\ queues' = [queues EXCEPT ![turn] = Tail(@)]
    /\ worker' = "popped"
    /\ UNCHANGED <<strands, counts, turn, busy, judged, files, done, reload, dropped>>

PassesQueue ==
    /\ worker = "popping" /\ turn \in Strands /\ queues[turn] = <<>>
    /\ turn' = turn + 1
    /\ UNCHANGED <<strands, queues, counts, worker, busy, hand, judged, files, done, reload,
                   dropped>>

Uncounts ==
    /\ worker = "popped"
    /\ counts' = [counts EXCEPT ![turn] = @ - 1]
    /\ busy' = TRUE
    /\ worker' = "judging"
    /\ UNCHANGED <<strands, queues, turn, hand, judged, files, done, reload, dropped>>

\* save_traffic: a file counts even if it cannot be opened
SaveTraffic == IF files < FileLimit THEN {"saved", "unsaved"} ELSE {"ignored"}

Verdict(job) ==
    IF ~job.closed THEN SaveTraffic
    ELSE IF SplitTraffic(job.traffic) THEN {"tested"} ELSE {"incomplete"}

Judges ==
    /\ worker = "judging"
    /\ \E v \in Verdict(Reports[turn][hand[1]]) :
           /\ judged' = [judged EXCEPT ![turn] = Append(@, <<hand[1], v>>)]
           /\ files' = IF v \in {"saved", "unsaved"} THEN files + 1 ELSE files
    /\ hand' = <<>>
    /\ worker' = "popping" /\ turn' = turn + 1
    /\ UNCHANGED <<strands, queues, counts, busy, done, reload, dropped>>

EndsRound ==
    /\ worker = "popping" /\ turn \notin Strands
    /\ worker' = IF busy \/ done THEN "testing" ELSE "empty"
    /\ UNCHANGED <<strands, queues, counts, turn, busy, hand, judged, files, done, reload,
                   dropped>>

\* between the pops that failed and the sleep a notification is missed
FallsAsleep ==
    /\ worker = "empty"
    /\ worker' = "asleep"
    /\ UNCHANGED <<strands, queues, counts, turn, busy, hand, judged, files, done, reload,
                   dropped>>

NeverTimedOut == FALSE /\ UNCHANGED vars

\* timed_wait, one second
TimedOut ==
    /\ worker = "asleep"
    /\ worker' = "testing"
    /\ UNCHANGED <<strands, queues, counts, turn, busy, hand, judged, files, done, reload,
                   dropped>>

(***************************************************************************)
(* reload_testsuite, a command of the console, is a timer event; its       *)
(* handler runs stop(), restarts lua, and runs ready_go().                 *)
(***************************************************************************)
AsksForReload ==
    /\ main = Polling /\ asked < MaxReloads
    /\ asked' = asked + 1 /\ reloads' = reloads + 1
    /\ UNCHANGED <<strands, queues, counts, work, done, main, dropped>>

Stops ==
    /\ main = Polling /\ reloads > 0
    /\ done' = TRUE
    /\ main' = Joining
    /\ UNCHANGED <<strands, queues, counts, work, reloads, asked, dropped>>

Joins ==
    /\ main = Joining /\ worker = "ended"
    /\ done' = FALSE
    /\ main' = 0
    /\ UNCHANGED <<strands, queues, counts, work, reloads, asked, dropped>>

\* ready_go: the queues are replaced one after the other, with their jobs
ResetsQueue(s) ==
    /\ main = s
    /\ queues' = [queues EXCEPT ![s] = <<>>]
    /\ dropped' = [dropped EXCEPT ![s] = @ \cup {queues[s][i] : i \in DOMAIN queues[s]}]
    /\ \E n \in Garbage : counts' = [counts EXCEPT ![s] = n]
    /\ main' = s + 1
    /\ UNCHANGED <<strands, work, done, reloads, asked>>

StartsWorker ==
    /\ main = Cardinality(Strands)
    /\ worker' = "testing"
    /\ main' = Polling /\ reloads' = reloads - 1
    /\ UNCHANGED <<strands, queues, counts, turn, busy, hand, judged, files, done, asked,
                   dropped>>

-----------------------------------------------------------------------------
Worker == BeginsRound \/ Pops \/ PassesQueue \/ Uncounts \/ Judges \/ EndsRound
          \/ FallsAsleep \/ TimedOut
Reload == Stops \/ Joins \/ (\E s \in Strands : ResetsQueue(s)) \/ StartsWorker

Next == \/ \E s \in Strands : Report(s) \/ Count(s) \/ Notify(s)
        \/ Worker \/ AsksForReload \/ Reload

Spec == Init /\ [][Next]_vars

(***************************************************************************)
(* The threads run; sessions need not end and nobody has to reload.        *)
(***************************************************************************)
Fairness ==
    /\ WF_vars(Worker) /\ WF_vars(Reload)
    /\ \A s \in Strands : WF_vars(Count(s) \/ Notify(s))

FairSpec == Spec /\ Fairness

-----------------------------------------------------------------------------
Verdicts == {"saved", "unsaved", "ignored", "tested", "incomplete"}

StrandsTyped ==
    /\ reported \in [Strands -> Nat]
    /\ reporter \in [Strands -> {"idle", "counting", "notifying"}]
    /\ queues \in [Strands -> Seq(Nat)] /\ counts \in [Strands -> Int]
    /\ dropped \in [Strands -> SUBSET Nat]
    /\ \A s \in Strands :
           /\ reported[s] <= Len(Reports[s]) /\ Len(queues[s]) <= QueueLen
           /\ dropped[s] \subseteq 1..reported[s]

WorkerTyped ==
    /\ worker \in {"testing", "popping", "popped", "judging", "empty", "asleep", "ended"}
    /\ turn \in 0..Cardinality(Strands) /\ busy \in BOOLEAN
    /\ hand \in Seq(Nat) /\ Len(hand) <= 1
    /\ hand # <<>> <=> worker \in {"popped", "judging"}
    /\ hand # <<>> => turn \in Strands
    /\ judged \in [Strands -> Seq(Nat \X Verdicts)]
    /\ files \in 0..FileLimit

ReloadTyped ==
    /\ done \in BOOLEAN
    /\ main \in {Polling, Joining} \cup 0..Cardinality(Strands)
    /\ reloads \in 0..asked /\ asked \in 0..MaxReloads

TypeOK == StrandsTyped /\ WorkerTyped /\ ReloadTyped

(***************************************************************************)
(* However strands, worker and reloads interleave, a session is judged     *)
(* once at most, in the order of the reports of its strand, and every one  *)
(* that reported is judged, in a queue, in the worker's hand, or known to  *)
(* have been dropped.                                                      *)
(***************************************************************************)
Passed(s) == [i \in 1..Len(judged[s]) |-> judged[s][i][1]]
             \o (IF turn = s THEN hand ELSE <<>>) \o queues[s]

Accounted ==
    \A s \in Strands :
        /\ \A i, j \in 1..Len(Passed(s)) : i < j => Passed(s)[i] < Passed(s)[j]
        /\ {Passed(s)[i] : i \in 1..Len(Passed(s))} = (1..reported[s]) \ dropped[s]

\* The reports are accounted for (testsuite.cpp), beside the types.
ReportsKept == TypeOK /\ Accounted

\* the bytes of one packet, and of all packets of a side
Data(t, side) == {k \in DOMAIN t : t[k].from = side /\ t[k].len > 0}
Bytes(p) == p.seq .. (p.seq + p.len - 1)
AllBytes(t, side) == UNION {Bytes(t[k]) : k \in Data(t, side)}

Whole(t) ==
    \A side \in Sides : \A k \in DOMAIN t :
        t[k].from = side /\ t[k].syn =>
            /\ AllBytes(t, side) =
                  (t[k].seq + 1) .. (t[k].seq + Cardinality(AllBytes(t, side)))
            /\ \A m, n \in Data(t, side) : m # n => Bytes(t[m]) \cap Bytes(t[n]) = {}

(***************************************************************************)
(* What the scripts are given is whole: of either side, every byte from    *)
(* the handshake to the last is there, and once only.                      *)
(***************************************************************************)
TestedWhole ==
    \A s \in Strands : \A i \in DOMAIN judged[s] :
        judged[s][i][2] = "tested" =>
            Whole(Reports[s][judged[s][i][1]].traffic)

-----------------------------------------------------------------------------
\* What makes them inductive: a reload that is under way was asked for and goes
\* on only when the worker has ended, and only split traffic is tested.
JoinsFirst ==
    /\ main # Polling => reloads > 0
    /\ main >= 0 => worker = "ended"

TestedIsSplit ==
    \A s \in Strands : \A i \in 1..Len(judged[s]) :
        judged[s][i][2] = "tested" => SplitTraffic(Reports[s][judged[s][i][1]].traffic)

SuiteInv == ReportsKept /\ JoinsFirst /\ TestedIsSplit

(***************************************************************************)
(* A report is judged or dropped in the end though a notification may be   *)
(* missed and the counts may be anything, and a reload that was asked for  *)
(* ends: the main thread does not wait for the worker for ever.            *)
(***************************************************************************)
Judged ==
    /\ \A s \in Strands : \A n \in DOMAIN Reports[s] :
           reported[s] >= n ~> n \in dropped[s] \cup {judged[s][i][1] : i \in DOMAIN judged[s]}
    /\ reloads > 0 ~> reloads = 0

=============================================================================
