------------------------------- MODULE Strand -------------------------------
(***************************************************************************)
(* One asio strand: the session manager that collects captured packets     *)
(* into sessions, the postoffice that polls the collected sessions, and    *)
(* the timers that give up on sessions that stay incomplete.               *)
(*                                                                         *)
(* politburo::post_the_jobs injects, sends, receives and posts itself      *)
(* again; timer handlers run between two jobs.  What a session sends and   *)
(* how it answers is module TcpSession; here a poll or a packet may end it.*)
(***************************************************************************)
EXTENDS Integers, Sequences, FiniteSets, SequencesExt, Selections

CONSTANTS
    Keys,              \* session keys: client ip and port
    Offline,           \* the keys of the sessions in the pcap file
    NextIp,            \* next_avail_ip, as a function on keys
    Clones,            \* g_configuration.get_clone()
    SessionLimit,      \* _session_count_limit of this strand
    ExpectedQps,       \* _expected_qps
    ConcurrencyLimit,  \* g_configuration.get_concurrency_limit()
    Threads            \* _asio_thrd_num

ASSUME StrandAssumption ==
    /\ IsFiniteSet(Keys)
    /\ Offline \subseteq Keys
    /\ NextIp \in [Keys -> Keys]
    /\ Clones \in Nat
    /\ SessionLimit \in Nat \ {0}
    /\ ExpectedQps \in Nat
    /\ ConcurrencyLimit \in Nat
    /\ Threads \in Nat \ {0}

VARIABLES
    life,      \* "none" for a key without session
    got,       \* the parts an accumulating session has collected
    quiet,     \* sessions without injected packets for longer than the timeout
    timer,     \* sessions whose deadline timer is waiting
    handlers,  \* expired handlers on the strand that no cancel can stop
    dangling,  \* is such a handler bound to a session that has been erased?
    order,     \* _callbacks, first registered first
    healthy,   \* _healthy_sess_count
    jam,       \* _traffic_jam
    pc,        \* where the strand is in its job
    cursor,    \* the iterator of the sending loop
    polled,    \* concurrency_num
    started    \* sessions that have been polled while alive

manager == <<life, got, healthy, jam>>
clock == <<quiet, timer, handlers, dangling>>
loop == <<cursor, polled>>
vars == <<manager, clock, order, pc, loop, started>>

Parts == {"syn", "data", "fin"}
Twice == {"twice"}   \* a SYN or data came twice: never sane from then on
HandlersBound == 2   \* handlers of one session queued at the same time
UndercountBound == 1 \* how far healthy may fall below the sessions alive

Lives == {"none", "loaded", "accumulating", "abort", "abortDead",
          "alive", "resetting", "dying"}

(***************************************************************************)
(* How many sessions one pass polls.                                       *)
(***************************************************************************)
PassLimit == IF ConcurrencyLimit = 1 THEN 1
             ELSE (ConcurrencyLimit + Threads) \div Threads

Sessions == {k \in Keys : life[k] # "none"}
Alive == {k \in Keys : life[k] = "alive"}
Accumulating == {k \in Keys : life[k] = "accumulating"}

Init ==
    /\ life = [k \in Keys |-> "none"]
    /\ got = [k \in Keys |-> {}]
    /\ quiet = {} /\ timer = {}
    /\ handlers = [k \in Keys |-> 0] /\ dangling = FALSE
    /\ order = <<>>
    /\ healthy = 0 /\ jam = FALSE
    /\ pc = "load" /\ cursor = 1 /\ polled = 0
    /\ started = {}

(***************************************************************************)
(* A session goes: its timer goes with it, its queued handlers do not.     *)
(***************************************************************************)
Erase(k) ==
    /\ life' = [life EXCEPT ![k] = "none"]
    /\ got' = [got EXCEPT ![k] = {}]
    /\ quiet' = quiet \ {k}
    /\ timer' = timer \ {k}
    /\ handlers' = [handlers EXCEPT ![k] = 0]
    /\ dangling' = (dangling \/ handlers[k] > 0)
    /\ started' = started \ {k}

(***************************************************************************)
(* Loading a pcap file, before the strand runs.                            *)
(***************************************************************************)
DispatchIpPkt(k) ==
    /\ pc = "load"
    /\ life[k] = "none"
    /\ life' = [life EXCEPT ![k] = "loaded"]
    /\ order' = Append(order, k)
    /\ UNCHANGED <<got, healthy, jam, clock, pc, loop, started>>

CleanSickSession(sick) ==
    /\ pc = "load"
    /\ life' = [k \in Keys |-> IF k \in sick THEN "none" ELSE life[k]]
    /\ order' = Selected(order, Keys \ sick)
    /\ pc' = "ready"
    /\ UNCHANGED <<got, healthy, jam, clock, loop, started>>

GetReady ==
    /\ pc = "ready"
    /\ life' = [k \in Keys |-> IF life[k] = "loaded" THEN "alive" ELSE life[k]]
    /\ healthy' = Cardinality(Sessions)
    /\ jam' = FALSE
    /\ pc' = "posted"
    /\ UNCHANGED <<got, clock, order, loop, started>>

(***************************************************************************)
(* The injecting part of a job.                                            *)
(***************************************************************************)
StartJob ==
    /\ pc = "posted"
    /\ pc' = "inject"
    /\ UNCHANGED <<manager, clock, order, loop, started>>

EndInject ==
    /\ pc = "inject"
    /\ pc' = "send" /\ cursor' = 1 /\ polled' = 0
    /\ UNCHANGED <<manager, clock, order, started>>

JamAboveLimit ==
    IF Cardinality(Sessions) > SessionLimit THEN TRUE
    ELSE jam /\ healthy > 3 * ExpectedQps

JamAfter ==
    IF Cardinality(Sessions) >= SessionLimit THEN TRUE
    ELSE jam /\ healthy > 3 * ExpectedQps

\* the samples after one more packet; a repeated FIN is cut off by sanitize
Collected(g, part) ==
    IF g = Twice \/ part = "ack" THEN g
    ELSE IF part \in g /\ part # "fin" THEN Twice
    ELSE g \cup {part}

\* sanitize: one SYN, every data packet once, a FIN
Sane(g) == g = Parts

\* the keys clone_sessions adds for k, up to the first that is taken
ClonesOf(k, taken) ==
    LET chain[i \in 0..Clones] == IF i = 0 THEN k ELSE NextIp[chain[i - 1]]
        Free(n) == \A i \in 1..n : /\ chain[i] \notin taken
                                   /\ \A j \in 1..(i - 1) : chain[i] # chain[j]
        num == CHOOSE n \in 0..Clones :
                   Free(n) /\ \A m \in 0..Clones : Free(m) => m <= n
    IN  [i \in 1..num |-> chain[i]]

\* a packet that no session accepts
Ignored(k, part) ==
    \/ part = "server"
    \/ life[k] = "none" /\ JamAfter
    \/ life[k] \notin {"none", "accumulating"}

InjectIgnored(k, part) ==
    /\ Ignored(k, part)
    /\ UNCHANGED <<life, got, healthy, clock, order, started>>

InjectRst(k) ==
    /\ ~Ignored(k, "rst")
    /\ life' = [life EXCEPT ![k] = "abort"]
    /\ order' = Append(order, k)
    /\ got' = [got EXCEPT ![k] = {}]
    /\ quiet' = quiet \ {k}
    /\ timer' = IF life[k] = "none" THEN timer \cup {k} ELSE timer
    /\ UNCHANGED <<handlers, dangling, healthy, started>>

InjectPart(k, part) ==
    LET g == Collected(got[k], part)
        clones == ClonesOf(k, Sessions \cup {k})
    IN  /\ ~Ignored(k, part)
        /\ quiet' = quiet \ {k}
        /\ \/ /\ Sane(g)
              /\ life' = [j \in Keys |-> IF j = k \/ j \in Range(clones)
                                         THEN "alive" ELSE life[j]]
              /\ got' = [got EXCEPT ![k] = {}]
              /\ timer' = timer \ {k}
              /\ order' = Append(order, k) \o clones
              /\ healthy' = healthy + 1 + Len(clones)
           \/ /\ ~Sane(g)
              /\ life' = [life EXCEPT ![k] = "accumulating"]
              /\ got' = [got EXCEPT ![k] = g]
              /\ timer' = IF life[k] = "none" THEN timer \cup {k} ELSE timer
              /\ UNCHANGED <<order, healthy>>
        /\ UNCHANGED <<handlers, dangling, started>>

Inject(k, part) ==
    /\ pc = "inject"
    /\ jam' = JamAfter
    /\ \/ InjectIgnored(k, part)
       \/ part = "rst" /\ InjectRst(k)
       \/ part \in Parts \cup {"ack"} /\ InjectPart(k, part)
    /\ UNCHANGED <<pc, loop>>

(***************************************************************************)
(* The sending part of a job: send_packets_to_wire.                        *)
(***************************************************************************)

Polling(k, lives) ==
    /\ pc = "send"
    /\ cursor <= Len(order) /\ polled < PassLimit
    /\ k = order[cursor]
    /\ life[k] \in lives

PollEndedStaysListed(k) ==
    /\ Polling(k, {"abort", "abortDead", "dying"})
    /\ Erase(k)
    /\ UNCHANGED <<order, healthy, jam, pc, loop>>

\* the session is asked to go and the pass moves on without counting it
PollEnded(k) ==
    /\ Polling(k, {"abort", "abortDead", "dying"})
    /\ Erase(k)
    /\ order' = RemoveAt(order, cursor)
    /\ UNCHANGED <<healthy, jam, pc, loop>>

\* every packet returned was due and was taken by the postman
Next1 == cursor' = cursor + 1 /\ polled' = polled + 1 /\ pc' = "send"

\* a packet was not due, or was refused: the pass is over
Stop == pc' = "recv" /\ UNCHANGED loop

PollResettingAgain(k) ==
    /\ Polling(k, {"resetting"})
    /\ Next1 \/ Stop
    /\ UNCHANGED <<manager, clock, order, started>>

PollResetting(k) ==
    /\ Polling(k, {"resetting"})
    /\ life' = [life EXCEPT ![k] = "dying"]
    /\ Next1 \/ Stop
    /\ UNCHANGED <<got, healthy, jam, clock, order, started>>

PollAlive(k) ==
    /\ Polling(k, {"alive"})
    /\ started' = started \cup {k}
    /\ Next1 \/ Stop
    /\ UNCHANGED <<manager, clock, order>>

PollKillsUncounted(k) ==
    /\ Polling(k, {"alive"})
    /\ \/ life' = [life EXCEPT ![k] = "resetting"] /\ Next1
       \/ life' = [life EXCEPT ![k] = "dying"] /\ (Next1 \/ Stop)
    /\ started' = started \cup {k}
    /\ UNCHANGED <<got, healthy, jam, clock, order>>

\* kill_me inside pls_send_these_packets; a reset to come returns no packets
PollKills(k) ==
    /\ Polling(k, {"alive"})
    /\ \/ life' = [life EXCEPT ![k] = "resetting"] /\ Next1
       \/ life' = [life EXCEPT ![k] = "dying"] /\ (Next1 \/ Stop)
    /\ healthy' = healthy - 1
    /\ started' = started \cup {k}
    /\ UNCHANGED <<got, jam, clock, order>>

PassDone ==
    /\ pc = "send"
    /\ cursor > Len(order) \/ polled >= PassLimit
    /\ pc' = "recv"
    /\ UNCHANGED <<manager, clock, order, loop, started>>

(***************************************************************************)
(* The receiving part of a job: a packet of the test server may end the    *)
(* session it is for; kill_me does not ask whether it was ever counted.    *)
(***************************************************************************)
RecvKills(k) ==
    /\ pc = "recv"
    /\ \/ life[k] = "alive"
       \/ life[k] = "abort" /\ Cardinality(Alive) - healthy < UndercountBound
    /\ life' = [life EXCEPT ![k] = IF @ = "alive" THEN "dying" ELSE "abortDead"]
    /\ healthy' = healthy - 1
    /\ UNCHANGED <<got, jam, clock, order, pc, loop, started>>

EndRecv ==
    /\ pc = "recv"
    /\ pc' = "posted"
    /\ UNCHANGED <<manager, clock, order, loop, started>>

(***************************************************************************)
(* Timers.  Expiry queues a handler on the strand at any time; handlers    *)
(* run between two jobs.                                                   *)
(***************************************************************************)
TimerExpires(k) ==
    /\ k \in timer
    /\ handlers[k] < HandlersBound
    /\ timer' = timer \ {k}
    /\ handlers' = [handlers EXCEPT ![k] = @ + 1]
    /\ UNCHANGED <<manager, quiet, dangling, order, pc, loop, started>>

BecomesQuiet(k) ==
    /\ k \in Accumulating
    /\ quiet' = quiet \cup {k}
    /\ UNCHANGED <<manager, timer, handlers, dangling, order, pc, loop, started>>

CheckTimeoutOnce(k) ==
    \/ /\ ~(k \in Accumulating /\ k \in quiet)
       /\ UNCHANGED <<life, got, quiet, timer, order>>
    \/ /\ k \in Accumulating /\ k \in quiet
       /\ life' = [life EXCEPT ![k] = "abort"]
       /\ got' = [got EXCEPT ![k] = {}]
       /\ quiet' = quiet \ {k}
       /\ order' = Append(order, k)
       /\ UNCHANGED timer

\* injecting_rt_traffic_timeout_checker on the session of k
CheckTimeout(k) ==
    \/ /\ k \notin Accumulating
       /\ UNCHANGED <<life, got, quiet, timer, order>>
    \/ /\ k \in Accumulating /\ k \in quiet
       /\ life' = [life EXCEPT ![k] = "abort"]
       /\ got' = [got EXCEPT ![k] = {}]
       /\ quiet' = quiet \ {k}
       /\ order' = Append(order, k)
       /\ UNCHANGED timer
    \/ /\ k \in Accumulating /\ k \notin quiet
       /\ timer' = timer \cup {k}
       /\ UNCHANGED <<life, got, quiet, order>>

RunTimer(k) ==
    /\ pc = "posted"
    /\ handlers[k] > 0
    /\ handlers' = [handlers EXCEPT ![k] = @ - 1]
    /\ CheckTimeout(k)
    /\ UNCHANGED <<dangling, healthy, jam, pc, loop, started>>

\* The handler's session is gone.  It reads the freed memory: the state of
\* the erased session, which makes it return, or that of a session that has
\* been put in the same place.
RunDangling ==
    /\ pc = "posted"
    /\ dangling
    /\ dangling' = FALSE
    /\ \/ UNCHANGED <<life, got, quiet, timer, order>>
       \/ \E k \in Accumulating : CheckTimeout(k)
    /\ UNCHANGED <<handlers, healthy, jam, pc, loop, started>>

-----------------------------------------------------------------------------
Injected == Parts \cup {"ack", "rst", "server"}

Load == \/ \E k \in Offline : DispatchIpPkt(k)
        \/ \E sick \in SUBSET Sessions : CleanSickSession(sick)
        \/ GetReady

SendPass == \/ \E k \in Keys : \/ PollEnded(k) \/ PollResetting(k)
                               \/ PollAlive(k) \/ PollKills(k)
            \/ PassDone

Timers == \/ \E k \in Keys : \/ TimerExpires(k) \/ BecomesQuiet(k)
                             \/ RunTimer(k)
          \/ RunDangling

Next ==
    \/ Load
    \/ StartJob \/ EndInject
    \/ \E k \in Keys, part \in Injected : Inject(k, part)
    \/ SendPass
    \/ \E k \in Keys : RecvKills(k)
    \/ EndRecv
    \/ Timers

Spec == Init /\ [][Next]_vars

(***************************************************************************)
(* The strand always runs its next step; a strand is first in first out,   *)
(* so a handler is run between two of the jobs that keep being posted.     *)
(* A session that is polled again and again is done in the end, which is   *)
(* what module TcpSession shows of it, and its packets are due again and   *)
(* again.                                                                  *)
(***************************************************************************)
Fairness ==
    /\ WF_vars(\E sick \in SUBSET Sessions : CleanSickSession(sick))
    /\ WF_vars(GetReady) /\ WF_vars(StartJob) /\ WF_vars(EndInject)
    /\ WF_vars(SendPass) /\ WF_vars(EndRecv)
    /\ \A k \in Keys :
           /\ SF_vars(PollKills(k))
           /\ WF_vars(TimerExpires(k)) /\ WF_vars(BecomesQuiet(k))
           /\ SF_vars(RunTimer(k))

FairSpec == Spec /\ Fairness

-----------------------------------------------------------------------------
TypeOK ==
    /\ life \in [Keys -> Lives]
    /\ got \in [Keys -> (SUBSET Parts) \cup {Twice}]
    /\ quiet \subseteq Accumulating
    /\ timer \subseteq Sessions
    /\ handlers \in [Keys -> 0..HandlersBound]
    /\ dangling \in BOOLEAN
    /\ order \in Seq(Keys)
    /\ healthy \in Int
    /\ jam \in BOOLEAN
    /\ pc \in {"load", "ready", "posted", "inject", "send", "recv"}
    /\ cursor \in 1..(Len(order) + 1)
    /\ polled \in Nat
    /\ started \subseteq Sessions

(***************************************************************************)
(* The two registries agree: the postoffice calls exactly the sessions of  *)
(* the manager that have stopped accumulating, and each of them once.  It  *)
(* holds raw pointers, so one entry too many is a call into freed memory   *)
(* and one too few a session that is never erased.                         *)
(***************************************************************************)
RegistryAgrees ==
    /\ Range(order) = Sessions \ Accumulating
    /\ \A i, j \in 1..Len(order) : order[i] = order[j] => i = j

(***************************************************************************)
(* _healthy_sess_count never counts a session that is gone: traffic        *)
(* control lifts the jam when it is low, and would never lift it again.    *)
(***************************************************************************)
HealthyNotOver == healthy <= Cardinality(Alive) \/ pc = "load"

(***************************************************************************)
(* A session that accumulates is watched: its timer is waiting or its      *)
(* handler is on the strand, whatever cancelled, re-armed or dangled.      *)
(***************************************************************************)
Watched == \A k \in Accumulating : k \in timer \/ handlers[k] > 0

(***************************************************************************)
(* Captured traffic never makes more sessions than the ceiling allows, the *)
(* clones apart: a session that completes is cloned whether or not there   *)
(* is a jam, so each place below the ceiling may become Clones + 1.        *)
(***************************************************************************)
SessionCeiling ==
    Cardinality(Sessions \ Offline) <= SessionLimit * (Clones + 1)

(***************************************************************************)
(* The replay is first come first served: the sessions on the wire are     *)
(* among the PassLimit oldest, so no more than that are open at a time.    *)
(***************************************************************************)
StartedFirst ==
    \A k \in started : \E i \in 1..Len(order) : i <= PassLimit /\ order[i] = k

\* The limits of a strand, on sessions and on connections, beside the types.
Limits == TypeOK /\ SessionCeiling /\ StartedFirst

\* What the invariants above rest on.  Before the strand runs nothing but
\* loading has happened, and afterwards nothing is left of that.
Phases ==
    /\ pc \in {"load", "ready"} => /\ \A k \in Keys : life[k] \in {"none", "loaded"}
                                   /\ timer = {} /\ started = {}
                                   /\ cursor = 1 /\ healthy = 0
    /\ pc \notin {"load", "ready"} => \A k \in Keys : life[k] # "loaded"

\* Only sessions that accumulate have collected anything.
NothingLeft == \A k \in Keys : got[k] # {} => k \in Accumulating

\* A pass goes over one registration for each session that it counts: those
\* it does not count, it removes.
InStep == pc = "send" => cursor = polled + 1

\* The clones that the accumulating sessions may still get are within what
\* the ceiling allows.
RoomForClones ==
    Cardinality(Sessions \ Offline) + Clones * Cardinality(Accumulating)
        <= SessionLimit * (Clones + 1)

StrandInv ==
    /\ TypeOK /\ Phases /\ NothingLeft /\ InStep
    /\ RegistryAgrees /\ Watched /\ StartedFirst
    /\ HealthyNotOver /\ RoomForClones

(***************************************************************************)
(* A session that stays incomplete does not stay for ever: packets are     *)
(* injected for it again and again, or it is completed or given up.        *)
(***************************************************************************)
Abandoned ==
    \A k \in Keys :
        \/ k \in Accumulating ~> k \notin Accumulating
        \/ []<><<\E part \in Injected : Inject(k, part)>>_vars

(***************************************************************************)
(* Every session the postoffice calls is erased in the end, behind         *)
(* whichever others it waits.                                              *)
(***************************************************************************)
Drained ==
    \A k \in Keys : (pc # "load" /\ k \in Range(order)) ~> k \notin Sessions

=============================================================================
