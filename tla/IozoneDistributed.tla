-------------------------- MODULE IozoneDistributed --------------------------
(***************************************************************************)
(* programs/iozone/.../iozone.c, the distributed mode (-+m): the master    *)
(* starts one client per child over a remote shell, hands it its work,     *)
(* stops all clients on a barrier and collects their results.  Clients     *)
(* answer over datagrams; the master talks to each client over two stream  *)
(* connections, one read by the client itself and one by a listener the    *)
(* client forks.  What the clients do with their files is IozoneThroughput.*)
(***************************************************************************)
EXTENDS Integers, Sequences, SequencesExt, FiniteSets

CONSTANTS num_child,   \* clients per test
          Tests,       \* tests of the program run
          stonewall,   \* FALSE under -x
          Faults,      \* see FaultKinds
          FaultBound

FaultKinds == {"lose", "reorder", "open", "io", "interrupt"}

ConstantsOK ==
    /\ num_child \in Nat \ {0} /\ Tests \in Nat \ {0} /\ stonewall \in BOOLEAN
    /\ Faults \subseteq FaultKinds /\ FaultBound \in Nat

VARIABLES
    test, at, x,     \* the master: the test, what it does, which client it deals with
    state,           \* child_idents[c].state
    flag, actual,    \* child_stat[c] in the master's memory
    loop,            \* the master's listener process: join count and sent_stop, or NoLoop
    net,             \* datagrams on their way to the master, one sequence per client
    sync, async,     \* what each client has still to read; <<"none">> before the connection
    client,          \* what each client process does next
    listener,        \* each client's forked listener
    stopped,         \* each client's stop flag
    file,            \* whether the client's file exists
    faults

master == <<test, at, x, state, flag, actual, loop>>
wires == <<net, sync, async>>
clients == <<client, listener, stopped, file>>
vars == <<master, wires, clients, faults>>

\* Each test has its own client processes; Me is the client the master deals with.
Children == 0..(num_child - 1)
Clients == (1..Tests) \X Children
Me == <<test, x>>
Now == {test} \X Children
HOLD == 0
READY == 1
BEGIN == 2
NoLoop == [count |-> 0 - 1, sent_stop |-> FALSE]
Unconnected == <<"none">>

MayFail(kind) == kind \in Faults /\ Cardinality(faults) < FaultBound
Fails(kind, c) == MayFail(kind) /\ faults' = faults \cup {<<kind, c>>}

Init ==
    /\ test = 1 /\ at = "listen" /\ x = 0
    /\ state = [c \in Children |-> "ZERO"]
    /\ flag = [c \in Children |-> HOLD] /\ actual = [c \in Children |-> 0]
    /\ loop = NoLoop
    /\ net = [c \in Clients |-> <<>>]
    /\ sync = [c \in Clients |-> Unconnected] /\ async = [c \in Clients |-> Unconnected]
    /\ client = [c \in Clients |-> "none"] /\ listener = [c \in Clients |-> "none"]
    /\ stopped = [c \in Clients |-> FALSE] /\ file = [c \in Children |-> FALSE]
    /\ faults = {}

-----------------------------------------------------------------------------
(* Channels.  child_send is a datagram and may be lost or overtaken;        *)
(* master_send writes to a stream, and to nothing before it is connected.   *)

child_send(c, m) == net' = [net EXCEPT ![c] = Append(@, m)]
Overtakes == IF MayFail("reorder") THEN 2 ELSE 1

\* master_listen takes the next datagram, whoever sent it.
master_listen(c, m) ==
    \E k \in 1..Len(net[c]) :
        /\ k <= Overtakes /\ m = net[c][k]
        /\ net' = [net EXCEPT ![c] = RemoveAt(@, k)]
        /\ faults' = IF k = 1 THEN faults ELSE faults \cup {<<"reorder", c>>}

Sent(chan, c, m) == IF chan[c] = Unconnected THEN chan ELSE [chan EXCEPT ![c] = Append(@, m)]
SentToAll(chan, m) == [c \in Clients |-> IF c \in Now THEN Sent(chan, c, m)[c] ELSE chan[c]]
Readable(chan, c) == chan[c] # Unconnected /\ chan[c] # <<>>

Lose(c) ==
    /\ net[c] # <<>> /\ Fails("lose", c)
    /\ net' = [net EXCEPT ![c] = Tail(@)]
    /\ UNCHANGED <<master, sync, async, clients>>

-----------------------------------------------------------------------------
(* The master: pick_client for one client after the other. *)

Goto(where) == at' = where
ForEach(where, next) == IF x + 1 < num_child THEN at' = where /\ x' = x + 1 ELSE at' = next /\ x' = 0

start_master_listen ==
    /\ at = "listen" /\ Goto("shell") /\ x' = 0
    /\ UNCHANGED <<test, state, flag, actual, loop, wires, clients, faults>>

\* Step 1: system(remote shell); the client forks and lets the shell return.
remote_shell ==
    /\ at = "shell" /\ Goto("join")
    /\ state' = [state EXCEPT ![x] = "WAIT_WHO"]
    /\ client' = [client EXCEPT ![Me] = "join"]
    /\ UNCHANGED <<test, x, flag, actual, loop, wires, listener, stopped, file, faults>>

\* Steps 2 to 4: the next datagram counts as the join (no other names a port, and the master exits
\* when it cannot connect); connect twice and say WHO.  The state is WAIT_WHO until then.
await_join ==
    /\ at = "join"
    /\ \E c \in Clients, m \in {"JOIN", "READY", "STOP", "STAT"} :
           master_listen(c, m) /\ Goto(IF m = "JOIN" THEN "connect" ELSE "exit")
    /\ UNCHANGED <<test, x, state, flag, actual, loop, sync, async, clients>>

start_master_send ==
    /\ at = "connect" /\ Goto("who") /\ client[Me] = "attach"
    /\ sync' = [sync EXCEPT ![Me] = <<>>] /\ async' = [async EXCEPT ![Me] = <<>>]
    /\ UNCHANGED <<test, x, state, flag, actual, loop, net, clients, faults>>

send_who ==
    /\ at = "who" /\ Goto("barrier")
    /\ sync' = Sent(sync, Me, "WHO") /\ state' = [state EXCEPT ![x] = "WAIT_BARRIER"]
    /\ UNCHANGED <<test, x, flag, actual, loop, net, async, clients, faults>>

\* Step 5: the next datagram counts as "at the barrier", its flag is stored for its sender.
await_barrier ==
    /\ at = "barrier"
    /\ \E c \in Clients, m \in {"JOIN", "READY", "STOP", "STAT"} :
           /\ master_listen(c, m)
           /\ flag' = [flag EXCEPT ![IF m = "JOIN" THEN 0 ELSE c[2]] = IF m = "READY" THEN READY ELSE HOLD]
    /\ ForEach("shell", "loop")
    /\ UNCHANGED <<test, state, actual, loop, sync, async, clients>>

-----------------------------------------------------------------------------
(* The master: barrier, listener, join. *)

start_master_listen_loop ==
    /\ at = "loop" /\ Goto("wait")
    /\ loop' = [count |-> num_child, sent_stop |-> FALSE]
    /\ UNCHANGED <<test, x, state, flag, actual, wires, clients, faults>>

await_flags ==
    /\ at = "wait" /\ flag[x] # HOLD /\ ForEach("wait", "begin")
    /\ UNCHANGED <<test, state, flag, actual, loop, wires, clients, faults>>

tell_children_begin ==
    /\ at = "begin"
    /\ flag' = [flag EXCEPT ![x] = BEGIN] /\ sync' = Sent(sync, Me, "GO")
    /\ ForEach("begin", "wait_dist_join")
    /\ UNCHANGED <<test, state, actual, loop, net, async, clients, faults>>

\* The loop of the forked listener; distribute_stop sends the first stop on to all.
master_listen_loop ==
    /\ loop.count > 0
    /\ \E c \in Clients, m \in {"JOIN", "READY", "STOP", "STAT"} :
        /\ master_listen(c, m)
        /\ \/ /\ m = "STAT"
              /\ flag' = [flag EXCEPT ![c[2]] = HOLD] /\ actual' = [actual EXCEPT ![c[2]] = c[1]]
              /\ loop' = [loop EXCEPT !.count = @ - 1] /\ UNCHANGED async
           \/ /\ m = "READY"
              /\ flag' = [flag EXCEPT ![c[2]] = READY] /\ UNCHANGED <<actual, loop, async>>
           \/ /\ m = "STOP"
              /\ async' = IF loop.sent_stop THEN async ELSE SentToAll(async, "STOP")
              /\ loop' = [loop EXCEPT !.sent_stop = TRUE] /\ UNCHANGED <<flag, actual>>
           \/ m = "JOIN" /\ UNCHANGED <<flag, actual, loop, async>>
    /\ UNCHANGED <<test, at, x, state, sync, clients>>

\* wait(0) for the listener, then terminate_child_async.
wait_dist_join ==
    /\ at = "wait_dist_join" /\ loop.count = 0 /\ Goto("close")
    /\ state' = [c \in Children |-> "ZERO"] /\ async' = SentToAll(async, "TERMINATE")
    /\ UNCHANGED <<test, x, flag, actual, loop, net, sync, clients, faults>>

\* stop_master_listen and cleanup_comm at the end of a test.  A datagram that is late enough
\* meets the socket of the next test.
cleanup_comm ==
    /\ at = "close" /\ loop' = NoLoop
    /\ IF test = Tests THEN Goto("exit") /\ UNCHANGED test ELSE Goto("listen") /\ test' = test + 1
    /\ net' \in {[c \in Clients |-> <<>>]} \cup (IF "reorder" \in Faults THEN {net} ELSE {})
    /\ UNCHANGED <<x, state, flag, actual, sync, async, clients, faults>>

\* Control-c: cleanup_children, in the master and in its listener.
cleanup_children ==
    /\ at # "exit" /\ Fails("interrupt", 0) /\ Goto("exit")
    /\ sync' = [c \in Clients |-> IF c \in Now /\ state[c[2]] # "ZERO" THEN Sent(sync, c, "DEATH")[c] ELSE sync[c]]
    /\ async' = [c \in Clients |-> IF c \in Now /\ state[c[2]] = "WAIT_BARRIER" THEN Sent(async, c, "DEATH")[c] ELSE async[c]]
    /\ loop' = NoLoop
    /\ UNCHANGED <<test, x, state, flag, actual, net, clients>>

-----------------------------------------------------------------------------
(* A client: become_client, and the thread_*_test it runs. *)

become_client(c) ==
    /\ client[c] = "join" /\ sync[c] = Unconnected
    /\ child_send(c, "JOIN") /\ client' = [client EXCEPT ![c] = "attach"]
    /\ UNCHANGED <<master, sync, async, listener, stopped, file, faults>>

child_attach(c) ==
    /\ client[c] = "attach" /\ sync[c] # Unconnected
    /\ client' = [client EXCEPT ![c] = "who"]
    /\ UNCHANGED <<master, wires, listener, stopped, file, faults>>

\* child_listen; a client that is told to die exits.
await_who(c) ==
    /\ client[c] = "who" /\ Readable(sync, c)
    /\ sync' = [sync EXCEPT ![c] = Tail(@)]
    /\ client' = [client EXCEPT ![c] = IF Head(sync[c]) = "DEATH" THEN "exit" ELSE "fork"]
    /\ UNCHANGED <<master, net, async, listener, stopped, file, faults>>

start_child_listen_loop(c) ==
    /\ client[c] = "fork"
    /\ client' = [client EXCEPT ![c] = "open"] /\ listener' = [listener EXCEPT ![c] = "reads"]
    /\ UNCHANGED <<master, wires, stopped, file, faults>>

\* The test opens its file (the last test, the cleanup, removes it) and says it is ready; a
\* test that fails exits, and tells nobody.
tell_master_ready(c) ==
    /\ client[c] = "open"
    /\ \/ /\ file' = [file EXCEPT ![c[2]] = c[1] # Tests]
          /\ child_send(c, "READY") /\ client' = [client EXCEPT ![c] = "go"]
          /\ UNCHANGED faults
       \/ /\ Fails("open", c) /\ client' = [client EXCEPT ![c] = "exit"]
          /\ UNCHANGED <<net, file>>
    /\ UNCHANGED <<master, sync, async, listener, stopped>>

wait_for_master_go(c) ==
    /\ client[c] = "go" /\ Readable(sync, c)
    /\ sync' = [sync EXCEPT ![c] = Tail(@)]
    /\ client' = [client EXCEPT ![c] = IF Head(sync[c]) = "DEATH" THEN "exit" ELSE "work"]
    /\ UNCHANGED <<master, net, async, listener, stopped, file, faults>>

\* The records; then send_stop unless stonewalling is off.
send_stop(c) ==
    /\ client[c] = "work"
    /\ \/ /\ client' = [client EXCEPT ![c] = "stats"]
          /\ IF stonewall THEN child_send(c, "STOP") ELSE UNCHANGED net
          /\ stopped' = [stopped EXCEPT ![c] = @ \/ stonewall]
          /\ UNCHANGED <<faults, file>>
       \/ /\ Fails("io", c) /\ client' = [client EXCEPT ![c] = "exit"]
          /\ file' = [file EXCEPT ![c[2]] = FALSE] /\ UNCHANGED <<net, stopped>>
    /\ UNCHANGED <<master, sync, async, listener>>

\* tell_master_stats, stop_child_listen, stop_child_send, exit.
tell_master_stats(c) ==
    /\ client[c] = "stats"
    /\ child_send(c, "STAT") /\ client' = [client EXCEPT ![c] = "exit"]
    /\ UNCHANGED <<master, sync, async, listener, stopped, file, faults>>

\* The client's listener.
child_listen_async(c) ==
    /\ listener[c] = "reads" /\ Readable(async, c)
    /\ async' = [async EXCEPT ![c] = Tail(@)]
    /\ LET m == Head(async[c]) IN
       /\ stopped'  = [stopped EXCEPT ![c] = @ \/ m = "STOP"]
       /\ file'     = [file EXCEPT ![c[2]] = @ /\ m # "DEATH"]
       /\ listener' = [listener EXCEPT ![c] = IF m = "STOP" THEN @ ELSE "exit"]
    /\ UNCHANGED <<master, net, sync, client, faults>>

MasterStep ==
    \/ start_master_listen \/ remote_shell \/ await_join \/ start_master_send \/ send_who
    \/ await_barrier \/ start_master_listen_loop \/ await_flags \/ tell_children_begin
    \/ master_listen_loop \/ wait_dist_join \/ cleanup_comm \/ cleanup_children

ClientStep(c) ==
    \/ become_client(c) \/ child_attach(c) \/ await_who(c) \/ start_child_listen_loop(c)
    \/ tell_master_ready(c) \/ wait_for_master_go(c) \/ send_stop(c) \/ tell_master_stats(c)
    \/ child_listen_async(c) \/ Lose(c)

Next == MasterStep \/ \E c \in Clients : ClientStep(c)
Spec == Init /\ [][Next]_vars

-----------------------------------------------------------------------------
(* Nothing the master or a client can still do. *)
ClientsGone == \A c \in Clients : client[c] \in {"none", "exit"} /\ listener[c] \in {"none", "exit"}

\* The master and its clients get to the end unless a call or a message is lost.
Over == faults # {} \/ (at = "exit" /\ ClientsGone)

\* The barrier of the distributed mode: no client works before every client of the test has
\* opened its file and reported.
BarrierHolds ==
    \A c, d \in Clients : c[1] = d[1] /\ client[c] \in {"work", "stats"} =>
        client[d] \in {"go", "work", "stats", "exit"}

\* A test ends with exactly one result of this test from every client.
ResultsComplete == at = "close" /\ faults = {} => \A c \in Children : actual[c] = test /\ flag[c] = HOLD

\* The first stop reaches every client: each has been told, or has finished by itself.
StopReachesAll ==
    at = "close" /\ stonewall /\ faults = {} => loop.sent_stop /\ \A c \in Now : client[c] = "exit"

\* The comment of cleanup_children: a client that has joined hears of the master's death, on the
\* connections it reads by then.  One whose JOIN was read but which the master has not connected to
\* is told nothing and waits in accept; the claim is made while no datagram overtakes another.
JoinedClientsHear ==
    \A c \in Now : at = "exit" /\ (\A f \in faults : f[1] # "reorder") /\ sync[c] # Unconnected /\ client[c] \in {"attach", "who", "go"} =>
        \E k \in DOMAIN sync[c] : sync[c][k] = "DEATH"
====
