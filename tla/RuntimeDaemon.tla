--------------------------- MODULE RuntimeDaemon ---------------------------
(***************************************************************************)
(* The local runtime: one socket path, the daemons that bind it, and the   *)
(* commands that use whichever daemon the path leads to and otherwise do   *)
(* the work in their own process.                                          *)
(*                                                                         *)
(* A command calls for its own operation and, if the daemon does not match *)
(* it, for that daemon's shutdown; a remember also looks whether it should *)
(* spawn a daemon for the commands after it.  Every call looks the path up *)
(* anew.  A daemon's side of a call (a connection) lives on when the       *)
(* command gives up on it.                                                 *)
(*                                                                         *)
(* A client of a remote service writes by HTTP instead, in a bounded       *)
(* number of attempts.  A server, or a proxy before it, may carry out an   *)
(* attempt whose answer nobody waits for any more.                         *)
(***************************************************************************)
EXTENDS Integers, FiniteSets, Sequences, SequencesExt

CONSTANTS
    Daemons,        \* daemon processes that may be spawned
    Commands,       \* CLI or SDK processes, one command each
    Kind,           \* Kind[c]: "recall", "remember", "stop", or "post": a remember by HTTP
    Attempts,       \* retries + 1
    Crews,          \* the sets of commands that run together
    Warm,           \* Warm[w]: the daemons that commands before crew w spawned
    Database,       \* Database[c]: the database command c is configured for
    Slots,          \* MAX_CONCURRENT
    MaxEvents,      \* MaxEvents[w], bound: how often the installed code changes or
                    \*   a daemon is killed while crew w runs
    Drains,         \* Drains[w]: the daemons that run on CPython 3.12 or later while
                    \*   crew w runs; there, leaving `async with server` waits for the
                    \*   open connections, on 3.11 it does not
    Nobody          \* no daemon; as a socket: no file

ASSUME RuntimeAssumption ==
    /\ Kind \in [Commands -> {"recall", "remember", "stop", "post"}]
    /\ Commands # {} /\ DOMAIN Database = Commands
    /\ {Slots, Attempts} \subseteq Nat \ {0} /\ Crews \subseteq SUBSET Commands
    /\ MaxEvents \in [Crews -> Nat] /\ {Warm, Drains} \subseteq [Crews -> SUBSET Daemons]
    /\ Nobody \notin Daemons

VARIABLES
    disk,       \* the build installed now
    socket,     \* the daemon whose socket the path names, dead or alive
    daemon,     \* each daemon process
    command,    \* each command process
    conn,       \* the daemon's side of each call
    http,       \* the attempts of each remote client
    log,        \* per database the commands that recorded a new version of the key
    kills,      \* daemons killed so far
    prompt      \* auxiliary: daemons asked for the first time before any edit

vars == <<disk, socket, daemon, command, conn, http, log, kills, prompt>>
local == <<disk, socket, daemon, conn, kills, prompt>>

Calls     == {"op", "shutdown"}
Databases == {Database[c] : c \in Commands}
Errors    == {"build_mismatch", "database_mismatch", "runtime_failed"}
Unset     == -1     \* _BUILD_HASH before its first use

Unborn == [state |-> "unborn", code |-> 0, hash |-> Unset,
           db |-> CHOOSE b \in Databases : TRUE, stop |-> FALSE]
NoCall == [state |-> "none", at |-> Nobody, reply |-> "none"]
NoPost == [attempt |-> 0, reply |-> "none", late |-> 0]

TypeOK ==
    /\ disk \in Nat
    /\ socket \in Daemons \cup {Nobody}
    /\ daemon \in [Daemons ->
         [state : {"unborn", "starting", "cleared", "serving", "closed", "gone"},
          code : Nat, hash : Nat \cup {Unset}, db : Databases, stop : BOOLEAN]]
    /\ command \in [Commands ->
         [step : {"absent", "idle", "loaded", "connect", "refused", "reconnect", "sent", "local",
                  "warm", "spawn", "post", "waiting", "done"},
          call : Calls, code : Nat, hash : Nat \cup {Unset}, result : {"none", "ok", "error"}]]
    /\ conn \in [Commands \X Calls ->
         [state : {"none", "queued", "admitted", "running", "answered", "dropped"},
          at : Daemons \cup {Nobody}, reply : {"none", "ok"} \cup Errors]]
    /\ http \in [Commands ->
         [attempt : 0..Attempts, late : 0..Attempts,
          reply : {"none", "pending", "ok", "refused", "unavailable"}]]
    /\ log \in [Databases -> Seq(Commands)]
    /\ kills \in Nat
    /\ prompt \in SUBSET Daemons

Init ==
    /\ disk = 0
    /\ socket = Nobody
    /\ \E crew \in Crews :
         /\ command = [c \in Commands |->
              [step |-> IF c \in crew THEN "idle" ELSE "absent",
               call |-> "op", code |-> 0, hash |-> Unset, result |-> "none"]]
         /\ daemon \in [Daemons -> {Unborn} \cup
              {[Unborn EXCEPT !.state = "starting", !.db = b] : b \in Databases}]
         /\ \A d \in Daemons : daemon[d].state = "starting" <=> d \in Warm[crew]
    /\ conn = [k \in Commands \X Calls |-> NoCall]
    /\ http = [c \in Commands |-> NoPost]
    /\ log = [b \in Databases |-> <<>>]
    /\ kills = 0
    /\ prompt = {}

Crew == {c \in Commands : command[c].step # "absent"}

Listening(d) == d # Nobody /\ daemon[d].state = "serving"
Open(k) == conn[k].state \in {"queued", "admitted", "running"}

\* The connections that hold a slot of d's gate.
Admitted(d) == {k \in Commands \X Calls : conn[k].at = d /\ conn[k].state \in {"admitted", "running"}}

\* Faulty: hashed again for every request.
HashEachTime(d) == disk

\* A daemon hashes the files on disk, for its own build, at the first request.
Hash(d) == IF daemon[d].hash = Unset THEN disk ELSE daemon[d].hash

Asked(d, stop) ==
    /\ daemon' = [daemon EXCEPT ![d].hash = Hash(d), ![d].stop = @ \/ stop]
    /\ prompt' = IF daemon[d].hash = Unset /\ disk = daemon[d].code THEN prompt \cup {d} ELSE prompt

Enter(c, step) == command' = [command EXCEPT ![c].step = step]
Ask(c, call) == command' = [command EXCEPT ![c].step = "connect", ![c].call = call]
End(c, result) == command' = [command EXCEPT ![c].step = "done", ![c].result = result]

\* Faulty: a repeated statement is a new version.
RecordAlways(b, c) == log' = [log EXCEPT ![b] = Append(@, c)]

\* The same statement as the latest version is UNCHANGED.
Record(b, c) == log' = [log EXCEPT ![b] =
                          IF @ # <<>> /\ Last(@) = c THEN @ ELSE Append(@, c)]

-----------------------------------------------------------------------------
(* A command *)

\* What follows a successful operation: only remember warms a daemon.
Succeed(c) == IF Kind[c] = "remember"
              THEN command' = [command EXCEPT ![c].step = "warm", ![c].result = "ok"]
              ELSE End(c, "ok")

\* No daemon, no answer in time, or a daemon that died: do it myself.
NoAnswer(c) ==
    IF Kind[c] = "stop" THEN End(c, "ok") ELSE Enter(c, "local")

\* The builds of a read must match or it fails; a write goes on by itself.
Answer(c, reply) ==
    LET stale == {"database_mismatch"} \cup
                 IF Kind[c] = "remember" THEN {"build_mismatch"} ELSE {}
    IN  \/ command[c].call = "shutdown" /\ NoAnswer(c)
        \/ /\ command[c].call = "op"
           /\ \/ reply = "ok" /\ Succeed(c)
              \/ reply \in stale /\ Ask(c, "shutdown")
              \/ reply \notin stale \cup {"ok"} /\ End(c, "error")

\* The command loads the code that is installed.
Start(c) ==
    /\ command[c].step = "idle"
    /\ command' = [command EXCEPT ![c].step = IF Kind[c] = "post" THEN "post" ELSE "loaded",
                       ![c].code = disk,
                       ![c].call = IF Kind[c] = "stop" THEN "shutdown" ELSE "op"]
    /\ UNCHANGED <<disk, socket, daemon, conn, log, kills, prompt, http>>

\* Its first call: only now does build_id hash the files on disk, for all its calls.
FirstCall(c) ==
    /\ command[c].step = "loaded"
    /\ command' = [command EXCEPT ![c].step = "connect", ![c].hash = disk]
    /\ UNCHANGED <<disk, socket, daemon, conn, log, kills, prompt, http>>

\* Faulty: tries again as long as nobody listens.
ConnectPersistently(c) ==
    /\ command[c].step \in {"connect", "reconnect"}
    /\ IF Listening(socket)
       THEN /\ conn' = [conn EXCEPT ![<<c, command[c].call>>] =
                            [state |-> "queued", at |-> socket, reply |-> "none"]]
            /\ Enter(c, "sent")
       ELSE Enter(c, "refused") /\ UNCHANGED conn
    /\ UNCHANGED <<disk, socket, daemon, log, kills, prompt, http>>

\* _connect: a listening socket accepts; anything else is refused, twice at most.
Connect(c) ==
    /\ command[c].step \in {"connect", "reconnect"}
    /\ IF Listening(socket)
       THEN /\ conn' = [conn EXCEPT ![<<c, command[c].call>>] =
                            [state |-> "queued", at |-> socket, reply |-> "none"]]
            /\ Enter(c, "sent")
       ELSE /\ IF command[c].step = "connect" THEN Enter(c, "refused") ELSE NoAnswer(c)
            /\ UNCHANGED conn
    /\ UNCHANGED <<disk, socket, daemon, log, kills, prompt, http>>

\* The refused client removes the file that is at the path by now.
Unlink(c) ==
    /\ command[c].step = "refused"
    /\ socket' = Nobody
    /\ Enter(c, "reconnect")
    /\ UNCHANGED <<disk, daemon, conn, log, kills, prompt, http>>

Receive(c) ==
    LET k == <<c, command[c].call>>
    IN  /\ command[c].step = "sent"
        /\ \/ conn[k].state = "answered" /\ Answer(c, conn[k].reply)
           \/ conn[k].state = "dropped" /\ NoAnswer(c)
        /\ conn' = [conn EXCEPT ![k].state = "none"]
        /\ UNCHANGED <<disk, socket, daemon, log, kills, prompt, http>>

\* The call's timeout; the daemon is not told.
GiveUp(c) ==
    /\ command[c].step = "sent" /\ Open(<<c, command[c].call>>)
    /\ NoAnswer(c)
    /\ UNCHANGED <<disk, socket, daemon, conn, log, kills, prompt, http>>

\* The operation in the command's own process.
RunLocally(c) ==
    /\ command[c].step = "local"
    /\ \/ /\ Succeed(c)
          /\ IF Kind[c] = "remember" THEN Record(Database[c], c) ELSE UNCHANGED log
       \/ End(c, "error") /\ UNCHANGED log
    /\ UNCHANGED <<disk, socket, daemon, conn, kills, prompt, http>>

\* reachable: a status call, here in one step.  A daemon that is full or does not
\* match does not count; a stale file is removed on the way.
Warmup(c) ==
    /\ command[c].step = "warm"
    /\ \/ /\ Listening(socket)
          /\ Cardinality(Admitted(socket)) < Slots
          /\ Hash(socket) = command[c].hash /\ daemon[socket].db = Database[c]
          /\ Asked(socket, FALSE)
          /\ Enter(c, "done")
          /\ UNCHANGED socket
       \/ /\ socket' = IF Listening(socket) THEN socket ELSE Nobody
          /\ Enter(c, "spawn")
          /\ UNCHANGED <<daemon, prompt>>
    /\ UNCHANGED <<disk, conn, log, kills, http>>

\* Faulty: the daemon inherits the memoised hash before it is computed.
SpawnUnhashed(c) ==
    /\ command[c].step = "spawn"
    /\ End(c, "ok")
    /\ \E d \in Daemons : daemon' = [daemon EXCEPT ![d].state = "starting", ![d].code = Unset]
    /\ UNCHANGED <<disk, socket, conn, log, kills, prompt, http>>

\* Popen, with the command's code and configuration.
Spawn(c) ==
    /\ command[c].step = "spawn"
    /\ End(c, "ok")
    /\ \/ \E d \in Daemons :
            /\ daemon[d].state = "unborn"
            /\ daemon' = [daemon EXCEPT ![d] = [Unborn EXCEPT !.state = "starting", !.code = disk,
                                                              !.db = Database[c]]]
       \/ UNCHANGED daemon      \* it could not be started
    /\ UNCHANGED <<disk, socket, conn, log, kills, prompt, http>>

-----------------------------------------------------------------------------
(* A remote client *)

\* One attempt of _send.
Post(c) ==
    /\ command[c].step = "post"
    /\ Enter(c, "waiting")
    /\ http' = [http EXCEPT ![c].attempt = @ + 1, ![c].reply = "pending"]
    /\ UNCHANGED <<local, log>>

\* At most retries + 1 attempts.
TryAgain(c) ==
    IF http[c].attempt < Attempts THEN Enter(c, "post") ELSE End(c, "error")

\* A 502, 503 or 504 is tried again, any other failure is final.
Return(c) ==
    /\ command[c].step = "waiting"
    /\ \/ http[c].reply = "ok" /\ End(c, "ok")
       \/ http[c].reply = "refused" /\ End(c, "error")
       \/ http[c].reply = "unavailable" /\ TryAgain(c)
    /\ http' = [http EXCEPT ![c].reply = "none"]
    /\ UNCHANGED <<local, log>>

\* A timeout or a broken connection, before the request arrived, while it is worked
\* on, or on the way of the answer.
TimeOut(c) ==
    /\ command[c].step = "waiting"
    /\ TryAgain(c)
    /\ \E arrived \in (IF http[c].reply = "pending" THEN {0, 1} ELSE {0}) :
         http' = [http EXCEPT ![c].late = @ + arrived, ![c].reply = "none"]
    /\ UNCHANGED <<local, log>>

\* The service carries out the request and answers, or refuses it.
Serve(c) ==
    /\ http[c].reply = "pending"
    /\ \/ http' = [http EXCEPT ![c].reply = "ok"] /\ Record(Database[c], c)
       \/ http' = [http EXCEPT ![c].reply = "refused"] /\ UNCHANGED log
    /\ UNCHANGED <<local, command>>

\* A proxy answers for a service that is down, or slow and still at work.
Unavailable(c) ==
    /\ http[c].reply = "pending"
    /\ \E arrived \in {0, 1} :
         http' = [http EXCEPT ![c].late = @ + arrived, ![c].reply = "unavailable"]
    /\ UNCHANGED <<local, command, log>>

\* The service carries out, or refuses, what nobody waits for any more.
ServeLate(c) ==
    /\ http[c].late > 0
    /\ http' = [http EXCEPT ![c].late = @ - 1]
    /\ Record(Database[c], c) \/ UNCHANGED log
    /\ UNCHANGED <<local, command>>

-----------------------------------------------------------------------------
(* A daemon *)

Goto(d, state) == daemon' = [daemon EXCEPT ![d].state = state]

\* serve: whatever socket is at the path goes.
ClearPath(d) ==
    /\ daemon[d].state = "starting"
    /\ socket' = Nobody
    /\ Goto(d, "cleared")
    /\ UNCHANGED <<disk, command, conn, log, kills, prompt, http>>

\* start_unix_server removes a socket file as well before it binds; EADDRINUSE is
\* what remains when another daemon binds just between.
Bind(d) ==
    /\ daemon[d].state = "cleared"
    /\ \/ socket' = d /\ Goto(d, "serving")
       \/ socket # Nobody /\ Goto(d, "gone") /\ UNCHANGED socket
    /\ UNCHANGED <<disk, command, conn, log, kills, prompt, http>>

\* The gate comes before the first byte is read.
Admit(k) ==
    LET d == conn[k].at
    IN  /\ conn[k].state = "queued" /\ Cardinality(Admitted(d)) < Slots
        /\ daemon[d].state # "gone"
        /\ conn' = [conn EXCEPT ![k].state = "admitted"]
        /\ UNCHANGED <<disk, socket, daemon, command, log, kills, prompt, http>>

Reply(k, reply) == conn' = [conn EXCEPT ![k].state = "answered", ![k].reply = reply]

\* _serve_one up to the dispatch.  A refusal comes before the operation is looked
\* at, a shutdown included.
Handle(k) ==
    LET c == k[1]
        d == conn[k].at
    IN  /\ conn[k].state = "admitted" /\ daemon[d].state # "gone"
        /\ Asked(d, FALSE)
        /\ \/ Hash(d) # command[c].hash /\ Reply(k, "build_mismatch")
           \/ /\ Hash(d) = command[c].hash
              /\ \/ daemon[d].db # Database[c] /\ Reply(k, "database_mismatch")
                 \/ /\ daemon[d].db = Database[c] /\ k[2] = "op"
                    /\ conn' = [conn EXCEPT ![k].state = "running"]
        /\ UNCHANGED <<disk, socket, command, log, kills, http>>

\* A shutdown that passes the same checks.
HandleShutdown(k) ==
    LET d == conn[k].at
    IN  /\ conn[k].state = "admitted" /\ k[2] = "shutdown" /\ daemon[d].state # "gone"
        /\ daemon[d].db = Database[k[1]] /\ Hash(d) = command[k[1]].hash
        /\ Asked(d, TRUE)
        /\ Reply(k, "ok")
        /\ UNCHANGED <<disk, socket, command, log, kills, http>>

\* Faulty: the answer is on its way before the commit, which may then fail.
DispatchUncommitted(k) ==
    /\ conn[k].state = "running" /\ daemon[conn[k].at].state # "gone"
    /\ Reply(k, "ok")
    /\ UNCHANGED <<disk, socket, daemon, command, log, kills, prompt, http>>

\* _dispatch: the product's own operation in the daemon's database, or its error.
Dispatch(k) ==
    LET d == conn[k].at
    IN  /\ conn[k].state = "running" /\ daemon[d].state # "gone"
        /\ \/ /\ Reply(k, "ok")
              /\ IF Kind[k[1]] = "remember" THEN Record(daemon[d].db, k[1]) ELSE UNCHANGED log
           \/ Reply(k, "runtime_failed") /\ UNCHANGED log
        /\ UNCHANGED <<disk, socket, daemon, command, kills, prompt, http>>

\* Faulty: only a daemon that holds the path watches the clock.
IdleAtPath(d) ==
    /\ daemon[d].state = "serving" /\ ~daemon[d].stop /\ socket = d
    /\ daemon' = [daemon EXCEPT ![d].stop = TRUE]
    /\ UNCHANGED <<disk, socket, command, conn, log, kills, prompt, http>>

\* _idle_watch, and SIGTERM: at any moment, also while requests are running.
Idle(d) ==
    /\ daemon[d].state = "serving" /\ ~daemon[d].stop
    /\ daemon' = [daemon EXCEPT ![d].stop = TRUE]
    /\ UNCHANGED <<disk, socket, command, conn, log, kills, prompt, http>>

\* Nobody is accepted any more.  (CPython 3.13 removes the file it has bound.)
CloseServer(d) ==
    /\ daemon[d].state = "serving" /\ daemon[d].stop
    /\ Goto(d, "closed")
    /\ \/ UNCHANGED socket
       \/ d \in Drains[Crew] /\ socket = d /\ socket' = Nobody
    /\ UNCHANGED <<disk, command, conn, log, kills, prompt, http>>

\* The interpreter waits for d's open connections, however long they take.
Lingers(d) == d \in Drains[Crew] /\ \E k \in Commands \X Calls : conn[k].at = d /\ Open(k)

Dropped(d) == [k \in Commands \X Calls |->
                 IF conn[k].at = d /\ Open(k) THEN [conn[k] EXCEPT !.state = "dropped"]
                 ELSE conn[k]]

\* Out of `async with server`: the file at the path goes, whoever bound it; the event
\* loop ends and cancels the handlers that are left.
Exit(d) ==
    /\ daemon[d].state = "closed" /\ ~Lingers(d)
    /\ socket' = Nobody
    /\ Goto(d, "gone")
    /\ conn' = Dropped(d)
    /\ UNCHANGED <<disk, command, log, kills, prompt, http>>

\* A killed daemon leaves its socket file behind.
Kill(d) ==
    /\ daemon[d].state \notin {"unborn", "gone"} /\ disk + kills < MaxEvents[Crew]
    /\ Goto(d, "gone")
    /\ conn' = Dropped(d)
    /\ kills' = kills + 1
    /\ UNCHANGED <<disk, socket, command, log, prompt, http>>

-----------------------------------------------------------------------------

EditCode ==
    /\ disk + kills < MaxEvents[Crew]
    /\ disk' = disk + 1
    /\ UNCHANGED <<socket, daemon, command, conn, log, kills, prompt, http>>

Service(c)     == Serve(c) \/ Unavailable(c) \/ ServeLate(c)
CommandStep(c) ==
    \/ Post(c) \/ Return(c) \/ TimeOut(c)
    \/ FirstCall(c) \/ Connect(c) \/ Unlink(c) \/ Receive(c) \/ GiveUp(c)
    \/ RunLocally(c) \/ Warmup(c) \/ Spawn(c)
Shutdown(d)    == Idle(d) \/ CloseServer(d) \/ Exit(d)
DaemonStep(d)  == ClearPath(d) \/ Bind(d) \/ Shutdown(d)
Request(k)     == Admit(k) \/ Handle(k) \/ HandleShutdown(k) \/ Dispatch(k)

Next ==
    \/ \E c \in Commands : Start(c) \/ CommandStep(c) \/ Service(c)
    \/ \E d \in Daemons : DaemonStep(d) \/ Kill(d)
    \/ \E k \in Commands \X Calls : Request(k)
    \/ EditCode

Spec == Init /\ [][Next]_vars

\* Processes run, timeouts expire and the idle timer fires.  Nothing is assumed of
\* requests: a daemon may sit on any of them for ever.
FairSpec ==
    /\ Spec
    /\ \A c \in Commands : WF_vars(CommandStep(c))
    /\ \A d \in Daemons : WF_vars(DaemonStep(d))

-----------------------------------------------------------------------------
(* Properties *)

\* Whatever daemon a command reaches -- its own, one spawned for another database,
\* one that outlived an update, one whose socket another daemon took over while the
\* call was under way -- an answer it accepts was computed in its database, and by
\* the build it has itself loaded if neither side hashed late: the daemon was asked
\* something, and the command made its first call, before the code it had loaded was
\* replaced.  (One that did so later takes the hash of the new files for its own.)
AnswersMatchTheCommand ==
    \A k \in Commands \X Calls : conn[k].reply = "ok" =>
        /\ daemon[conn[k].at].db = Database[k[1]]
        /\ conn[k].at \in prompt /\ command[k[1]].hash = command[k[1]].code
             => daemon[conn[k].at].code = command[k[1]].code

\* A statement is recorded again only after another one, and only when its answer was
\* lost: for a daemon's client if the daemon carried out a call that was given up and
\* repeated in the command's own process (a refused call has done nothing), for a
\* remote client at most once an attempt, and not by an attempt that was refused.
RepeatsAreLostAnswers ==
    \A b \in Databases, c \in Commands :
        LET times == {i \in DOMAIN log[b] : log[b][i] = c}
        IN  /\ \A i \in times : i + 1 \notin times
            /\ IF Kind[c] = "post"
               THEN Cardinality(times) + http[c].late <= http[c].attempt
               ELSE Cardinality(times) <= IF conn[<<c, "op">>].reply = "ok" THEN 2 ELSE 1

\* verilore_sdk.py says of remember that "a retried write never creates a second
\* version": no command's statement is recorded twice.
RetriesRecordOnce ==
    \A b \in Databases : \A i, j \in DOMAIN log[b] : log[b][i] = log[b][j] => i = j

\* The runtime is a transport: it implements commands that act by themselves.
Effects == INSTANCE CommandEffects WITH
    Commands  <- Commands,
    Writers   <- {c \in Commands : Kind[c] \in {"remember", "post"}},
    Database  <- Database,
    issued    <- {c \in Commands : command[c].step \notin {"absent", "idle"}},
    succeeded <- {c \in Commands : command[c].result = "ok"},
    log       <- log
ImplementsCommandEffects == Effects!Spec

\* Every command that starts ends -- again and again none is under way -- whatever
\* daemons do: none running, killed, wedged, gate full of requests that never finish,
\* socket stale, stolen or taken away; and whatever becomes of a remote client's
\* attempts.
CommandsEnd == []<>(\A c \in Commands : command[c].step \in {"absent", "idle", "done"})

\* Every daemon that was spawned ends, also one that lost its socket to another and
\* can no longer be told to.  On CPython 3.11 this holds whatever its connections do,
\* later if it is not kept by connections that never end.
DaemonsEnd ==
    \A d \in Daemons : []<>~Lingers(d) =>
        (daemon[d].state = "starting" ~> daemon[d].state = "gone")

=============================================================================
