------------------------ MODULE RuntimeDaemonProofs ------------------------
(***************************************************************************)
(* Theorems about RuntimeDaemon, for any daemons, commands, databases,     *)
(* slots, retries and events.                                              *)
(***************************************************************************)
EXTENDS RuntimeDaemon, FiniteSetTheorems, TLAPS

-----------------------------------------------------------------------------
(* Types *)

DaemonState ==
    [state : {"unborn", "starting", "cleared", "serving", "closed", "gone"},
     code : Nat, hash : Nat \cup {Unset}, db : Databases, stop : BOOLEAN]

CommandState ==
    [step : {"absent", "idle", "loaded", "connect", "refused", "reconnect", "sent", "local", "warm",
             "spawn", "post", "waiting", "done"},
     call : Calls, code : Nat, hash : Nat \cup {Unset}, result : {"none", "ok", "error"}]

Connection ==
    [state : {"none", "queued", "admitted", "running", "answered", "dropped"},
     at : Daemons \cup {Nobody}, reply : {"none", "ok"} \cup Errors]

Posting ==
    [attempt : 0..Attempts, late : 0..Attempts,
     reply : {"none", "pending", "ok", "refused", "unavailable"}]

\* The attempts of a remote client are counted, and each attempt arrives at most once.
HttpFits ==
    \A c \in Commands :
        /\ command[c].step = "post" => http[c].attempt < Attempts
        /\ command[c].step \in {"absent", "idle"} => http[c].attempt = 0
        /\ http[c].late + (IF http[c].reply = "pending" THEN 1 ELSE 0) <= http[c].attempt

\* A call that somebody answers, or may still answer, has reached a daemon.
CallsReach ==
    \A k \in Commands \X Calls :
        conn[k].at = Nobody => conn[k].state = "none" /\ conn[k].reply = "none"

TypeInv == TypeOK /\ HttpFits /\ CallsReach

LEMMA TypeOKDef ==
    TypeOK <=> /\ disk \in Nat /\ kills \in Nat
               /\ socket \in Daemons \cup {Nobody}
               /\ daemon \in [Daemons -> DaemonState]
               /\ command \in [Commands -> CommandState]
               /\ conn \in [Commands \X Calls -> Connection]
               /\ http \in [Commands -> Posting]
               /\ log \in [Databases -> Seq(Commands)]
               /\ prompt \in SUBSET Daemons
BY DEF TypeOK, DaemonState, CommandState, Connection, Posting

LEMMA UnbornType == Unborn \in DaemonState /\ Unborn.state = "unborn" /\ Unborn.hash = Unset
<1>1. (CHOOSE b \in Databases : TRUE) \in Databases
  BY RuntimeAssumption DEF Databases
<1> QED
  BY <1>1 DEF Unborn, DaemonState

LEMMA AttemptsType == Attempts \in Nat /\ Attempts > 0 /\ Slots \in Nat
<1>1. Attempts \in Nat \ {0} /\ Slots \in Nat \ {0}
  BY RuntimeAssumption
<1> QED
  BY <1>1

LEMMA InitTypeInv == Init => TypeInv
<1> SUFFICES ASSUME Init PROVE TypeInv
  OBVIOUS
<1>2. daemon \in [Daemons -> DaemonState]
  <2> DEFINE Newborn == {Unborn} \cup
                     {[Unborn EXCEPT !.state = "starting", !.db = b] : b \in Databases}
  <2>1. \A b \in Databases : [Unborn EXCEPT !.state = "starting", !.db = b] \in DaemonState
    BY UnbornType DEF DaemonState
  <2>2. \A x \in Newborn : x \in DaemonState
    BY <2>1, UnbornType
  <2>3. daemon \in [Daemons -> Newborn]
    BY DEF Init
  <2> HIDE DEF Newborn
  <2> QED
    BY <2>2, <2>3
<1>3. /\ command \in [Commands -> CommandState]
      /\ \A c \in Commands : command[c].step \in {"absent", "idle"}
  <2>1. PICK crew \in Crews :
         command = [c \in Commands |->
                      [step |-> IF c \in crew THEN "idle" ELSE "absent",
                       call |-> "op", code |-> 0, hash |-> Unset, result |-> "none"]]
    BY DEF Init
  <2> QED
    BY <2>1 DEF CommandState, Calls
<1>4. conn \in [Commands \X Calls -> Connection] /\ CallsReach
  <2>1. /\ NoCall \in Connection
        /\ NoCall.state = "none" /\ NoCall.reply = "none"
    BY DEF NoCall, Connection
  <2>2. conn = [k \in Commands \X Calls |-> NoCall]
    BY DEF Init
  <2> QED
    BY <2>1, <2>2 DEF CallsReach
<1>5. /\ http \in [Commands -> Posting]
      /\ \A c \in Commands : http[c].attempt = 0 /\ http[c].late = 0 /\ http[c].reply = "none"
  <2>1. NoPost \in Posting /\ NoPost.attempt = 0 /\ NoPost.late = 0 /\ NoPost.reply = "none"
    BY AttemptsType DEF NoPost, Posting
  <2>2. http = [c \in Commands |-> NoPost]
    BY DEF Init
  <2> QED
    BY <2>1, <2>2
<1>6. HttpFits
  BY <1>3, <1>5 DEF HttpFits
<1>7. disk \in Nat /\ socket \in Daemons \cup {Nobody} /\ kills \in Nat /\ prompt \in SUBSET Daemons
  BY DEF Init
<1>8. log \in [Databases -> Seq(Commands)]
  <2>1. <<>> \in Seq(Commands)
    OBVIOUS
  <2> QED
    BY <2>1 DEF Init
<1> QED
  BY <1>2, <1>3, <1>4, <1>5, <1>6, <1>7, <1>8, TypeOKDef DEF TypeInv

-----------------------------------------------------------------------------
(* What the model's operators return *)

LEMMA RecordType ==
  ASSUME NEW b \in Databases, NEW c \in Commands, log \in [Databases -> Seq(Commands)],
         Record(b, c)
  PROVE  /\ log' \in [Databases -> Seq(Commands)]
         /\ \A x \in Databases \ {b} : log'[x] = log[x]
         /\ log'[b] = IF log[b] # <<>> /\ Last(log[b]) = c THEN log[b] ELSE Append(log[b], c)
<1>1. log' = [log EXCEPT ![b] = IF log[b] # <<>> /\ Last(log[b]) = c
                                THEN log[b] ELSE Append(log[b], c)]
  BY DEF Record
<1>2. log[b] \in Seq(Commands) /\ Append(log[b], c) \in Seq(Commands)
  OBVIOUS
<1> QED
  BY <1>1, <1>2

LEMMA HashType ==
  ASSUME TypeOK, NEW d \in Daemons
  PROVE  Hash(d) \in Nat
BY TypeOKDef DEF Hash, DaemonState

LEMMA DatabaseType == \A c \in Commands : Database[c] \in Databases
BY DEF Databases

\* The steps of a command that has called nobody yet.
Before == {"absent", "idle", "loaded"}

\* Command c alone has moved, and keeps the code it loaded and the hash it took.
Moved(c) ==
    /\ command' \in [Commands -> CommandState]
    /\ \A x \in Commands \ {c} : command'[x] = command[x]
    /\ command'[c].code = command[c].code
    /\ command'[c].hash = command[c].hash \/ command[c].step = "loaded"

LEMMA FirstCallMoves ==
  ASSUME TypeOK, NEW c \in Commands, FirstCall(c)
  PROVE  /\ Moved(c) /\ command[c].step = "loaded" /\ command'[c].step = "connect"
         /\ command'[c].call = command[c].call /\ command'[c].result = command[c].result
<1>1. command \in [Commands -> CommandState] /\ disk \in Nat \cup {Unset}
  BY TypeOKDef
<1>2. command' = [command EXCEPT ![c].step = "connect", ![c].hash = disk]
  BY DEF FirstCall
<1>3. command[c].step = "loaded"
  BY DEF FirstCall
<1> QED
  BY <1>1, <1>2, <1>3 DEF Moved, CommandState

LEMMA EnterMoves ==
  ASSUME TypeOK, NEW c \in Commands,
         NEW step \in {"connect", "refused", "reconnect", "sent", "local", "warm", "spawn",
                       "post", "waiting", "done"},
         Enter(c, step)
  PROVE  /\ Moved(c) /\ command'[c].step = step
         /\ command'[c].call = command[c].call /\ command'[c].result = command[c].result
BY TypeOKDef DEF Moved, Enter, CommandState

LEMMA EndMoves ==
  ASSUME TypeOK, NEW c \in Commands, NEW result \in {"ok", "error"}, End(c, result)
  PROVE  /\ Moved(c) /\ command'[c].step = "done"
         /\ command'[c].call = command[c].call /\ command'[c].result = result
BY TypeOKDef DEF Moved, End, CommandState

LEMMA AskMoves ==
  ASSUME TypeOK, NEW c \in Commands, NEW call \in Calls, Ask(c, call)
  PROVE  /\ Moved(c) /\ command'[c].step = "connect"
         /\ command'[c].call = call /\ command'[c].result = command[c].result
BY TypeOKDef DEF Moved, Ask, CommandState

LEMMA SucceedMoves ==
  ASSUME TypeOK, NEW c \in Commands, Succeed(c)
  PROVE  /\ Moved(c) /\ command'[c].step = (IF Kind[c] = "remember" THEN "warm" ELSE "done")
         /\ command'[c].call = command[c].call /\ command'[c].result = "ok"
<1>1. CASE Kind[c] = "remember"
  <2>1. command' = [command EXCEPT ![c].step = "warm", ![c].result = "ok"]
    BY <1>1 DEF Succeed
  <2> QED
    BY <1>1, <2>1, TypeOKDef DEF Moved, CommandState
<1>2. CASE Kind[c] # "remember"
  BY <1>2, EndMoves DEF Succeed
<1> QED
  BY <1>1, <1>2

LEMMA NoAnswerMoves ==
  ASSUME TypeOK, NEW c \in Commands, NoAnswer(c)
  PROVE  /\ Moved(c) /\ command'[c].call = command[c].call
         /\ command'[c].step = (IF Kind[c] = "stop" THEN "done" ELSE "local")
         /\ command'[c].result = (IF Kind[c] = "stop" THEN "ok" ELSE command[c].result)
<1>1. CASE Kind[c] = "stop"
  BY <1>1, EndMoves DEF NoAnswer
<1>2. CASE Kind[c] # "stop"
  BY <1>2, EnterMoves DEF NoAnswer
<1> QED
  BY <1>1, <1>2

LEMMA AnswerMoves ==
  ASSUME TypeOK, NEW c \in Commands, NEW reply, Answer(c, reply)
  PROVE  /\ Moved(c)
         /\ \/ command[c].call = "shutdown" /\ NoAnswer(c)
            \/ command[c].call = "op" /\ reply = "ok" /\ Succeed(c)
            \/ command[c].call = "op" /\ Ask(c, "shutdown")
            \/ command[c].call = "op" /\ End(c, "error")
<1>0. command[c].call \in Calls /\ "shutdown" \in Calls
  BY TypeOKDef DEF CommandState, Calls
<1>1. \/ command[c].call = "shutdown" /\ NoAnswer(c)
      \/ command[c].call = "op" /\ reply = "ok" /\ Succeed(c)
      \/ command[c].call = "op" /\ Ask(c, "shutdown")
      \/ command[c].call = "op" /\ End(c, "error")
  BY DEF Answer
<1> QED
  BY <1>0, <1>1, NoAnswerMoves, SucceedMoves, AskMoves, EndMoves

LEMMA TryAgainMoves ==
  ASSUME TypeOK, NEW c \in Commands, TryAgain(c)
  PROVE  /\ Moved(c) /\ command'[c].call = command[c].call
         /\ \/ command'[c].step = "post" /\ http[c].attempt < Attempts
               /\ command'[c].result = command[c].result
            \/ command'[c].step = "done" /\ command'[c].result = "error"
<1>1. CASE http[c].attempt < Attempts
  BY <1>1, EnterMoves DEF TryAgain
<1>2. CASE ~ (http[c].attempt < Attempts)
  BY <1>2, EndMoves DEF TryAgain
<1> QED
  BY <1>1, <1>2

\* Daemon d alone has been asked: it knows its hash from now on.
LEMMA AskedMoves ==
  ASSUME TypeOK, NEW d \in Daemons, NEW stop \in BOOLEAN, Asked(d, stop)
  PROVE  /\ daemon' \in [Daemons -> DaemonState]
         /\ \A x \in Daemons \ {d} : daemon'[x] = daemon[x]
         /\ daemon'[d].state = daemon[d].state /\ daemon'[d].code = daemon[d].code
         /\ daemon'[d].db = daemon[d].db /\ daemon'[d].hash = Hash(d)
         /\ prompt' \in SUBSET Daemons
         /\ prompt' = IF daemon[d].hash = Unset /\ disk = daemon[d].code
                      THEN prompt \cup {d} ELSE prompt
<1>1. Hash(d) \in Nat /\ daemon \in [Daemons -> DaemonState] /\ prompt \in SUBSET Daemons
  BY HashType, TypeOKDef
<1>2. daemon' = [daemon EXCEPT ![d].hash = Hash(d), ![d].stop = @ \/ stop]
  BY DEF Asked
<1>3. (daemon[d].stop \/ stop) \in BOOLEAN
  OBVIOUS
<1>4. prompt' = IF daemon[d].hash = Unset /\ disk = daemon[d].code
                THEN prompt \cup {d} ELSE prompt
  BY DEF Asked
<1> QED
  BY <1>1, <1>2, <1>3, <1>4 DEF DaemonState

LEMMA GotoMoves ==
  ASSUME TypeOK, NEW d \in Daemons,
         NEW state \in {"cleared", "serving", "closed", "gone"}, Goto(d, state)
  PROVE  /\ daemon' \in [Daemons -> DaemonState]
         /\ \A x \in Daemons \ {d} : daemon'[x] = daemon[x]
         /\ daemon'[d].state = state /\ daemon'[d].code = daemon[d].code
         /\ daemon'[d].db = daemon[d].db /\ daemon'[d].hash = daemon[d].hash
BY TypeOKDef DEF Goto, DaemonState

LEMMA ReplyMoves ==
  ASSUME TypeOK, NEW k \in Commands \X Calls, NEW reply \in {"ok"} \cup Errors, Reply(k, reply)
  PROVE  /\ conn' \in [Commands \X Calls -> Connection]
         /\ \A x \in (Commands \X Calls) \ {k} : conn'[x] = conn[x]
         /\ conn'[k].state = "answered" /\ conn'[k].at = conn[k].at /\ conn'[k].reply = reply
BY TypeOKDef DEF Reply, Connection

LEMMA DroppedMoves ==
  ASSUME TypeOK, NEW d \in Daemons, conn' = Dropped(d)
  PROVE  /\ conn' \in [Commands \X Calls -> Connection]
         /\ \A k \in Commands \X Calls :
              /\ conn'[k].at = conn[k].at /\ conn'[k].reply = conn[k].reply
              /\ conn'[k].state = conn[k].state \/ (Open(k) /\ conn'[k].state = "dropped")
<1> DEFINE new(k) == IF conn[k].at = d /\ Open(k)
                     THEN [conn[k] EXCEPT !.state = "dropped"] ELSE conn[k]
<1>1. conn \in [Commands \X Calls -> Connection]
  BY TypeOKDef
<1>2. conn' = [k \in Commands \X Calls |-> new(k)]
  BY DEF Dropped
<1>3. ASSUME NEW k \in Commands \X Calls
      PROVE  /\ new(k) \in Connection
             /\ new(k).at = conn[k].at /\ new(k).reply = conn[k].reply
             /\ new(k).state = conn[k].state \/ (Open(k) /\ new(k).state = "dropped")
  BY <1>1 DEF Connection
<1> QED
  BY <1>2, <1>3

-----------------------------------------------------------------------------
(* Every step keeps the types *)

LEMMA TypeOKStep ==
  ASSUME /\ disk' \in Nat /\ kills' \in Nat
         /\ socket' \in Daemons \cup {Nobody}
         /\ daemon' \in [Daemons -> DaemonState]
         /\ command' \in [Commands -> CommandState]
         /\ conn' \in [Commands \X Calls -> Connection]
         /\ http' \in [Commands -> Posting]
         /\ log' \in [Databases -> Seq(Commands)]
         /\ prompt' \in SUBSET Daemons
  PROVE  TypeOK'
BY DEF TypeOK, DaemonState, CommandState, Connection, Posting

\* A command that moves, but not to another attempt, leaves the attempts counted.
LEMMA MovedFits ==
  ASSUME TypeInv, NEW c \in Commands, Moved(c), http' = http,
         command'[c].step \notin {"post", "absent", "idle"}
  PROVE  HttpFits'
BY DEF TypeInv, HttpFits, Moved

LEMMA CommandTypes ==
  ASSUME TypeInv, NEW c \in Commands, CommandStep(c) \/ Start(c)
  PROVE  TypeInv'
<1> DEFINE TypesKept ==
      /\ disk \in Nat /\ kills \in Nat
      /\ socket \in Daemons \cup {Nobody}
      /\ daemon \in [Daemons -> DaemonState]
      /\ command \in [Commands -> CommandState]
      /\ conn \in [Commands \X Calls -> Connection]
      /\ http \in [Commands -> Posting]
      /\ log \in [Databases -> Seq(Commands)]
      /\ prompt \in SUBSET Daemons
<1>0. TypeOK /\ HttpFits /\ TypesKept /\ CallsReach
  BY TypeOKDef DEF TypeInv
<1>c. ASSUME UNCHANGED conn PROVE CallsReach'
  BY <1>0, <1>c DEF CallsReach
<1>1. CASE Start(c)
  <2>1. /\ command'[c].step = (IF Kind[c] = "post" THEN "post" ELSE "loaded")
        /\ command' \in [Commands -> CommandState]
        /\ \A x \in Commands \ {c} : command'[x] = command[x]
    <3> DEFINE step == IF Kind[c] = "post" THEN "post" ELSE "loaded"
               call == IF Kind[c] = "stop" THEN "shutdown" ELSE "op"
    <3>1. step \in {"post", "loaded"} /\ call \in Calls
      BY DEF Calls
    <3>2. command' = [command EXCEPT ![c].step = step, ![c].code = disk, ![c].call = call]
      BY <1>1 DEF Start
    <3>3. step = (IF Kind[c] = "post" THEN "post" ELSE "loaded")
      OBVIOUS
    <3> HIDE DEF step, call
    <3>4. /\ command'[c].step = step
          /\ \A x \in Commands \ {c} : command'[x] = command[x]
      BY <1>0, <3>2 DEF CommandState
    <3>5. command' \in [Commands -> CommandState]
      <4>1. step \in {"absent", "idle", "loaded", "connect", "refused", "reconnect", "sent", "local",
                      "warm", "spawn", "post", "waiting", "done"} /\ disk \in Nat
        BY <1>0, <3>1
      <4>2. command \in [Commands -> CommandState]
        BY <1>0
      <4> DEFINE next == [command[c] EXCEPT !.step = step, !.code = disk, !.call = call]
      <4>3. next \in CommandState
        BY <3>1, <4>1, <4>2 DEF CommandState
      <4>4. command' = [command EXCEPT ![c] = next]
        BY <3>2, <4>2
      <4> QED
        BY <4>2, <4>3, <4>4
    <3> QED
      BY <3>3, <3>4, <3>5
  <2>2. http[c].attempt = 0
    BY <1>0, <1>1 DEF Start, HttpFits
  <2>3. HttpFits'
    BY <1>0, <1>1, <2>1, <2>2, AttemptsType DEF Start, HttpFits
  <2>4. TypeOK'
    BY <1>0, <1>1, <2>1, TypeOKStep DEF Start
  <2> QED
    BY <1>1, <1>c, <2>3, <2>4 DEF TypeInv, Start
<1>2. CASE Post(c)
  <2>1. Moved(c) /\ command'[c].step = "waiting"
    BY <1>0, <1>2, EnterMoves DEF Post
  <2>2. http[c].attempt < Attempts /\ http[c] \in Posting
    BY <1>0, <1>2 DEF Post, HttpFits
  <2>3. /\ http' \in [Commands -> Posting]
        /\ \A x \in Commands \ {c} : http'[x] = http[x]
        /\ http'[c].attempt = http[c].attempt + 1
        /\ http'[c].late = http[c].late
    <3>1. http[c].attempt + 1 \in 0..Attempts
      BY <2>2, AttemptsType DEF Posting
    <3>2. http' = [http EXCEPT ![c].attempt = @ + 1, ![c].reply = "pending"]
      BY <1>2 DEF Post
    <3> QED
      BY <1>0, <2>2, <3>1, <3>2 DEF Posting
  <2>4. http[c].late <= http[c].attempt /\ http[c].late \in Nat /\ http[c].attempt \in Nat
    <3>1. http[c].late \in Nat /\ http[c].attempt \in Nat
      BY <2>2, AttemptsType DEF Posting
    <3> QED
      BY <1>0, <3>1 DEF HttpFits
  <2>5. HttpFits'
    <3>1. ASSUME NEW x \in Commands \ {c}
          PROVE  /\ command'[x].step = "post" => http'[x].attempt < Attempts
                 /\ command'[x].step \in {"absent", "idle"} => http'[x].attempt = 0
                 /\ http'[x].late + (IF http'[x].reply = "pending" THEN 1 ELSE 0) <= http'[x].attempt
      <4>1. command'[x] = command[x] /\ http'[x] = http[x]
        BY <2>1, <2>3 DEF Moved
      <4> QED
        BY <1>0, <4>1 DEF HttpFits
    <3>2. http'[c].late + (IF http'[c].reply = "pending" THEN 1 ELSE 0) <= http'[c].attempt
      BY <2>3, <2>4
    <3>3. command'[c].step \notin {"post", "absent", "idle"}
      BY <2>1
    <3> QED
      BY <3>1, <3>2, <3>3 DEF HttpFits
  <2>6. TypeOK'
    BY <1>0, <1>2, <2>1, <2>3, TypeOKStep DEF Post, local, Moved
  <2> QED
    BY <1>2, <1>c, <2>5, <2>6 DEF TypeInv, Post, local
<1>3. ASSUME TryAgain(c) \/ End(c, "ok") \/ End(c, "error"), UNCHANGED <<local, log>>,
             NEW arrived \in IF http[c].reply = "pending" THEN {0, 1} ELSE {0},
             \/ http' = [http EXCEPT ![c].late = @ + arrived, ![c].reply = "none"]
             \/ arrived = 0 /\ http' = [http EXCEPT ![c].reply = "none"]
      PROVE  TypeInv'
  <2>1. /\ Moved(c) /\ command'[c].step \notin {"absent", "idle"}
        /\ command'[c].step = "post" => http[c].attempt < Attempts
    BY <1>0, <1>3, TryAgainMoves, EndMoves
  <2>2. /\ http[c].late \in Nat /\ http[c].attempt \in 0..Attempts
        /\ http[c].late + (IF http[c].reply = "pending" THEN 1 ELSE 0) <= http[c].attempt
    BY <1>0, AttemptsType DEF HttpFits, Posting
  <2>3. http[c].late + arrived \in 0..Attempts /\ http[c].late + arrived <= http[c].attempt
    BY <1>3, <2>2, AttemptsType
  <2>4. /\ http' \in [Commands -> Posting]
        /\ \A x \in Commands \ {c} : http'[x] = http[x]
        /\ http'[c].attempt = http[c].attempt /\ http'[c].reply = "none"
        /\ http'[c].late = http[c].late + arrived
    <3>1. CASE http' = [http EXCEPT ![c].late = @ + arrived, ![c].reply = "none"]
      BY <1>0, <3>1, <2>3 DEF Posting
    <3>2. CASE arrived = 0 /\ http' = [http EXCEPT ![c].reply = "none"]
      <4>1. http[c].late + arrived = http[c].late
        BY <2>2, <3>2
      <4> QED
        BY <1>0, <3>2, <4>1 DEF Posting
    <3> QED
      BY <1>3, <3>1, <3>2
  <2>5. HttpFits'
    BY <1>0, <2>1, <2>2, <2>3, <2>4 DEF HttpFits, Moved
  <2>6. TypeOK'
    BY <1>0, <1>3, <2>1, <2>4, TypeOKStep DEF local, Moved
  <2> QED
    BY <1>3, <1>c, <2>5, <2>6 DEF TypeInv, local
<1>4. CASE Return(c)
  BY <1>3, <1>4 DEF Return
<1>5. CASE TimeOut(c)
  BY <1>3, <1>5 DEF TimeOut
<1>6. CASE Connect(c)
  <2>1. /\ Moved(c) /\ command'[c].step \notin {"post", "absent", "idle"}
        /\ http' = http
    BY <1>0, <1>6, EnterMoves, NoAnswerMoves DEF Connect
  <2>2. conn' \in [Commands \X Calls -> Connection]
    <3>1. [state |-> "queued", at |-> socket, reply |-> "none"] \in Connection
      BY <1>0 DEF Connection
    <3> QED
      BY <1>0, <1>6, <3>1 DEF Connect
  <2>3. CallsReach'
    <3>1. CASE UNCHANGED conn
      BY <1>c, <3>1
    <3>2. CASE /\ socket # Nobody
               /\ conn' = [conn EXCEPT ![<<c, command[c].call>>] =
                            [state |-> "queued", at |-> socket, reply |-> "none"]]
      BY <1>0, <3>2 DEF CallsReach
    <3> QED
      BY <1>6, <3>1, <3>2 DEF Connect, Listening
  <2> QED
    BY <1>0, <1>6, <2>1, <2>2, <2>3, MovedFits, TypeOKStep DEF Connect, TypeInv, Moved
<1>7. CASE Unlink(c)
  <2>1. /\ Moved(c) /\ command'[c].step \notin {"post", "absent", "idle"}
        /\ http' = http
    BY <1>0, <1>7, EnterMoves DEF Unlink
  <2> QED
    BY <1>0, <1>c, <1>7, <2>1, MovedFits, TypeOKStep DEF Unlink, TypeInv, Moved
<1>8. CASE Receive(c)
  <2>0. NoAnswer(c) \/ \E reply : Answer(c, reply)
    BY <1>8 DEF Receive
  <2>1. /\ Moved(c) /\ command'[c].step \notin {"post", "absent", "idle"}
        /\ http' = http
    <3>1. http' = http
      BY <1>8 DEF Receive
    <3>2. CASE NoAnswer(c)
      BY <1>0, <3>1, <3>2, NoAnswerMoves
    <3>3. ASSUME NEW reply, Answer(c, reply)
          PROVE  Moved(c) /\ command'[c].step \notin {"post", "absent", "idle"}
      <4>1. Moved(c) /\ (NoAnswer(c) \/ Succeed(c) \/ Ask(c, "shutdown") \/ End(c, "error"))
        BY <1>0, <3>3, AnswerMoves
      <4> QED
        BY <1>0, <4>1, NoAnswerMoves, SucceedMoves, AskMoves, EndMoves DEF Calls
    <3> QED
      BY <2>0, <3>1, <3>2, <3>3
  <2>2. conn' \in [Commands \X Calls -> Connection]
    BY <1>0, <1>8 DEF Receive, Connection
  <2>3. CallsReach'
    BY <1>0, <1>8 DEF Receive, CallsReach, Connection
  <2> QED
    BY <1>0, <1>8, <2>1, <2>2, <2>3, MovedFits, TypeOKStep DEF Receive, TypeInv, Moved
<1>9. CASE GiveUp(c)
  <2>1. /\ Moved(c) /\ command'[c].step \notin {"post", "absent", "idle"}
        /\ http' = http
    BY <1>0, <1>9, NoAnswerMoves DEF GiveUp
  <2> QED
    BY <1>0, <1>c, <1>9, <2>1, MovedFits, TypeOKStep DEF GiveUp, TypeInv, Moved
<1>10. CASE RunLocally(c)
  <2>1. /\ Moved(c) /\ command'[c].step \notin {"post", "absent", "idle"}
        /\ http' = http
    BY <1>0, <1>10, SucceedMoves, EndMoves DEF RunLocally
  <2>2. log' \in [Databases -> Seq(Commands)]
    <3>1. CASE UNCHANGED log
      BY <1>0, <3>1
    <3>2. CASE Record(Database[c], c)
      BY <1>0, <3>2, RecordType, DatabaseType
    <3> QED
      BY <1>10, <3>1, <3>2 DEF RunLocally
  <2> QED
    BY <1>0, <1>c, <1>10, <2>1, <2>2, MovedFits, TypeOKStep DEF RunLocally, TypeInv, Moved
<1>11. CASE Warmup(c)
  <2>1. /\ Moved(c) /\ command'[c].step \notin {"post", "absent", "idle"}
        /\ http' = http
    BY <1>0, <1>11, EnterMoves DEF Warmup
  <2>2. /\ daemon' \in [Daemons -> DaemonState] /\ prompt' \in SUBSET Daemons
        /\ socket' \in Daemons \cup {Nobody}
    <3>1. CASE socket \in Daemons /\ Asked(socket, FALSE) /\ UNCHANGED socket
      BY <1>0, <3>1, AskedMoves
    <3>2. CASE socket' \in {socket, Nobody} /\ UNCHANGED <<daemon, prompt>>
      BY <1>0, <3>2
    <3> QED
      BY <1>0, <1>11, <3>1, <3>2 DEF Warmup, Listening
  <2> QED
    BY <1>0, <1>c, <1>11, <2>1, <2>2, MovedFits, TypeOKStep DEF Warmup, TypeInv, Moved
<1>12. CASE Spawn(c)
  <2>1. /\ Moved(c) /\ command'[c].step \notin {"post", "absent", "idle"}
        /\ http' = http
    BY <1>0, <1>12, EndMoves DEF Spawn
  <2>2. daemon' \in [Daemons -> DaemonState]
    <3>1. [Unborn EXCEPT !.state = "starting", !.code = disk, !.db = Database[c]] \in DaemonState
      BY <1>0, UnbornType, DatabaseType DEF DaemonState
    <3>2. CASE \E d \in Daemons :
                 daemon' = [daemon EXCEPT ![d] = [Unborn EXCEPT !.state = "starting", !.code = disk,
                                                              !.db = Database[c]]]
      BY <1>0, <3>1, <3>2
    <3> QED
      BY <1>0, <1>12, <3>2 DEF Spawn
  <2> QED
    BY <1>0, <1>c, <1>12, <2>1, <2>2, MovedFits, TypeOKStep DEF Spawn, TypeInv, Moved
<1>13. CASE FirstCall(c)
  <2>1. /\ Moved(c) /\ command'[c].step \notin {"post", "absent", "idle"}
        /\ http' = http
    BY <1>0, <1>13, FirstCallMoves DEF FirstCall
  <2> QED
    BY <1>0, <1>c, <1>13, <2>1, MovedFits, TypeOKStep DEF FirstCall, TypeInv, Moved
<1> QED
  BY <1>1, <1>2, <1>4, <1>5, <1>6, <1>7, <1>8, <1>9, <1>10, <1>11, <1>12, <1>13 DEF CommandStep

LEMMA ServiceTypes ==
  ASSUME TypeInv, NEW c \in Commands, Service(c)
  PROVE  TypeInv'
<1>0. /\ TypeOK /\ HttpFits /\ CallsReach /\ http \in [Commands -> Posting]
      /\ log \in [Databases -> Seq(Commands)] /\ Attempts \in Nat
      /\ http[c].late \in 0..Attempts /\ http[c].attempt \in 0..Attempts
      /\ http[c].late + (IF http[c].reply = "pending" THEN 1 ELSE 0) <= http[c].attempt
  BY TypeOKDef, AttemptsType DEF TypeInv, HttpFits, Posting
<1>1. UNCHANGED <<local, command>> /\ (UNCHANGED log \/ Record(Database[c], c))
  BY DEF Service, Serve, Unavailable, ServeLate
<1>2. log' \in [Databases -> Seq(Commands)]
  <2>1. CASE Record(Database[c], c)
    BY <1>0, <2>1, RecordType, DatabaseType
  <2> QED
    BY <1>0, <1>1, <2>1
<1>3. ASSUME NEW late \in 0..Attempts,
             NEW reply \in {"ok", "refused", "unavailable"} \cup {http[c].reply},
             late + (IF reply = "pending" THEN 1 ELSE 0) <= http[c].attempt,
             /\ http' \in [Commands -> Posting]
             /\ \A x \in Commands \ {c} : http'[x] = http[x]
             /\ http'[c].attempt = http[c].attempt
             /\ http'[c].late = late /\ http'[c].reply = reply
      PROVE  TypeInv'
  <2>1. HttpFits'
    BY <1>0, <1>1, <1>3 DEF HttpFits
  <2>2. TypeOK'
    BY <1>0, <1>1, <1>2, <1>3, TypeOKDef, TypeOKStep DEF local
  <2>3. CallsReach'
    BY <1>0, <1>1 DEF CallsReach, local
  <2> QED
    BY <2>1, <2>2, <2>3 DEF TypeInv
<1>4. CASE Serve(c)
  <2>1. PICK reply \in {"ok", "refused"} : http' = [http EXCEPT ![c].reply = reply]
    BY <1>4 DEF Serve
  <2>2. /\ http' \in [Commands -> Posting]
        /\ \A x \in Commands \ {c} : http'[x] = http[x]
        /\ http'[c].attempt = http[c].attempt
        /\ http'[c].late = http[c].late /\ http'[c].reply = reply
    BY <1>0, <2>1 DEF Posting
  <2>3. http[c].late + (IF reply = "pending" THEN 1 ELSE 0) <= http[c].attempt
    BY <1>0
  <2> QED
    BY <1>0, <1>3, <2>2, <2>3
<1>5. CASE Unavailable(c)
  <2>1. PICK arrived \in {0, 1} :
          http' = [http EXCEPT ![c].late = @ + arrived, ![c].reply = "unavailable"]
    BY <1>5 DEF Unavailable
  <2>2. http[c].reply = "pending"
    BY <1>5 DEF Unavailable
  <2>3. http[c].late + arrived \in 0..Attempts /\ http[c].late + arrived <= http[c].attempt
    BY <1>0, <2>2
  <2>4. /\ http' \in [Commands -> Posting]
        /\ \A x \in Commands \ {c} : http'[x] = http[x]
        /\ http'[c].attempt = http[c].attempt
        /\ http'[c].late = http[c].late + arrived /\ http'[c].reply = "unavailable"
    BY <1>0, <2>1, <2>3 DEF Posting
  <2>5. http[c].late + arrived + (IF "unavailable" = "pending" THEN 1 ELSE 0) <= http[c].attempt
    BY <1>0, <2>3
  <2> QED
    BY <1>3, <2>3, <2>4, <2>5
<1>6. CASE ServeLate(c)
  <2>1. http[c].late > 0 /\ http' = [http EXCEPT ![c].late = @ - 1]
    BY <1>6 DEF ServeLate
  <2>2. /\ http[c].late - 1 \in 0..Attempts
        /\ http[c].late - 1 + (IF http[c].reply = "pending" THEN 1 ELSE 0) <= http[c].attempt
    BY <1>0, <2>1
  <2>3. /\ http' \in [Commands -> Posting]
        /\ \A x \in Commands \ {c} : http'[x] = http[x]
        /\ http'[c].attempt = http[c].attempt
        /\ http'[c].late = http[c].late - 1 /\ http'[c].reply = http[c].reply
    BY <1>0, <2>1, <2>2 DEF Posting
  <2> QED
    BY <1>3, <2>2, <2>3
<1> QED
  BY <1>4, <1>5, <1>6 DEF Service

LEMMA DaemonTypes ==
  ASSUME TypeInv, NEW d \in Daemons, DaemonStep(d) \/ Kill(d)
  PROVE  TypeInv'
<1>0. TypeOK /\ HttpFits /\ CallsReach
  BY DEF TypeInv
<1>1. UNCHANGED <<disk, command, log, prompt, http>>
  BY DEF DaemonStep, Shutdown, ClearPath, Bind, Idle, CloseServer, Exit, Kill
<1>2. /\ daemon' \in [Daemons -> DaemonState]
      /\ socket' \in Daemons \cup {Nobody} /\ kills' \in Nat
  <2>1. CASE \E state \in {"cleared", "serving", "closed", "gone"} :
               Goto(d, state) /\ socket' \in {socket, d, Nobody} /\ kills' \in {kills, kills + 1}
    BY <1>0, <2>1, GotoMoves, TypeOKDef
  <2>2. CASE Idle(d)
    BY <1>0, <2>2, TypeOKDef DEF Idle, DaemonState
  <2> QED
    BY <2>1, <2>2 DEF DaemonStep, Shutdown, ClearPath, Bind, CloseServer, Exit, Kill
<1>3. conn' \in [Commands \X Calls -> Connection] /\ CallsReach'
  <2>1. UNCHANGED conn \/ conn' = Dropped(d)
    BY DEF DaemonStep, Shutdown, ClearPath, Bind, Idle, CloseServer, Exit, Kill
  <2>2. CASE UNCHANGED conn
    BY <1>0, <2>2, TypeOKDef DEF CallsReach
  <2>3. CASE conn' = Dropped(d)
    <3>1. /\ conn' \in [Commands \X Calls -> Connection]
          /\ \A k \in Commands \X Calls :
               /\ conn'[k].at = conn[k].at /\ conn'[k].reply = conn[k].reply
               /\ conn'[k].state = conn[k].state \/ (Open(k) /\ conn'[k].state = "dropped")
      BY <1>0, <2>3, DroppedMoves
    <3> QED
      BY <1>0, <3>1 DEF CallsReach, Open
  <2> QED
    BY <2>1, <2>2, <2>3
<1>4. TypeOK'
  BY <1>0, <1>1, <1>2, <1>3, TypeOKDef, TypeOKStep
<1> QED
  BY <1>0, <1>1, <1>3, <1>4 DEF TypeInv, HttpFits

LEMMA RequestTypes ==
  ASSUME TypeInv, NEW k \in Commands \X Calls, Request(k)
  PROVE  TypeInv'
<1> DEFINE d == conn[k].at
<1>0. /\ TypeOK /\ HttpFits /\ CallsReach /\ conn \in [Commands \X Calls -> Connection]
      /\ log \in [Databases -> Seq(Commands)] /\ k[1] \in Commands
  BY TypeOKDef DEF TypeInv
<1>1. UNCHANGED <<disk, socket, command, kills, http>>
  BY DEF Request, Admit, Handle, HandleShutdown, Dispatch
<1>2. d \in Daemons /\ d # Nobody
  <2>1. conn[k].state # "none"
    BY DEF Request, Admit, Handle, HandleShutdown, Dispatch
  <2> QED
    BY <1>0, <2>1, RuntimeAssumption DEF CallsReach, Connection
<1>3. conn' \in [Commands \X Calls -> Connection] /\ CallsReach'
  <2>1. CASE \E state \in {"admitted", "running"} : conn' = [conn EXCEPT ![k].state = state]
    <3>1. PICK state \in {"admitted", "running"} : conn' = [conn EXCEPT ![k].state = state]
      BY <2>1
    <3>2. conn' \in [Commands \X Calls -> Connection]
      BY <1>0, <3>1 DEF Connection
    <3>3. /\ \A x \in (Commands \X Calls) \ {k} : conn'[x] = conn[x]
          /\ conn'[k].at = conn[k].at
      BY <1>0, <3>1 DEF Connection
    <3> QED
      BY <1>0, <1>2, <3>2, <3>3 DEF CallsReach
  <2>2. CASE \E reply \in {"ok"} \cup Errors : Reply(k, reply)
    <3>1. /\ conn' \in [Commands \X Calls -> Connection]
          /\ \A x \in (Commands \X Calls) \ {k} : conn'[x] = conn[x]
          /\ conn'[k].at = conn[k].at
      BY <1>0, <2>2, ReplyMoves
    <3> QED
      BY <1>0, <1>2, <3>1 DEF CallsReach
  <2>3. {"build_mismatch", "database_mismatch", "runtime_failed"} \subseteq Errors
    BY DEF Errors
  <2> QED
    BY <2>1, <2>2, <2>3 DEF Request, Admit, Handle, HandleShutdown, Dispatch
<1>4. daemon' \in [Daemons -> DaemonState] /\ prompt' \in SUBSET Daemons
  <2>1. CASE UNCHANGED <<daemon, prompt>>
    BY <1>0, <2>1, TypeOKDef
  <2>2. CASE \E stop \in BOOLEAN : Asked(d, stop)
    BY <1>0, <1>2, <2>2, AskedMoves
  <2> QED
    BY <2>1, <2>2 DEF Request, Admit, Handle, HandleShutdown, Dispatch
<1>5. log' \in [Databases -> Seq(Commands)]
  <2>1. daemon[d].db \in Databases
    BY <1>0, <1>2, TypeOKDef DEF DaemonState
  <2>2. CASE Record(daemon[d].db, k[1])
    BY <1>0, <2>1, <2>2, RecordType
  <2> QED
    BY <1>0, <2>2 DEF Request, Admit, Handle, HandleShutdown, Dispatch
<1>6. TypeOK'
  BY <1>0, <1>1, <1>3, <1>4, <1>5, TypeOKDef, TypeOKStep
<1> QED
  BY <1>0, <1>1, <1>3, <1>6 DEF TypeInv, HttpFits

LEMMA StutterTypes ==
  ASSUME TypeInv, EditCode \/ UNCHANGED vars
  PROVE  TypeInv'
<1>1. TypeOK'
  BY TypeOKDef, TypeOKStep DEF TypeInv, EditCode, vars
<1> QED
  BY <1>1 DEF TypeInv, HttpFits, CallsReach, EditCode, vars

LEMMA NextTypeInv == TypeInv /\ [Next]_vars => TypeInv'
BY CommandTypes, ServiceTypes, DaemonTypes, RequestTypes, StutterTypes DEF Next

\* Processes, sockets, connections and recordings keep their shapes; a remote client
\* makes at most `retries` + 1 attempts and each of them arrives at most once.
THEOREM TypeCorrect == Spec => []TypeOK
<1>1. TypeInv => TypeOK
  BY DEF TypeInv
<1> QED
  BY InitTypeInv, NextTypeInv, <1>1, PTL DEF Spec

-----------------------------------------------------------------------------
(* What a step may do to commands, daemons and calls *)

LEMMA CommandStepMoves ==
  ASSUME TypeInv, NEW c \in Commands, CommandStep(c)
  PROVE  /\ Moved(c)
         /\ command[c].step \notin {"absent", "idle"}
         /\ command'[c].step \notin Before
<1>0. TypeOK
  BY DEF TypeInv
<1>1. \/ \E step \in {"refused", "reconnect", "sent", "spawn", "done", "waiting"} : Enter(c, step)
      \/ \E result \in {"ok", "error"} : End(c, result)
      \/ Succeed(c) \/ NoAnswer(c) \/ TryAgain(c) \/ FirstCall(c)
      \/ \E reply : Answer(c, reply)
  BY DEF CommandStep, Post, Return, TimeOut, Connect, Unlink, Receive, GiveUp, RunLocally, Warmup,
         Spawn
<1>2. command[c].step \notin {"absent", "idle"}
  BY DEF CommandStep, Post, Return, TimeOut, FirstCall, Connect, Unlink, Receive, GiveUp, RunLocally,
         Warmup, Spawn
<1>3. CASE \E step \in {"refused", "reconnect", "sent", "spawn", "done", "waiting"} : Enter(c, step)
  BY <1>0, <1>2, <1>3, EnterMoves DEF Before
<1>4. CASE \E result \in {"ok", "error"} : End(c, result)
  BY <1>0, <1>2, <1>4, EndMoves DEF Before
<1>5. CASE Succeed(c) \/ NoAnswer(c) \/ TryAgain(c) \/ FirstCall(c)
  BY <1>0, <1>2, <1>5, SucceedMoves, NoAnswerMoves, TryAgainMoves, FirstCallMoves DEF Before
<1>6. ASSUME NEW reply, Answer(c, reply)
      PROVE  Moved(c) /\ command'[c].step \notin Before
  <2>1. Moved(c) /\ (NoAnswer(c) \/ Succeed(c) \/ Ask(c, "shutdown") \/ End(c, "error"))
    BY <1>0, <1>6, AnswerMoves
  <2>2. CASE Ask(c, "shutdown")
    BY <1>0, <2>2, AskMoves DEF Calls, Before
  <2> QED
    BY <1>0, <2>1, <2>2, NoAnswerMoves, SucceedMoves, EndMoves DEF Before
<1> QED
  BY <1>1, <1>2, <1>3, <1>4, <1>5, <1>6

LEMMA CommandsMove ==
  ASSUME TypeInv, [Next]_vars
  PROVE  \A x \in Commands :
           /\ command'[x].code = command[x].code \/ command[x].step = "idle"
           /\ command'[x].hash = command[x].hash \/ command[x].step = "loaded"
           /\ command'[x].step \in Before => command[x].step \in Before
<1>1. CASE UNCHANGED command
  BY <1>1
<1>2. ASSUME NEW c \in Commands, Start(c)
      PROVE  /\ command[c].step = "idle" /\ \A x \in Commands \ {c} : command'[x] = command[x]
             /\ command'[c].hash = command[c].hash
  <2>1. command \in [Commands -> CommandState]
    BY TypeOKDef DEF TypeInv
  <2>2. CASE Kind[c] = "post"
    BY <1>2, <2>1, <2>2 DEF Start, CommandState
  <2>3. CASE Kind[c] # "post"
    BY <1>2, <2>1, <2>3 DEF Start, CommandState
  <2> QED
    BY <2>2, <2>3
<1>3. CASE \E c \in Commands : Start(c)
  BY <1>2, <1>3 DEF Before
<1>4. CASE \E c \in Commands : CommandStep(c)
  BY <1>4, CommandStepMoves DEF Moved
<1>5. CASE \E c \in Commands : Service(c)
  BY <1>1, <1>5 DEF Service, Serve, Unavailable, ServeLate
<1>6. CASE \E d \in Daemons : DaemonStep(d) \/ Kill(d)
  BY <1>1, <1>6 DEF DaemonStep, Shutdown, ClearPath, Bind, Idle, CloseServer, Exit, Kill
<1>7. CASE \E k \in Commands \X Calls : Request(k)
  BY <1>1, <1>7 DEF Request, Admit, Handle, HandleShutdown, Dispatch
<1> QED
  BY <1>1, <1>3, <1>4, <1>5, <1>6, <1>7 DEF Next, EditCode, vars

-----------------------------------------------------------------------------
(* An accepted answer matches its command *)

Born(d) == daemon[d].state # "unborn"

\* The daemon of call k works on the database of its command and has hashed the same
\* code as the command.
Matches(k) ==
    /\ daemon[conn[k].at].db = Database[k[1]]
    /\ daemon[conn[k].at].hash = command[k[1]].hash /\ command[k[1]].hash # Unset

\* A call that reached a daemon reached one that runs, and its command has made it.
CallsAreReal ==
    \A k \in Commands \X Calls : conn[k].at # Nobody =>
        Born(conn[k].at) /\ command[k[1]].step \notin Before

\* What is being carried out, or has been answered, passed the checks of Handle.
CallsMatch ==
    \A k \in Commands \X Calls :
        conn[k].state = "running" \/ conn[k].reply = "ok" => conn[k].at # Nobody /\ Matches(k)

\* A daemon asked before any edit took the hash of the code it runs.
PromptOnesKnow == \A d \in prompt : Born(d) /\ daemon[d].hash = daemon[d].code

AnswerInv == TypeInv /\ CallsAreReal /\ CallsMatch /\ PromptOnesKnow

\* What happens to daemon d if it is asked, or moves on.
Lives(d) ==
    /\ Born(d) => /\ daemon'[d].state # "unborn"
                  /\ daemon'[d].db = daemon[d].db /\ daemon'[d].code = daemon[d].code
                  /\ daemon[d].hash = Unset \/ daemon'[d].hash = daemon[d].hash
    /\ d \in prompt' => d \in prompt \/ (Born(d) /\ daemon'[d].hash = daemon[d].code)

LEMMA AskedLives ==
  ASSUME TypeOK, NEW d \in Daemons, Born(d), NEW stop \in BOOLEAN, Asked(d, stop)
  PROVE  \A x \in Daemons : Lives(x)
<1>1. /\ \A x \in Daemons \ {d} : daemon'[x] = daemon[x]
      /\ daemon'[d].state = daemon[d].state /\ daemon'[d].code = daemon[d].code
      /\ daemon'[d].db = daemon[d].db /\ daemon'[d].hash = Hash(d)
      /\ prompt' = IF daemon[d].hash = Unset /\ disk = daemon[d].code
                   THEN prompt \cup {d} ELSE prompt
  BY AskedMoves
<1> QED
  BY <1>1 DEF Lives, Born, Hash

LEMMA DaemonsMove ==
  ASSUME TypeInv, CallsAreReal, [Next]_vars
  PROVE  \A x \in Daemons : Lives(x)
<1>0. TypeOK /\ daemon \in [Daemons -> DaemonState]
  BY TypeOKDef DEF TypeInv
<1>1. ASSUME UNCHANGED <<daemon, prompt>>
      PROVE  \A x \in Daemons : Lives(x)
  BY <1>1 DEF Lives, Born
<1>2. ASSUME NEW c \in Commands, CommandStep(c) \/ Start(c) \/ Service(c)
      PROVE  \A x \in Daemons : Lives(x)
  <2>1. CASE Warmup(c)
    <3>1. CASE socket \in Daemons /\ Listening(socket) /\ Asked(socket, FALSE)
      <4>1. Born(socket)
        BY <3>1 DEF Listening, Born
      <4> QED
        BY <1>0, <3>1, <4>1, AskedLives
    <3> QED
      BY <1>0, <1>1, <2>1, <3>1, TypeOKDef DEF Warmup, Listening
  <2>2. CASE Spawn(c)
    <3>1. UNCHANGED prompt
      BY <2>2 DEF Spawn
    <3>2. CASE \E d \in Daemons :
                 /\ daemon[d].state = "unborn"
                 /\ \A x \in Daemons \ {d} : daemon'[x] = daemon[x]
      BY <3>1, <3>2 DEF Lives, Born
    <3> QED
      BY <1>0, <1>1, <2>2, <3>1, <3>2 DEF Spawn
  <2>3. CASE UNCHANGED <<daemon, prompt>>
    BY <1>1, <2>3
  <2> QED
    BY <1>2, <2>1, <2>2, <2>3 DEF CommandStep, Start, Service, Post, Return, TimeOut, FirstCall,
       Connect, Unlink, Receive, GiveUp, RunLocally, Serve, Unavailable, ServeLate, local
<1>3. ASSUME NEW d \in Daemons, DaemonStep(d) \/ Kill(d)
      PROVE  \A x \in Daemons : Lives(x)
  <2>1. UNCHANGED prompt
    BY <1>3 DEF DaemonStep, Shutdown, ClearPath, Bind, Idle, CloseServer, Exit, Kill
  <2>2. CASE \E state \in {"cleared", "serving", "closed", "gone"} : Goto(d, state)
    BY <1>0, <2>1, <2>2, GotoMoves DEF Lives, Born
  <2>3. CASE Idle(d)
    BY <1>0, <2>1, <2>3 DEF Idle, Lives, Born, DaemonState
  <2> QED
    BY <1>3, <2>2, <2>3 DEF DaemonStep, Shutdown, ClearPath, Bind, CloseServer, Exit, Kill
<1>4. ASSUME NEW k \in Commands \X Calls, Request(k)
      PROVE  \A x \in Daemons : Lives(x)
  <2>1. conn[k].at \in Daemons /\ conn[k].at # Nobody
    <3>1. conn[k].state # "none"
      BY <1>4 DEF Request, Admit, Handle, HandleShutdown, Dispatch
    <3> QED
      BY <1>0, <3>1, TypeOKDef, RuntimeAssumption DEF TypeInv, CallsReach, Connection
  <2>2. Born(conn[k].at)
    BY <2>1 DEF CallsAreReal
  <2>3. CASE \E stop \in BOOLEAN : Asked(conn[k].at, stop)
    BY <1>0, <2>1, <2>2, <2>3, AskedLives
  <2> QED
    BY <1>1, <1>4, <2>3 DEF Request, Admit, Handle, HandleShutdown, Dispatch
<1> QED
  BY <1>1, <1>2, <1>3, <1>4 DEF Next, EditCode, vars

\* What happens to call k: it goes on, having passed the checks if it is carried out
\* or answered well, or it is made.
Goes(k) ==
    \/ /\ conn'[k].at = conn[k].at
       /\ conn'[k].state = "running" \/ conn'[k].reply = "ok" =>
            \/ conn[k].state = "running" \/ conn[k].reply = "ok"
            \/ conn[k].at # Nobody /\ Matches(k)'
    \/ /\ conn'[k].at \in Daemons /\ Born(conn'[k].at)
       /\ conn'[k].state = "queued" /\ conn'[k].reply = "none"
       /\ command[k[1]].step \notin Before

LEMMA CallsMove ==
  ASSUME TypeInv, [Next]_vars
  PROVE  \A x \in Commands \X Calls : Goes(x)
<1>0. TypeOK /\ CallsReach /\ conn \in [Commands \X Calls -> Connection] /\ daemon \in [Daemons -> DaemonState]
  BY TypeOKDef DEF TypeInv
<1>1. ASSUME UNCHANGED conn
      PROVE  \A x \in Commands \X Calls : Goes(x)
  BY <1>1 DEF Goes
<1>2. ASSUME NEW c \in Commands, CommandStep(c) \/ Start(c) \/ Service(c)
      PROVE  \A x \in Commands \X Calls : Goes(x)
  <2>1. CASE Connect(c)
    <3>1. CASE /\ Listening(socket)
               /\ conn' = [conn EXCEPT ![<<c, command[c].call>>] =
                            [state |-> "queued", at |-> socket, reply |-> "none"]]
      <4>1. socket \in Daemons /\ Born(socket) /\ command[c].step \notin Before
        BY <2>1, <3>1, TypeOKDef, <1>0 DEF Listening, Born, Connect, Before
      <4>2. \A x \in (Commands \X Calls) \ {<<c, command[c].call>>} : conn'[x] = conn[x]
        BY <1>0, <3>1
      <4>3. ASSUME <<c, command[c].call>> \in Commands \X Calls
            PROVE  conn'[<<c, command[c].call>>] =
                       [state |-> "queued", at |-> socket, reply |-> "none"]
        BY <1>0, <3>1, <4>3
      <4> QED
        BY <4>1, <4>2, <4>3 DEF Goes
    <3> QED
      BY <1>1, <2>1, <3>1 DEF Connect
  <2>2. CASE Receive(c)
    BY <1>0, <2>2 DEF Receive, Goes, Connection
  <2>3. CASE UNCHANGED conn
    BY <1>1, <2>3
  <2> QED
    BY <1>2, <2>1, <2>2, <2>3 DEF CommandStep, Start, Service, Post, Return, TimeOut, FirstCall,
       Spawn, Warmup, Unlink, GiveUp, RunLocally, Serve, Unavailable, ServeLate, local
<1>3. ASSUME NEW d \in Daemons, DaemonStep(d) \/ Kill(d)
      PROVE  \A x \in Commands \X Calls : Goes(x)
  <2>1. CASE conn' = Dropped(d)
    <3>1. \A k \in Commands \X Calls :
              /\ conn'[k].at = conn[k].at /\ conn'[k].reply = conn[k].reply
              /\ conn'[k].state = conn[k].state \/ (Open(k) /\ conn'[k].state = "dropped")
      BY <1>0, <2>1, DroppedMoves
    <3> QED
      BY <3>1 DEF Goes
  <2> QED
    BY <1>1, <1>3, <2>1 DEF DaemonStep, Shutdown, ClearPath, Bind, Idle, CloseServer, Exit, Kill
<1>4. ASSUME NEW k \in Commands \X Calls, Request(k)
      PROVE  \A x \in Commands \X Calls : Goes(x)
  <2>1. conn[k].at \in Daemons /\ conn[k].at # Nobody
    <3>1. conn[k].state # "none"
      BY <1>4 DEF Request, Admit, Handle, HandleShutdown, Dispatch
    <3> QED
      BY <1>0, <3>1, RuntimeAssumption DEF CallsReach, Connection
  <2>2. UNCHANGED command
    BY <1>4 DEF Request, Admit, Handle, HandleShutdown, Dispatch
  <2>3. ASSUME NEW stop \in BOOLEAN, Asked(conn[k].at, stop), conn'[k].at = conn[k].at,
               Hash(conn[k].at) = command[k[1]].hash, daemon[conn[k].at].db = Database[k[1]]
        PROVE  Matches(k)'
    <3>1. daemon'[conn[k].at].db = daemon[conn[k].at].db /\ daemon'[conn[k].at].hash = Hash(conn[k].at)
      BY <1>0, <2>1, <2>3, AskedMoves
    <3>2. Hash(conn[k].at) # Unset
      <4>1. Hash(conn[k].at) \in Nat
        BY <1>0, <2>1, HashType
      <4> QED
        BY <4>1 DEF Unset
    <3> QED
      BY <2>2, <2>3, <3>1, <3>2 DEF Matches
  <2>4. CASE Admit(k)
    BY <1>0, <2>4 DEF Admit, Goes, Connection
  <2>5. ASSUME NEW reply \in Errors, Reply(k, reply)
        PROVE  \A x \in Commands \X Calls : Goes(x)
    <3>1. /\ \A x \in (Commands \X Calls) \ {k} : conn'[x] = conn[x]
          /\ conn'[k].state = "answered" /\ conn'[k].at = conn[k].at /\ conn'[k].reply = reply
      BY <1>0, <2>5, ReplyMoves
    <3>2. reply # "ok"
      BY DEF Errors
    <3> QED
      BY <3>1, <3>2 DEF Goes
  <2>6. CASE HandleShutdown(k)
    <3>1. /\ \A x \in (Commands \X Calls) \ {k} : conn'[x] = conn[x]
          /\ conn'[k].at = conn[k].at
      BY <1>0, <2>6, ReplyMoves DEF HandleShutdown
    <3>2. Matches(k)'
      BY <2>3, <2>6, <3>1 DEF HandleShutdown
    <3> QED
      BY <2>1, <3>1, <3>2 DEF Goes
  <2>7. CASE Handle(k)
    <3>1. CASE /\ Hash(conn[k].at) = command[k[1]].hash /\ daemon[conn[k].at].db = Database[k[1]]
               /\ conn' = [conn EXCEPT ![k].state = "running"]
      <4>1. /\ \A x \in (Commands \X Calls) \ {k} : conn'[x] = conn[x]
            /\ conn'[k].at = conn[k].at
        BY <1>0, <3>1 DEF Connection
      <4>2. Matches(k)'
        BY <2>3, <2>7, <3>1, <4>1 DEF Handle
      <4> QED
        BY <2>1, <4>1, <4>2 DEF Goes
    <3> QED
      BY <2>5, <2>7, <3>1 DEF Handle, Errors
  <2>8. CASE Dispatch(k)
    <3>1. CASE Reply(k, "ok")
      <4>1. /\ \A x \in (Commands \X Calls) \ {k} : conn'[x] = conn[x]
            /\ conn'[k].at = conn[k].at /\ conn[k].state = "running"
        BY <1>0, <2>8, <3>1, ReplyMoves DEF Dispatch
      <4> QED
        BY <4>1 DEF Goes
    <3> QED
      BY <2>5, <2>8, <3>1 DEF Dispatch, Errors
  <2> QED
    BY <1>4, <2>4, <2>6, <2>7, <2>8 DEF Request
<1> QED
  BY <1>1, <1>2, <1>3, <1>4 DEF Next, EditCode, vars

LEMMA InitAnswerInv == Init => AnswerInv
<1> SUFFICES ASSUME Init PROVE AnswerInv
  OBVIOUS
<1>1. \A k \in Commands \X Calls :
          conn[k].at = Nobody /\ conn[k].state = "none" /\ conn[k].reply = "none"
  BY DEF Init, NoCall
<1>2. prompt = {}
  BY DEF Init
<1> QED
  BY <1>1, <1>2, InitTypeInv DEF AnswerInv, CallsAreReal, CallsMatch, PromptOnesKnow

LEMMA NextAnswerInv == AnswerInv /\ [Next]_vars => AnswerInv'
<1> SUFFICES ASSUME AnswerInv, [Next]_vars PROVE AnswerInv'
  OBVIOUS
<1>0. /\ TypeInv /\ TypeInv' /\ CallsAreReal /\ CallsMatch /\ PromptOnesKnow
      /\ prompt \subseteq Daemons /\ prompt' \subseteq Daemons
      /\ daemon \in [Daemons -> DaemonState] /\ command \in [Commands -> CommandState]
      /\ conn \in [Commands \X Calls -> Connection]
      /\ conn' \in [Commands \X Calls -> Connection]
  <2>1. TypeInv /\ TypeInv' /\ TypeOK /\ TypeOK'
    BY NextTypeInv DEF AnswerInv, TypeInv
  <2>2. conn' \in [Commands \X Calls -> Connection] /\ prompt' \subseteq Daemons
    BY <2>1 DEF TypeOK, Connection
  <2> QED
    BY <2>1, <2>2, TypeOKDef DEF AnswerInv
<1>1. \A d \in Daemons : Lives(d)
  BY <1>0, DaemonsMove
<1>2. \A k \in Commands \X Calls : Goes(k)
  BY <1>0, CallsMove
<1>3. \A c \in Commands :
           /\ command'[c].hash = command[c].hash \/ command[c].step = "loaded"
           /\ command'[c].step \in Before => command[c].step \in Before
  BY <1>0, CommandsMove
<1>4. CallsAreReal'
  <2> SUFFICES ASSUME NEW k \in Commands \X Calls, conn'[k].at # Nobody
               PROVE  /\ daemon'[conn'[k].at].state # "unborn"
                      /\ command'[k[1]].step \notin Before
    BY DEF CallsAreReal, Born
  <2>1. Born(conn'[k].at) /\ command[k[1]].step \notin Before
    BY <1>0, <1>2 DEF Goes, CallsAreReal
  <2>2. conn'[k].at \in Daemons
    BY <1>0 DEF Connection
  <2> QED
    BY <1>1, <1>3, <2>1, <2>2 DEF Lives
<1>5. CallsMatch'
  <2> SUFFICES ASSUME NEW k \in Commands \X Calls, conn'[k].state = "running" \/ conn'[k].reply = "ok"
               PROVE  conn'[k].at # Nobody /\ Matches(k)'
    BY DEF CallsMatch
  <2>1. CASE conn'[k].at = conn[k].at /\ (conn[k].state = "running" \/ conn[k].reply = "ok")
    <3>1. conn[k].at \in Daemons /\ Matches(k) /\ Born(conn[k].at)
          /\ command[k[1]].step # "loaded" /\ conn[k].at # Nobody
      BY <1>0, <2>1 DEF CallsMatch, CallsAreReal, Connection, Before
    <3>2. command'[k[1]].hash = command[k[1]].hash
      BY <1>3, <3>1
    <3>3. daemon[conn[k].at].hash # Unset
      BY <3>1 DEF Matches
    <3>4. daemon'[conn[k].at].db = daemon[conn[k].at].db
          /\ daemon'[conn[k].at].hash = daemon[conn[k].at].hash
      BY <1>1, <3>1, <3>3 DEF Lives
    <3> QED
      BY <2>1, <3>1, <3>2, <3>4 DEF Matches
  <2>2. CASE conn'[k].at = conn[k].at /\ conn[k].at # Nobody /\ Matches(k)'
    BY <2>2
  <2> QED
    BY <1>2, <2>1, <2>2 DEF Goes
<1>6. PromptOnesKnow'
  <2> SUFFICES ASSUME NEW d \in prompt'
               PROVE  daemon'[d].state # "unborn" /\ daemon'[d].hash = daemon'[d].code
    BY DEF PromptOnesKnow, Born
  <2>1. d \in Daemons /\ Lives(d)
    BY <1>0, <1>1
  <2>2. CASE d \in prompt
    <3>1. Born(d) /\ daemon[d].hash = daemon[d].code
      BY <1>0, <2>2 DEF PromptOnesKnow
    <3>2. daemon[d].code \in Nat
      BY <1>0, <2>1 DEF DaemonState
    <3>3. daemon[d].hash # Unset
      BY <3>1, <3>2 DEF Unset
    <3> QED
      BY <2>1, <3>1, <3>3 DEF Lives
  <2>3. CASE d \notin prompt
    BY <2>1, <2>3 DEF Lives
  <2> QED
    BY <2>2, <2>3
<1> QED
  BY <1>0, <1>4, <1>5, <1>6 DEF AnswerInv

\* Whatever daemon the socket led to, an answer that a command accepts was computed in
\* the command's own database, and by its own build unless the daemon or the command
\* hashed the code only after an edit.
THEOREM AnswersAreOnesOwn == Spec => []AnswersMatchTheCommand
<1>1. AnswerInv => AnswersMatchTheCommand
  BY DEF AnswerInv, CallsMatch, PromptOnesKnow, Matches, AnswersMatchTheCommand
<1> QED
  BY InitAnswerInv, NextAnswerInv, <1>1, PTL DEF Spec

-----------------------------------------------------------------------------
(* The runtime is a transport *)

Writes(c) == Kind[c] \in {"remember", "post"}
Recorded(c) == Contains(log[Database[c]], c)

\* A command that has reported success has no report left to make, one that looks for a
\* daemon to warm has reported, and only a remote client posts.
Progresses(c) ==
    /\ command[c].result = "ok" => command[c].step \in {"warm", "spawn", "done"}
    /\ command[c].step \in {"warm", "spawn"} => command[c].result = "ok"
    /\ Kind[c] = "post" => command[c].step \in {"absent", "idle", "post", "waiting", "done"}
    /\ command[c].step \in {"post", "waiting"} => Kind[c] = "post"
    /\ http[c].attempt > 0 => Kind[c] = "post"

\* An acknowledged statement is in the log of its command's own database.
Acknowledged(c) ==
    http[c].reply = "ok" \/ (Kind[c] = "remember" /\ conn[<<c, "op">>].reply = "ok") => Recorded(c)

EffectInv == AnswerInv /\ \A c \in Commands : Progresses(c) /\ Acknowledged(c)

LEMMA RecordKeeps ==
  ASSUME log \in [Databases -> Seq(Commands)], NEW c \in Commands, NEW x \in Commands,
         Record(Database[c], c)
  PROVE  Recorded(c)' /\ (Recorded(x) => Recorded(x)')
<1> DEFINE b == Database[c]
           s == log[b]
<1>1. b \in Databases /\ s \in Seq(Commands) /\ Database[x] \in Databases
  BY DatabaseType
<1>2. /\ \A y \in Databases \ {b} : log'[y] = log[y]
      /\ log'[b] = IF s # <<>> /\ Last(s) = c THEN s ELSE Append(s, c)
  BY <1>1, RecordType
<1>3. \/ log'[b] = s /\ s # <<>> /\ Last(s) = c
      \/ log'[b] = Append(s, c)
  BY <1>2
<1>4. CASE log'[b] = s /\ s # <<>> /\ Last(s) = c
  <2>1. Len(s) \in 1..Len(s) /\ s[Len(s)] = c
    BY <1>1, <1>4 DEF Last
  <2>2. \A y \in Databases : log'[y] = log[y]
    BY <1>2, <1>4
  <2> QED
    BY <1>1, <1>4, <2>1, <2>2 DEF Recorded, Contains
<1>5. CASE log'[b] = Append(s, c)
  <2>1. /\ Len(s) \in Nat /\ Len(Append(s, c)) = Len(s) + 1 /\ Append(s, c)[Len(s) + 1] = c
        /\ \A i \in 1..Len(s) : Append(s, c)[i] = s[i]
    BY <1>1
  <2>2. Recorded(c)'
    BY <1>5, <2>1 DEF Recorded, Contains
  <2>3. ASSUME Recorded(x) PROVE Recorded(x)'
    <3>1. CASE Database[x] = b
      <4>1. PICK i \in 1..Len(s) : s[i] = x
        BY <2>3, <3>1 DEF Recorded, Contains
      <4>2. i \in 1..Len(Append(s, c)) /\ Append(s, c)[i] = x
        BY <2>1, <4>1
      <4> QED
        BY <1>5, <3>1, <4>2 DEF Recorded, Contains
    <3>2. CASE Database[x] # b
      BY <1>1, <1>2, <2>3, <3>2 DEF Recorded
    <3> QED
      BY <3>1, <3>2
  <2> QED
    BY <2>2, <2>3
<1> QED
  BY <1>3, <1>4, <1>5

\* What command c does to the archives and to its own report.
CommandEffect(c) ==
    \/ log' = log /\ (command'[c].result = "ok" <=> command[c].result = "ok")
    \/ /\ command'[c].result = "ok"
       /\ \/ Writes(c) /\ Record(Database[c], c)
          \/ log' = log /\ (Writes(c) => Recorded(c))

LEMMA CommandEffects ==
  ASSUME EffectInv, NEW c \in Commands, CommandStep(c)
  PROVE  /\ CommandEffect(c)
         /\ Progresses(c)'
<1>0. /\ TypeOK /\ Progresses(c) /\ Acknowledged(c) /\ Kind[c] \in {"recall", "remember", "stop", "post"}
      /\ http \in [Commands -> Posting] /\ Attempts \in Nat
      /\ command[c] \in CommandState
  BY TypeOKDef, RuntimeAssumption, AttemptsType DEF EffectInv, AnswerInv, TypeInv
<1>1. CASE Post(c)
  <2>1. command'[c].step = "waiting" /\ command'[c].result = command[c].result
    BY <1>0, <1>1, EnterMoves DEF Post
  <2> QED
    BY <1>0, <1>1, <2>1 DEF Post, CommandEffect, Progresses
<1>2. CASE Return(c) \/ TimeOut(c)
  <2>1. command[c].step = "waiting" /\ log' = log /\ http'[c].attempt = http[c].attempt
    BY <1>0, <1>2 DEF Return, TimeOut, Posting
  <2>2. CASE TryAgain(c)
    BY <1>0, <2>1, <2>2, TryAgainMoves DEF CommandEffect, Progresses
  <2>3. CASE End(c, "error")
    BY <1>0, <2>1, <2>3, EndMoves DEF CommandEffect, Progresses
  <2>4. CASE End(c, "ok") /\ http[c].reply = "ok"
    BY <1>0, <2>1, <2>4, EndMoves DEF CommandEffect, Progresses, Acknowledged
  <2> QED
    BY <1>2, <2>2, <2>3, <2>4 DEF Return, TimeOut
<1>3. CASE FirstCall(c) \/ Connect(c) \/ Unlink(c) \/ GiveUp(c) \/ Receive(c)
  <2>1. /\ command[c].step \in {"loaded", "connect", "refused", "reconnect", "sent"}
        /\ log' = log /\ http' = http /\ Kind[c] # "post"
    BY <1>0, <1>3 DEF FirstCall, Connect, Unlink, GiveUp, Receive, Progresses
  <2>2. CASE \E step \in {"refused", "reconnect", "sent"} : Enter(c, step)
    BY <1>0, <2>1, <2>2, EnterMoves DEF CommandEffect, Progresses
  <2>3. CASE NoAnswer(c)
    BY <1>0, <2>1, <2>3, NoAnswerMoves DEF CommandEffect, Progresses, Writes
  <2>4. CASE \E reply : Answer(c, reply) /\ reply = conn[<<c, command[c].call>>].reply
    <3>1. PICK reply : Answer(c, reply) /\ reply = conn[<<c, command[c].call>>].reply
      BY <2>4
    <3>2. \/ NoAnswer(c)
          \/ command[c].call = "op" /\ reply = "ok" /\ Succeed(c)
          \/ Ask(c, "shutdown")
          \/ End(c, "error")
      BY <1>0, <3>1, AnswerMoves
    <3>3. CASE Ask(c, "shutdown")
      BY <1>0, <2>1, <3>3, AskMoves DEF CommandEffect, Progresses, Calls
    <3>4. CASE End(c, "error")
      BY <1>0, <2>1, <3>4, EndMoves DEF CommandEffect, Progresses
    <3>5. CASE command[c].call = "op" /\ reply = "ok" /\ Succeed(c)
      <4>1. Writes(c) => Recorded(c)
        BY <1>0, <2>1, <3>1, <3>5 DEF Writes, Acknowledged
      <4> QED
        BY <1>0, <2>1, <3>5, <4>1, SucceedMoves DEF CommandEffect, Progresses
    <3> QED
      BY <2>3, <3>2, <3>3, <3>4, <3>5
  <2>5. CASE FirstCall(c)
    BY <1>0, <2>1, <2>5, FirstCallMoves DEF CommandEffect, Progresses
  <2> QED
    BY <1>3, <2>2, <2>3, <2>4, <2>5 DEF Connect, Unlink, GiveUp, Receive
<1>4. CASE RunLocally(c)
  <2>1. command[c].step = "local" /\ http' = http /\ Kind[c] # "post"
    BY <1>0, <1>4 DEF RunLocally, Progresses
  <2>2. CASE Succeed(c) /\ (IF Kind[c] = "remember" THEN Record(Database[c], c) ELSE UNCHANGED log)
    BY <1>0, <2>1, <2>2, SucceedMoves DEF CommandEffect, Progresses, Writes
  <2>3. CASE End(c, "error") /\ UNCHANGED log
    BY <1>0, <2>1, <2>3, EndMoves DEF CommandEffect, Progresses
  <2> QED
    BY <1>4, <2>2, <2>3 DEF RunLocally
<1>5. CASE Warmup(c)
  <2>1. /\ command[c].step = "warm" /\ http' = http /\ log' = log
        /\ Kind[c] # "post" /\ command[c].result = "ok"
    BY <1>0, <1>5 DEF Warmup, Progresses
  <2>2. command'[c].step \in {"done", "spawn"} /\ command'[c].result = command[c].result
    BY <1>0, <1>5, EnterMoves DEF Warmup
  <2> QED
    BY <1>0, <2>1, <2>2 DEF CommandEffect, Progresses
<1>6. CASE Spawn(c)
  <2>1. /\ command[c].step = "spawn" /\ http' = http /\ log' = log
        /\ Kind[c] # "post" /\ command[c].result = "ok"
    BY <1>0, <1>6 DEF Spawn, Progresses
  <2>2. command'[c].step = "done" /\ command'[c].result = "ok"
    BY <1>0, <1>6, EndMoves DEF Spawn
  <2> QED
    BY <1>0, <2>1, <2>2 DEF CommandEffect, Progresses
<1> QED
  BY <1>1, <1>2, <1>3, <1>4, <1>5, <1>6 DEF CommandStep

LEMMA ServiceEffects ==
  ASSUME EffectInv, NEW c \in Commands, Service(c)
  PROVE  /\ UNCHANGED <<local, command>> /\ Kind[c] = "post"
         /\ command[c].step \notin {"absent", "idle"}
         /\ log' = log \/ Record(Database[c], c)
         /\ \A x \in Commands \ {c} : http'[x] = http[x]
         /\ http'[c].attempt = http[c].attempt
         /\ http'[c].reply = "ok" => http[c].reply = "ok" \/ Record(Database[c], c)
<1>0. /\ TypeOK /\ HttpFits /\ Progresses(c) /\ http \in [Commands -> Posting] /\ Attempts \in Nat
      /\ http[c].late \in 0..Attempts /\ http[c].attempt \in 0..Attempts
      /\ http[c].late + (IF http[c].reply = "pending" THEN 1 ELSE 0) <= http[c].attempt
  BY TypeOKDef, AttemptsType DEF EffectInv, AnswerInv, TypeInv, HttpFits, Posting
<1>1. http[c].reply = "pending" \/ http[c].late > 0
  BY DEF Service, Serve, Unavailable, ServeLate
<1>2. http[c].attempt > 0
  BY <1>0, <1>1
<1>3. command[c].step \notin {"absent", "idle"} /\ Kind[c] = "post"
  BY <1>0, <1>2 DEF HttpFits, Progresses
<1>4. /\ \A x \in Commands \ {c} : http'[x] = http[x]
      /\ http'[c].attempt = http[c].attempt
      /\ http'[c].reply = "ok" => http[c].reply = "ok" \/ Record(Database[c], c)
  <2>1. CASE Serve(c)
    BY <1>0, <2>1 DEF Serve, Posting
  <2>2. CASE Unavailable(c)
    BY <1>0, <2>2 DEF Unavailable, Posting
  <2>3. CASE ServeLate(c)
    BY <1>0, <2>3 DEF ServeLate, Posting
  <2> QED
    BY <2>1, <2>2, <2>3 DEF Service
<1> QED
  BY <1>3, <1>4 DEF Service, Serve, Unavailable, ServeLate

LEMMA RequestEffects ==
  ASSUME EffectInv, NEW k \in Commands \X Calls, Request(k)
  PROVE  /\ UNCHANGED <<command, http>>
         /\ command[k[1]].step \notin {"absent", "idle"}
         /\ \/ log' = log
            \/ Kind[k[1]] = "remember" /\ Record(Database[k[1]], k[1]) /\ Dispatch(k)
         /\ \A x \in (Commands \X Calls) \ {k} : conn'[x] = conn[x]
         /\ conn'[k].reply = "ok" =>
              \/ conn[k].reply = "ok" \/ k[2] = "shutdown"
              \/ Dispatch(k) /\ (Kind[k[1]] = "remember" => Record(Database[k[1]], k[1]))
<1>0. /\ TypeOK /\ CallsReach /\ CallsAreReal /\ CallsMatch
      /\ conn \in [Commands \X Calls -> Connection]
  BY TypeOKDef DEF EffectInv, AnswerInv, TypeInv
<1>1. UNCHANGED <<command, http>>
  BY DEF Request, Admit, Handle, HandleShutdown, Dispatch
<1>2. command[k[1]].step \notin {"absent", "idle"}
  <2>1. conn[k].state # "none"
    BY DEF Request, Admit, Handle, HandleShutdown, Dispatch
  <2> QED
    BY <1>0, <2>1 DEF CallsReach, CallsAreReal, Before
<1>3. CASE Admit(k)
  BY <1>0, <1>1, <1>2, <1>3 DEF Admit, Connection
<1>4. ASSUME NEW reply \in Errors, Reply(k, reply), log' = log
      PROVE  /\ \A x \in (Commands \X Calls) \ {k} : conn'[x] = conn[x]
             /\ conn'[k].reply # "ok"
  BY <1>0, <1>4, ReplyMoves DEF Errors
<1>5. CASE Handle(k)
  <2>1. CASE conn' = [conn EXCEPT ![k].state = "running"]
    BY <1>0, <1>1, <1>2, <1>5, <2>1 DEF Handle, Connection
  <2> QED
    BY <1>1, <1>2, <1>4, <1>5, <2>1 DEF Handle, Errors
<1>6. CASE HandleShutdown(k)
  BY <1>0, <1>1, <1>2, <1>6, ReplyMoves DEF HandleShutdown
<1>7. CASE Dispatch(k)
  <2>1. conn[k].state = "running" /\ daemon[conn[k].at].db = Database[k[1]]
    BY <1>0, <1>7 DEF Dispatch, CallsMatch, Matches
  <2>2. CASE Reply(k, "ok")
    <3>1. /\ \A x \in (Commands \X Calls) \ {k} : conn'[x] = conn[x]
          /\ conn'[k].at = conn[k].at
      BY <1>0, <2>2, ReplyMoves
    <3>2. Reply(k, "ok") => ~Reply(k, "runtime_failed")
      <4>1. ASSUME Reply(k, "ok"), Reply(k, "runtime_failed") PROVE FALSE
        BY <1>0, <4>1, ReplyMoves DEF Errors
      <4> QED
        BY <4>1
    <3>3. IF Kind[k[1]] = "remember" THEN Record(Database[k[1]], k[1]) ELSE UNCHANGED log
      BY <1>7, <2>1, <2>2, <3>2 DEF Dispatch
    <3> QED
      BY <1>1, <1>2, <1>7, <3>1, <3>3
  <2>3. CASE Reply(k, "runtime_failed") /\ UNCHANGED log
    BY <1>1, <1>2, <1>4, <2>3 DEF Errors
  <2> QED
    BY <1>7, <2>2, <2>3 DEF Dispatch
<1> QED
  BY <1>3, <1>5, <1>6, <1>7 DEF Request

LEMMA DaemonEffects ==
  ASSUME EffectInv, NEW d \in Daemons, DaemonStep(d) \/ Kill(d)
  PROVE  /\ UNCHANGED <<command, http, log>>
         /\ \A x \in Commands \X Calls : conn'[x].reply = conn[x].reply
<1>1. UNCHANGED <<command, http, log>> /\ (UNCHANGED conn \/ conn' = Dropped(d))
  BY DEF DaemonStep, Shutdown, ClearPath, Bind, Idle, CloseServer, Exit, Kill
<1> QED
  BY <1>1, DroppedMoves DEF EffectInv, AnswerInv, TypeInv

\* Every step is one of these, as far as the archives and the reports are concerned.
LEMMA StepEffects ==
  ASSUME EffectInv, [Next]_vars
  PROVE  \/ UNCHANGED <<log, command>>
         \/ \E c \in Commands :
              /\ command[c].step = "idle" /\ Start(c)
         \/ \E c \in Commands : CommandStep(c) /\ CommandEffect(c)
         \/ \E c \in Commands :
              /\ Writes(c) /\ command[c].step \notin {"absent", "idle"}
              /\ Record(Database[c], c) /\ UNCHANGED command
<1>1. ASSUME NEW c \in Commands, Service(c)
      PROVE  \/ UNCHANGED <<log, command>>
             \/ /\ Writes(c) /\ command[c].step \notin {"absent", "idle"}
                /\ Record(Database[c], c) /\ UNCHANGED command
  BY <1>1, ServiceEffects DEF Writes
<1>2. ASSUME NEW k \in Commands \X Calls, Request(k)
      PROVE  \/ UNCHANGED <<log, command>>
             \/ /\ k[1] \in Commands /\ Writes(k[1]) /\ command[k[1]].step \notin {"absent", "idle"}
                /\ Record(Database[k[1]], k[1]) /\ UNCHANGED command
  BY <1>2, RequestEffects DEF Writes
<1>3. ASSUME NEW c \in Commands, Start(c) \/ CommandStep(c)
      PROVE  \/ command[c].step = "idle" /\ Start(c)
             \/ CommandStep(c) /\ CommandEffect(c)
  BY <1>3, CommandEffects DEF Start
<1>4. ASSUME NEW d \in Daemons, DaemonStep(d) \/ Kill(d)
      PROVE  UNCHANGED <<log, command>>
  BY <1>4, DaemonEffects
<1>5. ASSUME EditCode \/ UNCHANGED vars
      PROVE  UNCHANGED <<log, command>>
  BY <1>5 DEF EditCode, vars
<1> QED
  BY <1>1, <1>2, <1>3, <1>4, <1>5 DEF Next

LEMMA RecordedStays ==
  ASSUME EffectInv, [Next]_vars, NEW x \in Commands, Recorded(x)
  PROVE  Recorded(x)'
<1>0. log \in [Databases -> Seq(Commands)]
  BY TypeOKDef DEF EffectInv, AnswerInv, TypeInv
<1>1. CASE log' = log
  BY <1>1 DEF Recorded
<1>2. CASE \E c \in Commands : Record(Database[c], c)
  BY <1>0, <1>2, RecordKeeps
<1>3. log' = log \/ \E c \in Commands : Record(Database[c], c)
  BY StepEffects DEF CommandEffect, Start
<1> QED
  BY <1>1, <1>2, <1>3

LEMMA CommandAnswers ==
  ASSUME TypeInv, NEW c \in Commands, CommandStep(c)
  PROVE  /\ \A x \in Commands \ {c} : http'[x] = http[x]
         /\ http'[c].reply = "ok" => http[c].reply = "ok"
         /\ \A x \in Commands \X Calls : conn'[x].reply = "ok" => conn[x].reply = "ok"
<1>0. /\ conn \in [Commands \X Calls -> Connection] /\ http \in [Commands -> Posting]
  BY TypeOKDef DEF TypeInv
<1>1. CASE Post(c) \/ Return(c) \/ TimeOut(c)
  <2>1. UNCHANGED conn
    BY <1>1 DEF Post, Return, TimeOut, local
  <2>2. CASE Post(c)
    BY <1>0, <2>1, <2>2 DEF Post, Posting
  <2>3. CASE Return(c)
    BY <1>0, <2>1, <2>3 DEF Return, Posting
  <2>4. CASE TimeOut(c)
    BY <1>0, <2>1, <2>4 DEF TimeOut, Posting
  <2> QED
    BY <1>1, <2>2, <2>3, <2>4
<1>2. CASE Connect(c)
  <2>1. http' = http
    BY <1>2 DEF Connect
  <2>2. CASE conn' = [conn EXCEPT ![<<c, command[c].call>>] =
                            [state |-> "queued", at |-> socket, reply |-> "none"]]
    BY <1>0, <2>1, <2>2
  <2> QED
    BY <1>2, <2>1, <2>2 DEF Connect
<1>3. CASE Receive(c)
  BY <1>0, <1>3 DEF Receive, Connection
<1>4. CASE UNCHANGED <<conn, http>>
  BY <1>4
<1> QED
  BY <1>1, <1>2, <1>3, <1>4 DEF CommandStep, FirstCall, Unlink, GiveUp, RunLocally, Warmup,
       Spawn

LEMMA InitCommands ==
  ASSUME Init
  PROVE  \A c \in Commands : command[c].step \in {"absent", "idle"} /\ command[c].result = "none"
<1>1. PICK crew \in Crews :
         command = [c \in Commands |->
                      [step |-> IF c \in crew THEN "idle" ELSE "absent",
                       call |-> "op", code |-> 0, hash |-> Unset, result |-> "none"]]
  BY DEF Init
<1> QED
  BY <1>1

LEMMA InitEffectInv == Init => EffectInv
<1> SUFFICES ASSUME Init PROVE EffectInv
  OBVIOUS
<1>1. \A k \in Commands \X Calls : conn[k].reply = "none"
  BY DEF Init, NoCall
<1>2. \A c \in Commands : http[c].attempt = 0 /\ http[c].reply = "none"
  BY DEF Init, NoPost
<1>3. \A c \in Commands : command[c].step \in {"absent", "idle"} /\ command[c].result = "none"
  BY InitCommands
<1>4. \A c \in Commands : <<c, "op">> \in Commands \X Calls
  BY DEF Calls
<1> QED
  BY <1>1, <1>2, <1>3, <1>4, InitAnswerInv DEF EffectInv, Progresses, Acknowledged

LEMMA NextEffectInv == EffectInv /\ [Next]_vars => EffectInv'
<1> SUFFICES ASSUME EffectInv, [Next]_vars PROVE EffectInv'
  OBVIOUS
<1>0. /\ TypeInv /\ AnswerInv' /\ \A x \in Commands : Progresses(x) /\ Acknowledged(x)
      /\ log \in [Databases -> Seq(Commands)]
      /\ \A x \in Commands : <<x, "op">> \in Commands \X Calls
  BY NextAnswerInv, TypeOKDef DEF EffectInv, AnswerInv, TypeInv, Calls
<1>1. \A x \in Commands : Recorded(x) => Recorded(x)'
  BY RecordedStays
<1>2. ASSUME UNCHANGED <<command, http>>
      PROVE  \A x \in Commands : Progresses(x)'
  BY <1>0, <1>2 DEF Progresses
<1>3. ASSUME UNCHANGED http, \A x \in Commands \X Calls : conn'[x].reply = conn[x].reply
      PROVE  \A x \in Commands : Acknowledged(x)'
  BY <1>0, <1>1, <1>3 DEF Acknowledged
<1>4. ASSUME NEW c \in Commands, Start(c)
      PROVE  \A x \in Commands : Progresses(x)' /\ Acknowledged(x)'
  <2>1. UNCHANGED <<conn, http>>
    BY <1>4 DEF Start
  <2>2. /\ command[c].step = "idle" /\ command'[c].result = command[c].result
        /\ command'[c].step = (IF Kind[c] = "post" THEN "post" ELSE "loaded")
        /\ \A x \in Commands \ {c} : command'[x] = command[x]
    <3>1. command \in [Commands -> CommandState]
      BY <1>0, TypeOKDef DEF TypeInv
    <3>2. CASE Kind[c] = "post"
      BY <1>4, <3>1, <3>2 DEF Start, CommandState
    <3>3. CASE Kind[c] # "post"
      BY <1>4, <3>1, <3>3 DEF Start, CommandState
    <3> QED
      BY <3>2, <3>3
  <2>3. \A x \in Commands : Progresses(x)'
    BY <1>0, <2>1, <2>2 DEF Progresses
  <2> QED
    BY <1>3, <2>1, <2>3
<1>5. ASSUME NEW c \in Commands, CommandStep(c)
      PROVE  \A x \in Commands : Progresses(x)' /\ Acknowledged(x)'
  <2>1. /\ \A x \in Commands \ {c} : http'[x] = http[x]
        /\ http'[c].reply = "ok" => http[c].reply = "ok"
        /\ \A x \in Commands \X Calls : conn'[x].reply = "ok" => conn[x].reply = "ok"
    BY <1>0, <1>5, CommandAnswers
  <2>2. Progresses(c)' /\ Moved(c)
    BY <1>0, <1>5, CommandEffects, CommandStepMoves
  <2>3. \A x \in Commands \ {c} : Progresses(x)'
    BY <1>0, <2>1, <2>2 DEF Progresses, Moved
  <2>4. \A x \in Commands : Acknowledged(x)'
    BY <1>0, <1>1, <2>1 DEF Acknowledged
  <2> QED
    BY <2>2, <2>3, <2>4
<1>6. ASSUME NEW c \in Commands, Service(c)
      PROVE  \A x \in Commands : Progresses(x)' /\ Acknowledged(x)'
  <2>1. /\ UNCHANGED <<local, command>>
        /\ \A x \in Commands \ {c} : http'[x] = http[x]
        /\ http'[c].attempt = http[c].attempt
        /\ http'[c].reply = "ok" => http[c].reply = "ok" \/ Record(Database[c], c)
    BY <1>6, ServiceEffects
  <2>2. \A x \in Commands : Progresses(x)'
    BY <1>0, <2>1 DEF Progresses
  <2>3. Record(Database[c], c) => Recorded(c)'
    BY <1>0, RecordKeeps
  <2>4. \A x \in Commands : Acknowledged(x)'
    BY <1>0, <1>1, <2>1, <2>3 DEF Acknowledged, local
  <2> QED
    BY <2>2, <2>4
<1>7. ASSUME NEW k \in Commands \X Calls, Request(k)
      PROVE  \A x \in Commands : Progresses(x)' /\ Acknowledged(x)'
  <2>1. /\ UNCHANGED <<command, http>>
        /\ \A x \in (Commands \X Calls) \ {k} : conn'[x] = conn[x]
        /\ conn'[k].reply = "ok" =>
              \/ conn[k].reply = "ok" \/ k[2] = "shutdown"
              \/ Kind[k[1]] = "remember" => Record(Database[k[1]], k[1])
    BY <1>7, RequestEffects
  <2>2. k[1] \in Commands /\ (Record(Database[k[1]], k[1]) => Recorded(k[1])')
    BY <1>0, RecordKeeps
  <2>3. \A x \in Commands : Acknowledged(x)'
    BY <1>0, <1>1, <2>1, <2>2 DEF Acknowledged
  <2> QED
    BY <1>2, <2>1, <2>3
<1>8. ASSUME NEW d \in Daemons, DaemonStep(d) \/ Kill(d)
      PROVE  \A x \in Commands : Progresses(x)' /\ Acknowledged(x)'
  BY <1>2, <1>3, <1>8, DaemonEffects
<1>9. ASSUME EditCode \/ UNCHANGED vars
      PROVE  \A x \in Commands : Progresses(x)' /\ Acknowledged(x)'
  BY <1>2, <1>3, <1>9 DEF EditCode, vars
<1>10. \A x \in Commands : Progresses(x)' /\ Acknowledged(x)'
  BY <1>4, <1>5, <1>6, <1>7, <1>8, <1>9 DEF Next
<1> QED
  BY <1>0, <1>10 DEF EffectInv

-----------------------------------------------------------------------------

LEMMA SameLast == \A s : Effects!Last(s) = Last(s)
BY DEF Effects!Last, Last

LEMMA SameContains == \A s, x : Effects!Contains(s, x) <=> Contains(s, x)
BY DEF Effects!Contains, Contains

LEMMA SameRecord == \A b, c : Record(b, c) => Effects!Record(b, c)
BY SameLast DEF Effects!Record, Record

LEMMA InitMaps == Init => Effects!Init
<1> SUFFICES ASSUME Init PROVE Effects!Init
  OBVIOUS
<1>1. \A c \in Commands : command[c].step \in {"absent", "idle"} /\ command[c].result = "none"
  BY InitCommands
<1>2. log = [b \in {Database[c] : c \in Commands} |-> <<>>]
  BY DEF Init, Databases
<1> QED
  BY <1>1, <1>2 DEF Effects!Init

LEMMA NextMaps == EffectInv /\ [Next]_vars => [Effects!Next]_(Effects!state)
<1> DEFINE issued == {c \in Commands : command[c].step \notin {"absent", "idle"}}
           succeeded == {c \in Commands : command[c].result = "ok"}
           writers == {c \in Commands : Kind[c] \in {"remember", "post"}}
<1> SUFFICES ASSUME EffectInv, [Next]_vars PROVE [Effects!Next]_(Effects!state)
  OBVIOUS
<1>0. /\ TypeInv /\ log \in [Databases -> Seq(Commands)]
      /\ \A c \in Commands : Writes(c) <=> c \in writers
  BY TypeOKDef DEF EffectInv, AnswerInv, TypeInv, Writes
<1>1. CASE UNCHANGED <<log, command>>
  BY <1>1 DEF Effects!state
<1>2. ASSUME NEW c \in Commands, command[c].step = "idle", Start(c)
      PROVE  Effects!Next
  <2>1. /\ command'[c].result = command[c].result /\ command'[c].step \notin {"absent", "idle"}
        /\ \A x \in Commands \ {c} : command'[x] = command[x]
    <3>1. command \in [Commands -> CommandState]
      BY <1>0, TypeOKDef DEF TypeInv
    <3>2. CASE Kind[c] = "post"
      BY <1>2, <3>1, <3>2 DEF Start, CommandState
    <3>3. CASE Kind[c] # "post"
      BY <1>2, <3>1, <3>3 DEF Start, CommandState
    <3> QED
      BY <3>2, <3>3
  <2>2. issued' = issued \cup {c} /\ succeeded' = succeeded
    BY <2>1
  <2>3. log' = log
    BY <1>2 DEF Start
  <2>4. Effects!Issue(c)
    BY <2>2, <2>3 DEF Effects!Issue
  <2> QED
    BY <2>4 DEF Effects!Next
<1>3. ASSUME NEW c \in Commands, CommandStep(c), CommandEffect(c)
      PROVE  [Effects!Next]_(Effects!state)
  <2>1. /\ \A x \in Commands \ {c} : command'[x] = command[x]
        /\ command[c].step \notin {"absent", "idle"} /\ command'[c].step \notin {"absent", "idle"}
    BY <1>0, <1>3, CommandStepMoves DEF Moved, Before
  <2>2. issued' = issued /\ c \in issued
    BY <2>1
  <2>3. CASE log' = log /\ (command'[c].result = "ok" <=> command[c].result = "ok")
    <3>1. succeeded' = succeeded
      BY <2>1, <2>3
    <3> QED
      BY <2>2, <2>3, <3>1 DEF Effects!state
  <2>4. CASE /\ command'[c].result = "ok"
             /\ \/ Writes(c) /\ Record(Database[c], c)
                \/ log' = log /\ (Writes(c) => Recorded(c))
    <3>1. succeeded' = succeeded \cup {c}
      BY <2>1, <2>4
    <3>2. \/ c \in writers /\ Effects!Record(Database[c], c)
          \/ log' = log /\ (c \in writers => Effects!Contains(log[Database[c]], c))
      BY <1>0, <2>4, SameRecord, SameContains DEF Recorded
    <3>3. Effects!Succeed(c)
      BY <2>2, <3>1, <3>2 DEF Effects!Succeed
    <3> QED
      BY <3>3 DEF Effects!Next
  <2> QED
    BY <1>3, <2>3, <2>4 DEF CommandEffect
<1>4. ASSUME NEW c \in Commands, Writes(c), command[c].step \notin {"absent", "idle"},
             Record(Database[c], c), UNCHANGED command
      PROVE  Effects!Next
  <2>1. issued' = issued /\ succeeded' = succeeded /\ c \in issued \cap writers
    BY <1>0, <1>4
  <2>2. Effects!Record(Database[c], c)
    BY <1>4, SameRecord
  <2>3. Effects!Write(c)
    BY <2>1, <2>2 DEF Effects!Write
  <2> QED
    BY <2>3 DEF Effects!Next
<1> QED
  BY <1>1, <1>2, <1>3, <1>4, StepEffects

\* However a command is carried out -- by a daemon, in its own process, over HTTP, or
\* by several of them -- it writes to its own database alone, and reports success only
\* of what is written.
THEOREM RuntimeIsTransport == Spec => ImplementsCommandEffects
<1>1. Init => EffectInv /\ Effects!Init
  BY InitEffectInv, InitMaps
<1> QED
  BY <1>1, NextEffectInv, NextMaps, PTL DEF Spec, ImplementsCommandEffects, Effects!Spec

-----------------------------------------------------------------------------
(* Repeats are lost answers *)

\* What a step of command c leaves alone, and how it comes to make a call.
LEMMA CommandCalls ==
  ASSUME TypeInv, NEW c \in Commands, CommandStep(c)
  PROVE  /\ \A x \in Commands \X Calls : x[1] # c => conn'[x] = conn[x]
         /\ \A x \in Commands \X Calls :
              \/ conn'[x] = conn[x]
              \/ /\ Connect(c) /\ x = <<c, command[c].call>>
                 /\ conn'[x].state = "queued" /\ conn'[x].reply = "none"
              \/ /\ Receive(c)
                 /\ conn'[x].state = "none" /\ conn'[x].reply = conn[x].reply /\ conn'[x].at = conn[x].at
         /\ command'[c].step \in {"connect", "refused", "reconnect"} /\ command'[c].call = "op" =>
              /\ \/ command[c].step = "loaded"
                 \/ command[c].step \in {"connect", "refused", "reconnect"} /\ command[c].call = "op"
              /\ conn' = conn
<1>0. /\ TypeOK /\ conn \in [Commands \X Calls -> Connection]
      /\ <<c, command[c].call>> \in Commands \X Calls /\ command[c].call \in Calls
  BY TypeOKDef DEF TypeInv, CommandState
<1>1. CASE Connect(c)
  <2>1. CASE /\ conn' = [conn EXCEPT ![<<c, command[c].call>>] =
                            [state |-> "queued", at |-> socket, reply |-> "none"]]
             /\ Enter(c, "sent")
    <3>1. /\ \A x \in Commands \X Calls : x # <<c, command[c].call>> => conn'[x] = conn[x]
          /\ conn'[<<c, command[c].call>>].state = "queued"
          /\ conn'[<<c, command[c].call>>].reply = "none"
      BY <1>0, <2>1
    <3>2. command'[c].step = "sent"
      BY <1>0, <2>1, EnterMoves
    <3> QED
      BY <1>1, <3>1, <3>2
  <2>2. CASE /\ UNCHANGED conn
             /\ command[c].step = "connect" /\ Enter(c, "refused")
    <3>1. command'[c].step = "refused" /\ command'[c].call = command[c].call
      BY <1>0, <2>2, EnterMoves
    <3> QED
      BY <2>2, <3>1
  <2>3. CASE UNCHANGED conn /\ NoAnswer(c)
    <3>1. command'[c].step \notin {"connect", "refused", "reconnect"}
      BY <1>0, <2>3, NoAnswerMoves
    <3> QED
      BY <2>3, <3>1
  <2> QED
    BY <1>1, <2>1, <2>2, <2>3 DEF Connect
<1>2. CASE Unlink(c)
  <2>1. /\ command'[c].call = command[c].call /\ command[c].step = "refused" /\ conn' = conn
    BY <1>0, <1>2, EnterMoves DEF Unlink
  <2> QED
    BY <2>1
<1>3. CASE Receive(c)
  <2>1. \A x \in Commands \X Calls :
              \/ conn'[x] = conn[x]
              \/ /\ x = <<c, command[c].call>>
                 /\ conn'[x].state = "none" /\ conn'[x].reply = conn[x].reply /\ conn'[x].at = conn[x].at
    BY <1>0, <1>3 DEF Receive, Connection
  <2>2. command'[c].step \in {"connect", "refused", "reconnect"} => command'[c].call # "op"
    <3>1. CASE NoAnswer(c)
      BY <1>0, <3>1, NoAnswerMoves
    <3>2. ASSUME NEW reply, Answer(c, reply)
          PROVE  command'[c].step \in {"connect", "refused", "reconnect"} => command'[c].call # "op"
      <4>1. NoAnswer(c) \/ Succeed(c) \/ Ask(c, "shutdown") \/ End(c, "error")
        BY <1>0, <3>2, AnswerMoves
      <4>2. CASE Ask(c, "shutdown")
        BY <1>0, <4>2, AskMoves DEF Calls
      <4> QED
        BY <1>0, <4>1, <4>2, NoAnswerMoves, SucceedMoves, EndMoves
    <3> QED
      BY <1>3, <3>1, <3>2 DEF Receive
  <2> QED
    BY <1>3, <2>1, <2>2
<1>4. CASE Post(c) \/ Return(c) \/ TimeOut(c) \/ GiveUp(c) \/ RunLocally(c) \/ Warmup(c) \/ Spawn(c)
  <2>1. conn' = conn
    BY <1>4 DEF Post, Return, TimeOut, GiveUp, RunLocally, Warmup, Spawn, local
  <2>2. command'[c].step \notin {"connect", "refused", "reconnect"}
    BY <1>0, <1>4, EnterMoves, EndMoves, TryAgainMoves, NoAnswerMoves, SucceedMoves
       DEF Post, Return, TimeOut, GiveUp, RunLocally, Warmup, Spawn
  <2> QED
    BY <2>1, <2>2
<1>5. CASE FirstCall(c)
  BY <1>5 DEF FirstCall
<1> QED
  BY <1>1, <1>2, <1>3, <1>4, <1>5 DEF CommandStep

\* A call is answered once, a shutdown is not carried out as an operation, and a
\* command calls for its operation once.
OneAnswer ==
    /\ \A k \in Commands \X Calls : Open(k) => conn[k].reply = "none"
    /\ \A c \in Commands : conn[<<c, "shutdown">>].state # "running"
    /\ \A c \in Commands :
         command[c].step \in {"connect", "refused", "reconnect"} /\ command[c].call = "op" =>
           conn[<<c, "op">>].at = Nobody

LEMMA InitOneAnswer == Init => OneAnswer
<1> SUFFICES ASSUME Init PROVE OneAnswer
  OBVIOUS
<1>1. \A k \in Commands \X Calls :
          conn[k].at = Nobody /\ conn[k].state = "none" /\ conn[k].reply = "none"
  BY DEF Init, NoCall
<1>2. \A c \in Commands : <<c, "op">> \in Commands \X Calls /\ <<c, "shutdown">> \in Commands \X Calls
  BY DEF Calls
<1> QED
  BY <1>1, <1>2 DEF OneAnswer, Open

\* One conjunct of OneAnswer at a time.
LEMMA OneAnswerStep ==
  ASSUME OneAnswer,
         \A k \in Commands \X Calls :
             conn'[k].state \in {"queued", "admitted", "running"} =>
                 \/ Open(k) /\ conn'[k].reply = conn[k].reply
                 \/ conn'[k].reply = "none",
         \A c \in Commands :
             conn'[<<c, "shutdown">>].state = "running" => conn[<<c, "shutdown">>].state = "running",
         \A c \in Commands :
             command'[c].step \in {"connect", "refused", "reconnect"} /\ command'[c].call = "op" =>
                 \/ conn'[<<c, "op">>].at = Nobody
                 \/ /\ command[c].step \in {"connect", "refused", "reconnect"} /\ command[c].call = "op"
                    /\ conn'[<<c, "op">>].at = conn[<<c, "op">>].at
  PROVE  OneAnswer'
<1>1. \A k \in Commands \X Calls : Open(k)' => conn'[k].reply = "none"
  BY DEF OneAnswer, Open
<1>2. \A c \in Commands : conn'[<<c, "shutdown">>].state # "running"
  BY DEF OneAnswer
<1>3. \A c \in Commands :
         command'[c].step \in {"connect", "refused", "reconnect"} /\ command'[c].call = "op" =>
           conn'[<<c, "op">>].at = Nobody
  BY DEF OneAnswer
<1> QED
  BY <1>1, <1>2, <1>3 DEF OneAnswer

LEMMA NextOneAnswer ==
  ASSUME AnswerInv, OneAnswer, [Next]_vars
  PROVE  OneAnswer'
<1>0. /\ TypeInv /\ TypeOK /\ CallsAreReal
      /\ conn \in [Commands \X Calls -> Connection] /\ command \in [Commands -> CommandState]
  BY TypeOKDef DEF AnswerInv, TypeInv
<1>1. \A c \in Commands : <<c, "op">> \in Commands \X Calls /\ <<c, "shutdown">> \in Commands \X Calls
  BY DEF Calls
<1>2. ASSUME UNCHANGED <<conn, command>>
      PROVE  OneAnswer'
  BY <1>2 DEF OneAnswer, Open
<1>3. ASSUME NEW c \in Commands, Start(c)
      PROVE  OneAnswer'
  <2>1. UNCHANGED conn /\ \A x \in Commands \ {c} : command'[x] = command[x]
    BY <1>0, <1>3 DEF Start
  <2>2. conn[<<c, "op">>].at = Nobody
    BY <1>0, <1>1, <1>3 DEF CallsAreReal, Start, Before
  <2> QED
    BY <2>1, <2>2 DEF OneAnswer, Open
<1>4. ASSUME NEW c \in Commands, CommandStep(c)
      PROVE  OneAnswer'
  <2>1. \A x \in Commands \ {c} : command'[x] = command[x]
    BY <1>0, <1>4, CommandStepMoves DEF Moved
  <2>2. /\ \A x \in Commands \X Calls : x[1] # c => conn'[x] = conn[x]
        /\ \A x \in Commands \X Calls :
             \/ conn'[x] = conn[x]
             \/ conn'[x].state = "queued" /\ conn'[x].reply = "none"
             \/ conn'[x].state = "none"
        /\ command'[c].step \in {"connect", "refused", "reconnect"} /\ command'[c].call = "op" =>
              /\ \/ command[c].step = "loaded"
                 \/ command[c].step \in {"connect", "refused", "reconnect"} /\ command[c].call = "op"
              /\ conn' = conn
    BY <1>0, <1>4, CommandCalls
  <2>3. \A k \in Commands \X Calls :
             conn'[k].state \in {"queued", "admitted", "running"} =>
                 \/ Open(k) /\ conn'[k].reply = conn[k].reply
                 \/ conn'[k].reply = "none"
    BY <2>2 DEF Open
  <2>4. \A x \in Commands :
           conn'[<<x, "shutdown">>].state = "running" => conn[<<x, "shutdown">>].state = "running"
    BY <1>1, <2>2
  <2>5. \A x \in Commands :
             command'[x].step \in {"connect", "refused", "reconnect"} /\ command'[x].call = "op" =>
                 \/ conn'[<<x, "op">>].at = Nobody
                 \/ /\ command[x].step \in {"connect", "refused", "reconnect"} /\ command[x].call = "op"
                    /\ conn'[<<x, "op">>].at = conn[<<x, "op">>].at
    <3>1. command[c].step = "loaded" => conn[<<c, "op">>].at = Nobody
      BY <1>0, <1>1 DEF CallsAreReal, Before
    <3> QED
      BY <1>1, <2>1, <2>2, <3>1
  <2> QED
    BY <2>3, <2>4, <2>5, OneAnswerStep
<1>5. ASSUME NEW c \in Commands, Service(c)
      PROVE  OneAnswer'
  BY <1>2, <1>5 DEF Service, Serve, Unavailable, ServeLate, local
<1>6. ASSUME NEW d \in Daemons, DaemonStep(d) \/ Kill(d)
      PROVE  OneAnswer'
  <2>1. UNCHANGED command /\ (UNCHANGED conn \/ conn' = Dropped(d))
    BY <1>6 DEF DaemonStep, Shutdown, ClearPath, Bind, Idle, CloseServer, Exit, Kill
  <2>2. CASE conn' = Dropped(d)
    <3>1. \A k \in Commands \X Calls :
              /\ conn'[k].at = conn[k].at /\ conn'[k].reply = conn[k].reply
              /\ conn'[k].state = conn[k].state \/ (Open(k) /\ conn'[k].state = "dropped")
      BY <1>0, <2>2, DroppedMoves
    <3>2. /\ \A k \in Commands \X Calls :
             conn'[k].state \in {"queued", "admitted", "running"} =>
                 Open(k) /\ conn'[k].reply = conn[k].reply
          /\ \A k \in Commands \X Calls :
                conn'[k].state = "running" => conn[k].state = "running"
      BY <3>1 DEF Open
    <3> QED
      BY <1>1, <2>1, <3>1, <3>2, OneAnswerStep
  <2> QED
    BY <1>2, <2>1, <2>2
<1>7. ASSUME NEW k \in Commands \X Calls, Request(k)
      PROVE  OneAnswer'
  <2>1. UNCHANGED command
    BY <1>7 DEF Request, Admit, Handle, HandleShutdown, Dispatch
  <2>2. \/ conn' = [conn EXCEPT ![k].state = "admitted"] /\ conn[k].state = "queued"
        \/ /\ conn' = [conn EXCEPT ![k].state = "running"]
           /\ conn[k].state = "admitted" /\ k[2] = "op"
        \/ \E reply \in {"ok"} \cup Errors : Reply(k, reply)
    BY <1>7 DEF Request, Admit, Handle, HandleShutdown, Dispatch, Errors
  <2>3. /\ \A x \in (Commands \X Calls) \ {k} : conn'[x] = conn[x]
        /\ conn'[k].at = conn[k].at
        /\ \/ conn'[k].state = "answered"
           \/ /\ conn[k].state \in {"queued", "admitted"} /\ conn'[k].reply = conn[k].reply
              /\ conn'[k].state = "admitted" \/ (conn'[k].state = "running" /\ k[2] = "op")
    <3>1. CASE \E reply \in {"ok"} \cup Errors : Reply(k, reply)
      BY <1>0, <3>1, ReplyMoves
    <3> QED
      BY <1>0, <2>2, <3>1 DEF Connection
  <2>4. \A x \in Commands \X Calls :
             conn'[x].state \in {"queued", "admitted", "running"} =>
                 \/ Open(x) /\ conn'[x].reply = conn[x].reply
                 \/ conn'[x].reply = "none"
    BY <2>3 DEF Open
  <2>5. \A x \in Commands :
           conn'[<<x, "shutdown">>].state = "running" => conn[<<x, "shutdown">>].state = "running"
    <3> SUFFICES ASSUME NEW x \in Commands, conn'[<<x, "shutdown">>].state = "running"
                 PROVE  conn[<<x, "shutdown">>].state = "running"
      OBVIOUS
    <3>1. k # <<x, "shutdown">>
      <4>1. k = <<x, "shutdown">> => k[2] = "shutdown"
        OBVIOUS
      <4> QED
        BY <2>3, <4>1
    <3> QED
      BY <1>1, <2>3, <3>1
  <2>6. \A x \in Commands : conn'[<<x, "op">>].at = conn[<<x, "op">>].at
    BY <1>1, <2>3
  <2> QED
    BY <2>1, <2>4, <2>5, <2>6, OneAnswerStep
<1> QED
  BY <1>2, <1>3, <1>4, <1>5, <1>6, <1>7 DEF Next, EditCode, vars

-----------------------------------------------------------------------------

Pending(c) == IF http[c].reply = "pending" THEN 1 ELSE 0
Answered(c) == IF conn[<<c, "op">>].reply = "ok" THEN 1 ELSE 0
Ended(c) == IF command[c].step \in {"warm", "spawn", "done"} THEN 1 ELSE 0

\* How often command c may have been recorded so far.
Budget(c) ==
    IF Kind[c] = "post" THEN http[c].attempt - http[c].late - Pending(c) ELSE Answered(c) + Ended(c)

LEMMA BudgetType == ASSUME TypeOK, NEW c \in Commands PROVE Budget(c) \in Int
<1>1. http[c] \in Posting
  BY TypeOKDef
<1>2. http[c].attempt \in Nat /\ http[c].late \in Nat
  BY <1>1, AttemptsType DEF Posting
<1> QED
  BY <1>2 DEF Budget, Pending, Answered, Ended

LEMMA SameBudget ==
  ASSUME NEW x \in Commands, http'[x] = http[x], command'[x] = command[x],
         conn'[<<x, "op">>].reply = conn[<<x, "op">>].reply
  PROVE  Budget(x)' = Budget(x)
<1>1. Pending(x)' = Pending(x) /\ Answered(x)' = Answered(x) /\ Ended(x)' = Ended(x)
  BY DEF Pending, Answered, Ended
<1> QED
  BY <1>1 DEF Budget

\* A report more, and nothing else of a command that is not a remote client.
LEMMA MoreBudget ==
  ASSUME TypeOK, NEW x \in Commands, http'[x] = http[x], Answered(x) <= Answered(x)',
         Ended(x) <= Ended(x)'
  PROVE  Budget(x) <= Budget(x)'
<1>1. Pending(x)' = Pending(x)
  BY DEF Pending
<1>2. CASE Kind[x] = "post"
  <2>1. Budget(x)' = Budget(x)
    BY <1>1, <1>2 DEF Budget
  <2>2. Budget(x) \in Int
    BY BudgetType
  <2> QED
    BY <2>1, <2>2
<1>3. CASE Kind[x] # "post"
  <2>1. Answered(x) \in Int /\ Answered(x)' \in Int /\ Ended(x) \in Int /\ Ended(x)' \in Int
    BY DEF Answered, Ended
  <2> QED
    BY <1>3, <2>1 DEF Budget
<1> QED
  BY <1>2, <1>3

LEMMA CommandBudget ==
  ASSUME EffectInv, OneAnswer, NEW c \in Commands, CommandStep(c)
  PROVE  /\ \A x \in Commands : Budget(x) <= Budget(x)'
         /\ log' = log \/ (Record(Database[c], c) /\ Budget(c) + 1 <= Budget(c)')
<1>0. /\ TypeInv /\ TypeOK /\ CallsReach /\ Progresses(c)
      /\ http \in [Commands -> Posting] /\ Attempts \in Nat
      /\ http[c].attempt \in Nat /\ http[c].late \in Nat
      /\ \A x \in Commands : Budget(x) \in Int
      /\ \A x \in Commands : <<x, "op">> \in Commands \X Calls
  BY TypeOKDef, BudgetType, AttemptsType DEF EffectInv, AnswerInv, TypeInv, Posting, Calls
<1>1. \A x \in Commands \ {c} : Budget(x)' = Budget(x)
  <2>1. \A x \in Commands \ {c} : http'[x] = http[x] /\ command'[x] = command[x]
    BY <1>0, CommandAnswers, CommandStepMoves DEF Moved
  <2>2. \A x \in Commands \ {c} : conn'[<<x, "op">>] = conn[<<x, "op">>]
    BY <1>0, CommandCalls
  <2> QED
    BY <2>1, <2>2, SameBudget
<1>2. ASSUME Kind[c] = "post"
      PROVE  log' = log /\ Budget(c) <= Budget(c)'
  <2>1. Post(c) \/ Return(c) \/ TimeOut(c)
    BY <1>0, <1>2 DEF Progresses, CommandStep, FirstCall, Connect, Unlink, Receive, GiveUp,
       RunLocally, Warmup, Spawn
  <2>2. CASE Post(c)
    <3>1. /\ log' = log /\ http'[c].attempt = http[c].attempt + 1 /\ http'[c].late = http[c].late
          /\ http'[c].reply = "pending"
      BY <1>0, <2>2 DEF Post, Posting
    <3> QED
      BY <1>0, <1>2, <3>1 DEF Budget, Pending
  <2>3. CASE Return(c)
    <3>1. /\ log' = log /\ http'[c].attempt = http[c].attempt /\ http'[c].late = http[c].late
          /\ http'[c].reply = "none"
      BY <1>0, <2>3 DEF Return, Posting
    <3> QED
      BY <1>0, <1>2, <3>1 DEF Budget, Pending
  <2>4. CASE TimeOut(c)
    <3>1. PICK arrived \in (IF http[c].reply = "pending" THEN {0, 1} ELSE {0}) :
             http' = [http EXCEPT ![c].late = @ + arrived, ![c].reply = "none"]
      BY <2>4 DEF TimeOut
    <3>2. /\ log' = log /\ http'[c].attempt = http[c].attempt /\ http'[c].late = http[c].late + arrived
          /\ http'[c].reply = "none"
      BY <1>0, <2>4, <3>1 DEF TimeOut, Posting
    <3> QED
      BY <1>0, <1>2, <3>1, <3>2 DEF Budget, Pending
  <2> QED
    BY <2>1, <2>2, <2>3, <2>4
<1>3. ASSUME Kind[c] # "post"
      PROVE  /\ Budget(c) <= Budget(c)'
             /\ log' = log \/ (Record(Database[c], c) /\ Budget(c) + 1 <= Budget(c)')
  <2>1. Answered(c) <= Answered(c)'
    <3>1. CASE conn'[<<c, "op">>].reply = conn[<<c, "op">>].reply
      BY <3>1 DEF Answered
    <3>2. CASE Connect(c) /\ <<c, "op">> = <<c, command[c].call>>
      <4>1. conn[<<c, "op">>].at = Nobody
        BY <3>2 DEF Connect, OneAnswer
      <4>2. conn[<<c, "op">>].reply # "ok"
        BY <1>0, <4>1 DEF CallsReach
      <4> QED
        BY <4>2 DEF Answered
    <3> QED
      BY <1>0, <3>1, <3>2, CommandCalls
  <2>2. CASE RunLocally(c)
    <3>1. command[c].step = "local" /\ command'[c].step \in {"warm", "done"}
      BY <1>0, <2>2, SucceedMoves, EndMoves DEF RunLocally
    <3>2. log' = log \/ Record(Database[c], c)
      BY <2>2 DEF RunLocally
    <3> QED
      BY <1>3, <2>1, <3>1, <3>2 DEF Budget, Ended, Answered
  <2>3. CASE ~RunLocally(c)
    <3>1. log' = log
      BY <2>3 DEF CommandStep, Post, Return, TimeOut, FirstCall, Connect, Unlink, Receive, GiveUp,
         Warmup, Spawn
    <3>2. command[c].step \in {"warm", "spawn", "done"} => command'[c].step \in {"warm", "spawn", "done"}
      <4>1. Warmup(c) \/ Spawn(c) \/ command[c].step \notin {"warm", "spawn", "done"}
        BY DEF CommandStep, Post, Return, TimeOut, FirstCall, Connect, Unlink, Receive, GiveUp,
           RunLocally
      <4> QED
        BY <1>0, <4>1, EnterMoves, EndMoves DEF Warmup, Spawn
    <3> QED
      BY <1>3, <2>1, <3>1, <3>2 DEF Budget, Ended, Answered
  <2> QED
    BY <2>2, <2>3
<1> QED
  BY <1>0, <1>1, <1>2, <1>3

LEMMA ServiceBudget ==
  ASSUME EffectInv, NEW c \in Commands, Service(c)
  PROVE  /\ \A x \in Commands : Budget(x) <= Budget(x)'
         /\ log' = log \/ (Record(Database[c], c) /\ Budget(c) + 1 <= Budget(c)')
<1>0. /\ http \in [Commands -> Posting] /\ Attempts \in Nat
      /\ http[c].attempt \in Nat /\ http[c].late \in Nat
      /\ \A x \in Commands : Budget(x) \in Int
  BY TypeOKDef, BudgetType, AttemptsType DEF EffectInv, AnswerInv, TypeInv, Posting
<1>1. /\ Kind[c] = "post" /\ UNCHANGED <<local, command>>
      /\ \A x \in Commands \ {c} : http'[x] = http[x]
  BY ServiceEffects
<1>2. \A x \in Commands \ {c} : Budget(x)' = Budget(x)
  BY <1>1 DEF Budget, Pending, Answered, Ended, local
<1>3. CASE Serve(c)
  <2>1. /\ http'[c].attempt = http[c].attempt /\ http'[c].late = http[c].late
        /\ http'[c].reply # "pending" /\ http[c].reply = "pending"
        /\ log' = log \/ Record(Database[c], c)
    BY <1>0, <1>3 DEF Serve, Posting
  <2> QED
    BY <1>0, <1>1, <1>2, <2>1 DEF Budget, Pending
<1>4. CASE Unavailable(c)
  <2>1. PICK arrived \in {0, 1} :
          http' = [http EXCEPT ![c].late = @ + arrived, ![c].reply = "unavailable"]
    BY <1>4 DEF Unavailable
  <2>2. /\ http'[c].attempt = http[c].attempt /\ http'[c].late = http[c].late + arrived
        /\ http'[c].reply # "pending" /\ http[c].reply = "pending" /\ log' = log
    BY <1>0, <1>4, <2>1 DEF Unavailable, Posting
  <2> QED
    BY <1>0, <1>1, <1>2, <2>2 DEF Budget, Pending
<1>5. CASE ServeLate(c)
  <2>1. /\ http'[c].attempt = http[c].attempt /\ http'[c].late = http[c].late - 1
        /\ http'[c].reply = http[c].reply
        /\ log' = log \/ Record(Database[c], c)
    BY <1>0, <1>5 DEF ServeLate, Posting
  <2> QED
    BY <1>0, <1>1, <1>2, <2>1 DEF Budget, Pending
<1> QED
  BY <1>3, <1>4, <1>5 DEF Service

LEMMA RequestBudget ==
  ASSUME EffectInv, OneAnswer, NEW k \in Commands \X Calls, Request(k)
  PROVE  /\ \A x \in Commands : Budget(x) <= Budget(x)'
         /\ log' = log \/ (Record(Database[k[1]], k[1]) /\ Budget(k[1]) + 1 <= Budget(k[1])')
<1>0. /\ TypeOK /\ conn \in [Commands \X Calls -> Connection]
      /\ \A x \in Commands : Budget(x) \in Int
      /\ \A x \in Commands : <<x, "op">> \in Commands \X Calls
      /\ k[1] \in Commands
  BY TypeOKDef, BudgetType DEF EffectInv, AnswerInv, TypeInv, Calls
<1>1. /\ UNCHANGED <<command, http>>
      /\ \A x \in (Commands \X Calls) \ {k} : conn'[x] = conn[x]
      /\ log' = log \/ (Kind[k[1]] = "remember" /\ Record(Database[k[1]], k[1]) /\ Dispatch(k))
  BY RequestEffects
<1>2. conn[k].reply # "ok"
  <2>1. Open(k)
    BY DEF Request, Admit, Handle, HandleShutdown, Dispatch, Open
  <2> QED
    BY <2>1 DEF OneAnswer
<1>3. \A x \in Commands : Answered(x) <= Answered(x)'
  <2> SUFFICES ASSUME NEW x \in Commands
               PROVE  Answered(x) <= Answered(x)'
    OBVIOUS
  <2>1. CASE <<x, "op">> = k
    BY <1>2, <2>1 DEF Answered
  <2>2. CASE <<x, "op">> # k
    <3>1. conn'[<<x, "op">>] = conn[<<x, "op">>]
      BY <1>0, <1>1, <2>2
    <3> QED
      BY <3>1 DEF Answered
  <2> QED
    BY <2>1, <2>2
<1>4. \A x \in Commands : Budget(x) <= Budget(x)'
  <2> SUFFICES ASSUME NEW x \in Commands
               PROVE  Budget(x) <= Budget(x)'
    OBVIOUS
  <2>1. http'[x] = http[x] /\ Ended(x) <= Ended(x)'
    BY <1>1 DEF Ended
  <2> QED
    BY <1>0, <1>3, <2>1, MoreBudget
<1>5. ASSUME log' # log
      PROVE  Record(Database[k[1]], k[1]) /\ Budget(k[1]) + 1 <= Budget(k[1])'
  <2>1. Dispatch(k) /\ Kind[k[1]] = "remember" /\ Record(Database[k[1]], k[1])
    BY <1>1, <1>5
  <2>2. k = <<k[1], "op">>
    <3>1. k = <<k[1], k[2]>> /\ k[2] \in {"op", "shutdown"}
      BY DEF Calls
    <3>2. k[2] # "shutdown"
      BY <2>1, <3>1 DEF OneAnswer, Dispatch
    <3> QED
      BY <3>1, <3>2
  <2>3. conn'[k].reply = "ok"
    BY <1>0, <1>5, <2>1, ReplyMoves DEF Dispatch
  <2>4. Answered(k[1]) = 0 /\ Answered(k[1])' = 1
    BY <1>2, <2>2, <2>3 DEF Answered
  <2> QED
    BY <1>1, <2>1, <2>4 DEF Budget, Ended
<1> QED
  BY <1>4, <1>5

LEMMA StepBudget ==
  ASSUME EffectInv, OneAnswer, [Next]_vars
  PROVE  /\ \A x \in Commands : Budget(x) <= Budget(x)'
         /\ \/ log' = log
            \/ \E c \in Commands : Record(Database[c], c) /\ Budget(c) + 1 <= Budget(c)'
<1>0. TypeOK /\ \A x \in Commands : <<x, "op">> \in Commands \X Calls
  BY DEF EffectInv, AnswerInv, TypeInv, Calls
<1>1. ASSUME UNCHANGED <<command, http, log>>,
             \A x \in Commands \X Calls : conn'[x].reply = conn[x].reply
      PROVE  /\ \A x \in Commands : Budget(x) <= Budget(x)'
             /\ log' = log
  <2> SUFFICES ASSUME NEW x \in Commands
               PROVE  Budget(x) <= Budget(x)'
    BY <1>1
  <2>1. http'[x] = http[x] /\ Answered(x) <= Answered(x)' /\ Ended(x) <= Ended(x)'
    BY <1>0, <1>1 DEF Answered, Ended
  <2> QED
    BY <1>0, <2>1, MoreBudget
<1>2. ASSUME NEW c \in Commands, Start(c)
      PROVE  /\ \A x \in Commands : Budget(x) <= Budget(x)'
             /\ log' = log
  <2>1. /\ UNCHANGED <<conn, http, log>> /\ command[c].step = "idle"
        /\ \A x \in Commands \ {c} : command'[x] = command[x]
    <3>1. command \in [Commands -> CommandState]
      BY TypeOKDef DEF EffectInv, AnswerInv, TypeInv
    <3> QED
      BY <1>2, <3>1 DEF Start
  <2> SUFFICES ASSUME NEW x \in Commands
               PROVE  Budget(x) <= Budget(x)'
    BY <2>1
  <2>2. http'[x] = http[x] /\ Answered(x) <= Answered(x)'
    BY <2>1 DEF Answered
  <2>3. Ended(x) <= Ended(x)'
    BY <2>1 DEF Ended
  <2> QED
    BY <1>0, <2>2, <2>3, MoreBudget
<1>3. ASSUME NEW d \in Daemons, DaemonStep(d) \/ Kill(d)
      PROVE  /\ \A x \in Commands : Budget(x) <= Budget(x)'
             /\ log' = log
  BY <1>1, <1>3, DaemonEffects
<1>4. ASSUME EditCode \/ UNCHANGED vars
      PROVE  /\ \A x \in Commands : Budget(x) <= Budget(x)'
             /\ log' = log
  BY <1>1, <1>4 DEF EditCode, vars
<1>5. \A k \in Commands \X Calls : k[1] \in Commands
  OBVIOUS
<1> QED
  BY <1>2, <1>3, <1>4, <1>5, CommandBudget, ServiceBudget, RequestBudget DEF Next

-----------------------------------------------------------------------------

Times(b, c) == {i \in DOMAIN log[b] : log[b][i] = c}
NeverTwice(b, c) == \A i \in Times(b, c) : i + 1 \notin Times(b, c)

LEMMA TimesFinite ==
  ASSUME log \in [Databases -> Seq(Commands)], NEW b \in Databases, NEW c
  PROVE  IsFiniteSet(Times(b, c)) /\ Cardinality(Times(b, c)) \in Nat
<1>1. log[b] \in Seq(Commands)
  OBVIOUS
<1>2. Times(b, c) \subseteq 1..Len(log[b]) /\ Len(log[b]) \in Nat
  BY <1>1 DEF Times
<1>3. IsFiniteSet(1..Len(log[b]))
  BY <1>2, FS_Interval
<1>4. IsFiniteSet(Times(b, c))
  BY <1>2, <1>3, FS_Subset
<1> QED
  BY <1>4, FS_CardinalityType

LEMMA RecordTimes ==
  ASSUME log \in [Databases -> Seq(Commands)], NEW r \in Commands, Record(Database[r], r),
         NEW b \in Databases, NEW c \in Commands
  PROVE  /\ Cardinality(Times(b, c))' <= Cardinality(Times(b, c)) + (IF c = r THEN 1 ELSE 0)
         /\ NeverTwice(b, c) => NeverTwice(b, c)'
<1> DEFINE d == Database[r]
           s == log[b]
<1>0. d \in Databases /\ s \in Seq(Commands) /\ Cardinality(Times(b, c)) \in Nat
  BY DatabaseType, TimesFinite
<1>1. /\ \A y \in Databases \ {d} : log'[y] = log[y]
      /\ log'[d] = IF log[d] # <<>> /\ Last(log[d]) = r THEN log[d] ELSE Append(log[d], r)
  BY <1>0, RecordType
<1>2. CASE log'[b] = log[b]
  <2>1. Times(b, c)' = Times(b, c)
    BY <1>2 DEF Times
  <2>2. NeverTwice(b, c) => NeverTwice(b, c)'
    BY <2>1 DEF NeverTwice
  <2> QED
    BY <1>0, <2>1, <2>2
<1>3. CASE log'[b] = Append(s, r) /\ ~(s # <<>> /\ Last(s) = r)
  <2>1. /\ Len(s) \in Nat /\ DOMAIN s = 1..Len(s) /\ DOMAIN Append(s, r) = 1..(Len(s) + 1)
        /\ Append(s, r)[Len(s) + 1] = r
        /\ \A i \in 1..Len(s) : Append(s, r)[i] = s[i]
    BY <1>0
  <2>2. Times(b, c) = {i \in 1..Len(s) : s[i] = c}
    BY <2>1 DEF Times
  <2>3. Times(b, c)' = {i \in 1..(Len(s) + 1) : Append(s, r)[i] = c}
    BY <1>3, <2>1 DEF Times
  <2>4. CASE c # r
    <3>1. Times(b, c)' = Times(b, c)
      BY <2>1, <2>2, <2>3, <2>4
    <3>2. NeverTwice(b, c) => NeverTwice(b, c)'
      BY <3>1 DEF NeverTwice
    <3> QED
      BY <1>0, <2>4, <3>1, <3>2
  <2>5. CASE c = r
    <3>1. Times(b, c)' = Times(b, c) \cup {Len(s) + 1} /\ Len(s) + 1 \notin Times(b, c)
      BY <2>1, <2>2, <2>3, <2>5
    <3>2. Cardinality(Times(b, c) \cup {Len(s) + 1}) = Cardinality(Times(b, c)) + 1
      BY <3>1, TimesFinite, FS_AddElement
    <3>3. Len(s) \notin Times(b, c)
      <4>1. CASE s = <<>>
        BY <2>2, <4>1
      <4>2. CASE s # <<>>
        BY <1>3, <2>2, <2>5, <4>2 DEF Last
      <4> QED
        BY <4>1, <4>2
    <3>4. ASSUME NeverTwice(b, c), NEW i \in Times(b, c)'
          PROVE  i + 1 \notin Times(b, c)'
      <4>1. i \in 1..(Len(s) + 1)
        BY <2>3
      <4>2. CASE i = Len(s) + 1
        BY <2>1, <2>3, <4>2
      <4>3. CASE i # Len(s) + 1
        <5>1. i \in Times(b, c) /\ i # Len(s)
          BY <3>1, <3>3, <4>3
        <5>2. i + 1 \notin Times(b, c)
          BY <3>4, <5>1 DEF NeverTwice
        <5>3. i + 1 # Len(s) + 1
          <6>1. Len(s) \in Int
            BY <2>1
          <6>2. i \in Int
            BY <4>1, <6>1
          <6>3. i # Len(s)
            BY <5>1
          <6> QED
            BY <6>1, <6>2, <6>3
        <5> QED
          BY <3>1, <5>2, <5>3
      <4> QED
        BY <4>2, <4>3
    <3>5. NeverTwice(b, c) => NeverTwice(b, c)'
      BY <3>4 DEF NeverTwice
    <3> QED
      BY <1>0, <2>5, <3>1, <3>2, <3>5
  <2> QED
    BY <2>4, <2>5
<1> QED
  BY <1>0, <1>1, <1>2, <1>3

RepeatInv ==
    /\ EffectInv /\ OneAnswer
    /\ \A b \in Databases, c \in Commands :
         NeverTwice(b, c) /\ Cardinality(Times(b, c)) <= Budget(c)

LEMMA InitRepeatInv == Init => RepeatInv
<1> SUFFICES ASSUME Init PROVE RepeatInv
  OBVIOUS
<1>1. \A b \in Databases, c \in Commands : Times(b, c) = {}
  <2>1. \A b \in Databases : log[b] = <<>>
    BY DEF Init
  <2> QED
    BY <2>1 DEF Times
<1>2. ASSUME NEW c \in Commands PROVE Budget(c) = 0
  <2>1. http[c].attempt = 0 /\ http[c].late = 0 /\ Pending(c) = 0
    BY DEF Init, NoPost, Pending
  <2>2. Ended(c) = 0
    BY InitCommands DEF Ended
  <2>3. Answered(c) = 0
    <3>1. <<c, "op">> \in Commands \X Calls
      BY DEF Calls
    <3> QED
      BY <3>1 DEF Init, NoCall, Answered
  <2> QED
    BY <2>1, <2>2, <2>3 DEF Budget
<1> QED
  BY <1>1, <1>2, FS_EmptySet, InitEffectInv, InitOneAnswer DEF RepeatInv, NeverTwice

LEMMA NextRepeatInv == RepeatInv /\ [Next]_vars => RepeatInv'
<1> SUFFICES ASSUME RepeatInv, [Next]_vars PROVE RepeatInv'
  OBVIOUS
<1>0. /\ EffectInv /\ OneAnswer /\ EffectInv' /\ OneAnswer' /\ TypeOK /\ TypeOK'
      /\ log \in [Databases -> Seq(Commands)]
  BY NextEffectInv, NextOneAnswer, TypeOKDef DEF RepeatInv, EffectInv, AnswerInv, TypeInv
<1>1. /\ \A x \in Commands : Budget(x) <= Budget(x)'
      /\ \/ log' = log
         \/ \E c \in Commands : Record(Database[c], c) /\ Budget(c) + 1 <= Budget(c)'
  BY <1>0, StepBudget
<1>2. ASSUME NEW b \in Databases, NEW c \in Commands
      PROVE  NeverTwice(b, c)' /\ Cardinality(Times(b, c))' <= Budget(c)'
  <2>1. /\ NeverTwice(b, c) /\ Cardinality(Times(b, c)) <= Budget(c)
        /\ Cardinality(Times(b, c)) \in Nat /\ Budget(c) \in Int
    BY <1>0, TimesFinite, BudgetType DEF RepeatInv
  <2>2. Budget(c)' \in Int
    <3>1. http'[c].attempt \in Int /\ http'[c].late \in Int
      <4>1. http' \in [Commands -> Posting]
        BY <1>0 DEF TypeOK, Posting
      <4>2. http'[c] \in Posting
        BY <4>1
      <4> QED
        BY <4>2, AttemptsType DEF Posting
    <3> QED
      BY <3>1 DEF Budget, Pending, Answered, Ended
  <2>3. CASE log' = log
    <3>1. Times(b, c)' = Times(b, c)
      BY <2>3 DEF Times
    <3> QED
      BY <1>1, <2>1, <2>2, <3>1 DEF NeverTwice
  <2>4. ASSUME NEW r \in Commands, Record(Database[r], r), Budget(r) + 1 <= Budget(r)'
        PROVE  NeverTwice(b, c)' /\ Cardinality(Times(b, c))' <= Budget(c)'
    <3>1. /\ Cardinality(Times(b, c))' <= Cardinality(Times(b, c)) + (IF c = r THEN 1 ELSE 0)
          /\ NeverTwice(b, c)'
      BY <1>0, <2>1, <2>4, RecordTimes
    <3>2. Cardinality(Times(b, c))' \in Nat
      <4>1. log' \in [Databases -> Seq(Commands)]
        BY <1>0 DEF TypeOK
      <4>2. log'[b] \in Seq(Commands)
        BY <4>1
      <4>3. Times(b, c)' \subseteq 1..Len(log'[b]) /\ Len(log'[b]) \in Nat
        BY <4>2 DEF Times
      <4>4. IsFiniteSet(1..Len(log'[b]))
        BY <4>3, FS_Interval
      <4>5. IsFiniteSet(Times(b, c)')
        BY <4>3, <4>4, FS_Subset
      <4> QED
        BY <4>5, FS_CardinalityType
    <3> QED
      BY <1>1, <2>1, <2>2, <2>4, <3>1, <3>2
  <2> QED
    BY <1>1, <2>3, <2>4
<1> QED
  BY <1>0, <1>2 DEF RepeatInv

\* A statement is recorded again only after another one, and only when its answer was
\* lost: at most once an attempt of a remote client, and otherwise once by the daemon
\* that answered and once by the command itself.
THEOREM RepeatsComeOfLostAnswers == Spec => []RepeatsAreLostAnswers
<1>1. RepeatInv => RepeatsAreLostAnswers
  <2> SUFFICES ASSUME RepeatInv, NEW b \in Databases, NEW c \in Commands
               PROVE  /\ \A i \in Times(b, c) : i + 1 \notin Times(b, c)
                      /\ IF Kind[c] = "post"
                         THEN Cardinality(Times(b, c)) + http[c].late <= http[c].attempt
                         ELSE Cardinality(Times(b, c)) <= IF conn[<<c, "op">>].reply = "ok" THEN 2 ELSE 1
    BY DEF RepeatsAreLostAnswers, Times
  <2>1. NeverTwice(b, c) /\ Cardinality(Times(b, c)) <= Budget(c)
    BY DEF RepeatInv
  <2>2. /\ Cardinality(Times(b, c)) \in Nat /\ http[c].attempt \in Nat /\ http[c].late \in Nat
    <3>1. /\ TypeOK /\ log \in [Databases -> Seq(Commands)]
          /\ http \in [Commands -> Posting] /\ Attempts \in Nat
      BY TypeOKDef, AttemptsType DEF RepeatInv, EffectInv, AnswerInv, TypeInv
    <3> QED
      BY <3>1, TimesFinite DEF Posting
  <2>3. CASE Kind[c] = "post"
    BY <2>1, <2>2, <2>3 DEF NeverTwice, Budget, Pending
  <2>4. CASE Kind[c] # "post"
    BY <2>1, <2>2, <2>4 DEF NeverTwice, Budget, Answered, Ended
  <2> QED
    BY <2>3, <2>4
<1> QED
  BY InitRepeatInv, NextRepeatInv, <1>1, PTL DEF Spec

=============================================================================
