--------------------------- MODULE CommandEffects ---------------------------
(***************************************************************************)
(* What commands do to the archives, however they are transported: a       *)
(* command that was issued may write to the database it is configured for  *)
(* and to no other, and a remember that reports success has written.       *)
(* Daemons, sockets and fallbacks are nowhere to be seen.  A write may     *)
(* happen after its command has ended, and more than once: a call that     *)
(* timed out is not taken back.                                            *)
(***************************************************************************)
EXTENDS Sequences, SequencesExt

CONSTANTS Commands, Writers, Database

VARIABLES
    issued,     \* commands that have been issued
    succeeded,  \* those that have reported success
    log         \* per database the commands that recorded a new version of the key

state == <<issued, succeeded, log>>

Init ==
    /\ issued = {} /\ succeeded = {}
    /\ log = [b \in {Database[c] : c \in Commands} |-> <<>>]

\* The same statement as the latest version is UNCHANGED.
Record(b, c) == log' = [log EXCEPT ![b] =
                          IF @ # <<>> /\ Last(@) = c THEN @ ELSE Append(@, c)]

Issue(c) ==
    /\ issued' = issued \cup {c}
    /\ UNCHANGED <<succeeded, log>>

Write(c) ==
    /\ c \in issued \cap Writers
    /\ Record(Database[c], c)
    /\ UNCHANGED <<issued, succeeded>>

\* The report may come with the write or after it.
Succeed(c) ==
    /\ c \in issued
    /\ succeeded' = succeeded \cup {c}
    /\ UNCHANGED issued
    /\ \/ c \in Writers /\ Record(Database[c], c)
       \/ UNCHANGED log /\ (c \in Writers => Contains(log[Database[c]], c))

Next == \E c \in Commands : Issue(c) \/ Write(c) \/ Succeed(c)

Spec == Init /\ [][Next]_state

=============================================================================
