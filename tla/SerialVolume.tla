---------------------------- MODULE SerialVolume ----------------------------
(* What a VaultSession promises to the threads that share it: every call   *)
(* takes effect at one instant between the moment it is made and the       *)
(* moment it returns, as if the calls were made one after the other, and   *)
(* after lock nothing takes effect.  A call that fails may have done a     *)
(* part of its work; one that succeeds has done all of it.                 *)
EXTENDS Naturals

CONSTANTS Callers,     \* threads that hold the object
          Blocks,      \* what calls read and write
          Mutations    \* identities of the mutating calls

VARIABLES content,     \* the call that wrote each block last, 0 for none
          open,        \* whether calls still reach the volume
          request      \* what each caller has asked, or was answered

vars == <<content, open, request>>

Idle == [state |-> "idle"]
Asked(what, id, blocks) ==
    [state |-> "asked", what |-> what, id |-> id, blocks |-> blocks]
Answered(result, got) == [state |-> "answered", result |-> result, got |-> got]

Nothing == [b \in Blocks |-> 0]
Overwrite(id, blocks) ==
    [b \in Blocks |-> IF b \in blocks THEN id ELSE content[b]]

Init == /\ content = Nothing
        /\ open = TRUE
        /\ request = [c \in Callers |-> Idle]

Answer(c, result, got) ==
    request' = [request EXCEPT ![c] = Answered(result, got)]

Ask(c) ==
    /\ request[c] = Idle
    /\ \/ \E id \in Mutations, blocks \in SUBSET Blocks :
             request' = [request EXCEPT ![c] = Asked("mutate", id, blocks)]
       \/ \E what \in {"read", "quiet", "lock"} :
             request' = [request EXCEPT ![c] = Asked(what, 0, {})]
    /\ UNCHANGED <<content, open>>

(* An answered caller may call again. *)
Take(c) == /\ request[c].state = "answered"
           /\ request' = [request EXCEPT ![c] = Idle]
           /\ UNCHANGED <<content, open>>

Mutate(c) ==
    /\ open /\ request[c].what = "mutate"
    /\ \/ /\ content' = Overwrite(request[c].id, request[c].blocks)
          /\ Answer(c, "Ok", Nothing)
       \/ \E part \in SUBSET request[c].blocks :
             /\ content' = Overwrite(request[c].id, part)
             /\ Answer(c, "Filesystem", Nothing)
    /\ UNCHANGED open

Read(c) ==
    /\ open /\ request[c].what = "read"
    /\ Answer(c, "Ok", content) \/ Answer(c, "Filesystem", Nothing)
    /\ UNCHANGED <<content, open>>

Quiet(c) == /\ open /\ request[c].what = "quiet"
            /\ Answer(c, "Ok", Nothing)
            /\ UNCHANGED <<content, open>>

Lock(c) == /\ request[c].what = "lock"
           /\ open' = FALSE
           /\ Answer(c, "Ok", Nothing)
           /\ UNCHANGED content

(* A call that panics is the last one to reach the volume. *)
Panic(c) ==
    /\ open
    /\ \E part \in SUBSET request[c].blocks :
          content' = Overwrite(request[c].id, part)
    /\ open' = FALSE
    /\ Answer(c, "Panic", Nothing)

Refuse(c) == /\ ~open /\ request[c].what # "lock"
             /\ Answer(c, "Internal", Nothing)
             /\ UNCHANGED <<content, open>>

Effect(c) == /\ request[c].state = "asked"
             /\ \/ Mutate(c) \/ Read(c) \/ Quiet(c) \/ Lock(c)
                \/ Panic(c) \/ Refuse(c)

Next == \E c \in Callers : Ask(c) \/ Take(c) \/ Effect(c)

Spec == Init /\ [][Next]_vars
=============================================================================
