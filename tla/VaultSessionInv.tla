-------------------------- MODULE VaultSessionInv --------------------------
(* The inductive invariant of VaultSession, for the proofs.                *)
EXTENDS VaultSession

InsidePhases == {"steps", "sync", "drop", "dropping", "leaving"}

(* Whoever is inside holds the mutex, and nobody else does. *)
MutexInv == \A c \in Callers : at[c] \in InsidePhases <=> holder = c

(* The session is in the mutex, or a lock is dropping it, or it is gone. *)
SessionInv ==
    /\ fd = "closed" => inner = "taken"
    /\ inner = "taken" /\ fd = "open" =>
          \E c \in Callers : holder = c /\ at[c] = "dropping"
    /\ \A c \in Callers :
          /\ at[c] = "dropping" =>
                /\ call[c].op = "lock"
                /\ inner = "taken" /\ fd = "open"
          /\ at[c] \in {"steps", "sync", "drop"} =>
                call[c].op # "lock" /\ inner = "open"
          /\ at[c] \in {"leaving", "done"} /\ call[c].op = "lock" =>
                fd = "closed" \/ poisoned
          /\ at[c] = "leaving" =>
                IF call[c].op = "lock" THEN fd = "closed" ELSE inner = "open"
          /\ at[c] \in InsidePhases => ~poisoned
          /\ result[c] = "Internal" => inner = "taken" \/ poisoned

(* No two mutating calls have one identity, and none is used again. *)
IdInv ==
    /\ unsynced \subseteq 0 .. started
    /\ \A c \in Callers :
          /\ call[c].id \in 0 .. started
          /\ call[c].op \in Mutating => call[c].id # 0
          /\ at[c] = "waiting" /\ call[c].op \in Mutating =>
                call[c].id \notin unsynced
          /\ \A d \in Callers : c # d /\ call[c].id # 0 => call[c].id # call[d].id

MustBeDurable(c) ==
    \/ kind = "Exfat" /\ call[c].op \in Mutating
    \/ kind = "Fat" /\ call[c].op = "write"

(* A call that has nothing to write, or has waited for the medium, has     *)
(* nothing left in the cache.                                              *)
DurableInv ==
    \A c \in Callers :
        /\ call[c].op \in Mutating /\ call[c].blocks = {} =>
              call[c].id \notin unsynced
        /\ /\ at[c] \in {"drop", "leaving", "done"}
           /\ result[c] = "Ok" /\ MustBeDurable(c)
           => call[c].id \notin unsynced

(* What the call inside has done since it entered. *)
WrittenBy(c) == call[c].blocks \ left[c]
WorkInv ==
    \A c \in Callers :
        /\ at[c] \in InsidePhases =>
              view = [b \in Blocks |-> IF call[c].op \in Mutating /\ b \in WrittenBy(c)
                                         THEN call[c].id ELSE entry[b]]
        /\ at[c] = "waiting" => result[c] = "none" /\ got[c] = Unread
        /\ call[c].op \notin Mutating => call[c].blocks = {} /\ call[c].id = 0
        /\ call[c].op \in Mutating /\ at[c] \in InsidePhases =>
              left[c] \subseteq call[c].blocks
        /\ at[c] = "idle" =>
              call[c] = Idle /\ result[c] = "none" /\ got[c] = Unread
        /\ at[c] # "idle" => call[c].op \in Ops
        /\ at[c] = "sync" => call[c].op \in Mutating /\ left[c] = {}

(* What the call inside will answer. *)
AnswerInv ==
    \A c \in Callers :
        /\ at[c] \in {"steps", "sync", "dropping"} => result[c] = "none"
        /\ at[c] = "steps" /\ call[c].op = "read" =>
              \A b \in Blocks \ left[c] : got[c][b] = view[b]
        /\ at[c] \in InsidePhases /\ call[c].op # "read" =>
              got[c] = Unread
        /\ at[c] \in {"drop", "leaving"} =>
              \/ /\ result[c] = "Ok"
                 /\ call[c].op = "read" => got[c] = view
                 /\ call[c].op \in Mutating => left[c] = {}
              \/ /\ result[c] = "Filesystem" /\ got[c] = Unread
                 /\ call[c].op \in Mutating \cup {"read"}

IInv == /\ TypeOK
        /\ MutexInv
        /\ SessionInv
        /\ IdInv
        /\ DurableInv
        /\ WorkInv
        /\ AnswerInv
=============================================================================
