------------------------------ MODULE TwoVolumes ------------------------------
(***************************************************************************)
(* What a container with a hidden volume promises, seen by the users of    *)
(* its two volumes: each volume is an array of bytes, a write changes      *)
(* exactly the bytes it names, and the two arrays disturb each other only  *)
(* where the outer volume is written without protection.                   *)
(***************************************************************************)
EXTENDS Naturals

CONSTANTS
    OuterBytes,     \* the bytes of the outer volume
    Values          \* what can be written into a byte

VARIABLES
    view,       \* view[v][b]: what volume v reads at byte b
    region,     \* the bytes of the hidden volume
    mount,      \* "none", "outer", "protected" (outer, protected) or "hidden"
    stopped     \* a write was refused: the protected volume is read-only

vars == <<view, region, mount, stopped>>

Volumes == {"outer", "hidden"}
Other(v) == IF v = "outer" THEN "hidden" ELSE "outer"
Area(v) == IF v = "outer" THEN OuterBytes ELSE region
Mounted(v) == IF v = "outer" THEN mount \in {"outer", "protected"} ELSE mount = "hidden"

(* Writing bytes S of volume v leaves these bytes of the other volume alone. *)
Spared(v, S) ==
    CASE v = "hidden" -> OuterBytes \ region
      [] v = "outer" /\ S \cap region = {} -> region
      [] OTHER -> {}

Keeps(v, S) == \A b \in S : view'[v][b] = view[v][b]

(* A write in full: the bytes S of volume v get the value x. *)
Write(v, S, x) ==
    /\ Mounted(v)
    /\ UNCHANGED <<region, mount, stopped>>
    /\ S \subseteq Area(v)
    /\ mount = "protected" => ~stopped /\ S \cap region = {}
    /\ \A b \in S : view'[v][b] = x
    /\ Keeps(v, Area(v) \ S)
    /\ Keeps(Other(v), Spared(v, S))

(* A write cut short: some of the bytes S may have got the value x. *)
Interrupted(v, S, x) ==
    /\ Mounted(v)
    /\ mount' = "none" /\ stopped' = FALSE /\ UNCHANGED region
    /\ S \subseteq Area(v)
    /\ mount = "protected" => ~stopped /\ S \cap region = {}
    /\ \A b \in S : view'[v][b] \in {x, view[v][b]}
    /\ Keeps(v, Area(v) \ S)
    /\ Keeps(Other(v), Spared(v, S))

(* A write into the hidden volume is refused and is the last one. *)
Refuse ==
    /\ mount = "protected" /\ ~stopped
    /\ stopped' = TRUE
    /\ UNCHANGED <<view, region, mount>>

Mount ==
    /\ mount = "none" /\ region # {}
    /\ mount' \in {"outer", "protected", "hidden"}
    /\ UNCHANGED <<view, region, stopped>>
Unmount == mount' = "none" /\ stopped' = FALSE /\ UNCHANGED <<view, region>>

(* Until the hidden volume is complete nobody may rely on either view. *)
Create ==
    /\ region = {} /\ mount = "none"
    /\ region' \subseteq OuterBytes
    /\ UNCHANGED <<mount, stopped>>

Init ==
    /\ region = {} /\ mount = "none" /\ stopped = FALSE

Span(b, c) == {d \in OuterBytes : b <= d /\ d <= c}

Next ==
    \/ \E v \in Volumes, x \in Values, b, c \in OuterBytes :
          Write(v, Span(b, c), x) \/ Interrupted(v, Span(b, c), x)
    \/ Refuse \/ Mount \/ Unmount \/ Create

Spec == Init /\ [][Next]_vars

=============================================================================
