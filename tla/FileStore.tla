----------------------------- MODULE FileStore -----------------------------
(***************************************************************************)
(* What the exFAT driver promises its caller: a flat store of named files, *)
(* each a sequence of bytes, changed only as the request in progress asks. *)
(* No cluster, no allocation table, no entry slot appears here.            *)
(* ExfatVolume is shown to implement this module.                          *)
(***************************************************************************)
EXTENDS Naturals, Sequences

CONSTANTS
    Names,      \* the file names in use
    Bytes,      \* the byte values a caller can store
    Zero,       \* the byte a gap is filled with
    MaxLen,     \* bound on the length of a file
    None        \* no contents, no request, no second name

VARIABLES
    store,      \* store[n]: the contents of file n, or None
    request     \* the request in progress, or None; done: it took effect

vars == <<store, request>>

Present(n) == store[n] # None

Request(kind, n, to, off, cnt, v, len, done) ==
    [kind |-> kind, name |-> n, to |-> to, off |-> off, cnt |-> cnt, val |-> v,
     len |-> len, done |-> done]

(* The contents s after cnt bytes v have been written at offset off: bytes
   between the old end and off read as zero, the others are kept. *)
Written(s, off, cnt, v) ==
    LET size == IF off + cnt > Len(s) THEN off + cnt ELSE Len(s)
    IN  [i \in 1 .. size |->
            IF i > off /\ i <= off + cnt THEN v
            ELSE IF i <= Len(s) THEN s[i] ELSE Zero]

Init ==
    /\ store = [n \in Names |-> None]
    /\ request = None

(* Creation and removal take effect at once. *)
Create(n) ==
    /\ request = None /\ ~Present(n)
    /\ store' = [store EXCEPT ![n] = << >>]
    /\ request' = Request("create", n, None, 0, 0, Zero, 0, TRUE)

Remove(n) ==
    /\ request = None /\ Present(n)
    /\ store' = [store EXCEPT ![n] = None]
    /\ request' = Request("remove", n, None, 0, 0, Zero, 0, TRUE)

(* The others are asked for first. *)
Ask(n) ==
    /\ request = None /\ Present(n)
    /\ \/ \E off \in 0 .. MaxLen, cnt \in 1 .. MaxLen, v \in Bytes :
             /\ off + cnt <= MaxLen
             /\ request' = Request("write", n, None, off, cnt, v, 0, FALSE)
       \/ \E len \in 0 .. Len(store[n]) :
             request' = Request("shrink", n, None, 0, 0, Zero, len, FALSE)
       \/ \E m \in Names :
             ~Present(m) /\ request' = Request("rename", n, m, 0, 0, Zero, 0, FALSE)
    /\ UNCHANGED store

Pending(kind) == request # None /\ request.kind = kind /\ ~request.done
Done == request' = [request EXCEPT !.done = TRUE]

(* Part of the payload reaches bytes the file already has. *)
Overwrite ==
    /\ Pending("write")
    /\ \E i, j \in 1 .. Len(store[request.name]) :
          /\ request.off < i /\ i <= j /\ j <= request.off + request.cnt
          /\ store' = [store EXCEPT ![request.name] =
                          Written(@, i - 1, j - i + 1, request.val)]
    /\ UNCHANGED request

Write ==
    /\ Pending("write")
    /\ store' = [store EXCEPT ![request.name] =
                    Written(@, request.off, request.cnt, request.val)]
    /\ Done

Shrink ==
    /\ Pending("shrink")
    /\ store' = [store EXCEPT ![request.name] = SubSeq(@, 1, request.len)]
    /\ Done

Rename ==
    /\ Pending("rename")
    /\ store' = [store EXCEPT ![request.to] = store[request.name],
                              ![request.name] = None]
    /\ Done

(* The request ends: it is done, or it failed, or the power did. *)
End ==
    /\ request # None
    /\ request' = None
    /\ UNCHANGED store

Next ==
    \/ \E n \in Names : Create(n) \/ Remove(n) \/ Ask(n)
    \/ Overwrite \/ Write \/ Shrink \/ Rename \/ End

Spec == Init /\ [][Next]_vars
=============================================================================
