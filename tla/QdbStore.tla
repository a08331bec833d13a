------------------------------ MODULE QdbStore ------------------------------
(* What a qdb database promises: a map in memory and its last saved version *)
(* on disk, which takes its place when the process is started again.        *)

CONSTANTS Key, Val, None

VARIABLES mem, durable

vars == <<mem, durable>>

Init == durable \in [Key -> Val \cup {None}] /\ mem = durable

Put(k, v) == mem' = [mem EXCEPT ![k] = v] /\ UNCHANGED durable

Del(k) == mem' = [mem EXCEPT ![k] = None] /\ UNCHANGED durable

\* All the changes are saved at once.
Save == durable' = mem /\ UNCHANGED mem

Restart == mem' = durable /\ UNCHANGED durable

Next ==
    \/ \E k \in Key : Del(k) \/ \E v \in Val : Put(k, v)
    \/ Save \/ Restart

Spec == Init /\ [][Next]_vars
=============================================================================
