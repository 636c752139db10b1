------------------------------ MODULE BlockMap ------------------------------
(***************************************************************************)
(* What the world store promises, with no chunks, caches or files in it:  *)
(* a map from block positions to block states that readers see (mem), and *)
(* the map a restart would bring back (dur).  A save takes a picture of   *)
(* mem and publishes it later, or loses it; a restart forgets mem and     *)
(* every picture that was not published.                                  *)
(***************************************************************************)
CONSTANTS Cell,       \* positions a block can be stored at
          Value,      \* block states
          Writer      \* the tasks that save

VARIABLES mem,        \* what a reader sees
          dur,        \* what a restart brings back
          pend        \* the picture each writer holds: a set, empty or of one

vars == <<mem, dur, pend>>

Init == /\ mem \in [Cell -> Value]
        /\ dur = mem
        /\ pend = [w \in Writer |-> {}]

Set(c, v) == /\ mem' = [mem EXCEPT ![c] = v]
             /\ UNCHANGED <<dur, pend>>

Take(w) == /\ pend[w] = {}
           /\ pend' = [pend EXCEPT ![w] = {mem}]
           /\ UNCHANGED <<mem, dur>>

Publish(w) == /\ dur' \in pend[w]
              /\ pend' = [pend EXCEPT ![w] = {}]
              /\ UNCHANGED mem

Abandon(w) == /\ pend' = [pend EXCEPT ![w] = {}]
              /\ UNCHANGED <<mem, dur>>

Restart == /\ mem' = dur
           /\ pend' = [w \in Writer |-> {}]
           /\ UNCHANGED dur

Next == \/ \E c \in Cell, v \in Value : Set(c, v)
        \/ \E w \in Writer : Take(w) \/ Publish(w) \/ Abandon(w)
        \/ Restart

Spec == Init /\ [][Next]_vars
=============================================================================
