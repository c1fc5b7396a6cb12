------------------------------ MODULE NatTable ------------------------------
(***************************************************************************)
(* What the NAT resolver promises.  A mapping that was learned is known    *)
(* until the third round after it, whatever else is learned, unless the    *)
(* same connection is mapped again in the same round.  When a round ends,  *)
(* a cached socket that has no answer yet takes one that is known, and     *)
(* then keeps it.  If its connection was mapped in several rounds that are *)
(* still known, the answer may be any of them: the newest is not promised. *)
(***************************************************************************)
EXTENDS Naturals

CONSTANTS Rounds,     \* rounds for which a mapping is known
          Socks,      \* sockets that may be cached
          KeyOf,      \* the connection of each
          Seen(_, _), \* how a socket sees the value of a mapping
          None        \* no answer

VARIABLES
  entries,    \* the mappings that are known, with their age in rounds
  external    \* the answers of the cached sockets

tableVars == <<entries, external>>

Init == entries = {} /\ DOMAIN external = {}

\* A set of mappings is learned, the newest word on each of its keys.
Learn ==
  /\ \E new \in SUBSET {[key |-> e.key, value |-> e.value] : e \in entries'} :
       /\ \A m, n \in new : m.key = n.key => m = n
       /\ entries' = {[key |-> m.key, value |-> m.value, age |-> 0] : m \in new}
                       \cup {e \in entries : e.age > 0 \/ \A m \in new : m.key # e.key}
  /\ UNCHANGED external

Known(key) == {e \in entries : e.key = key}

Answers(s) ==
  IF Known(KeyOf[s]) = {} THEN {None} ELSE {Seen(s, e.value) : e \in Known(KeyOf[s])}

\* A round ends: sockets came to the cache, found answers, and left it.
Round ==
  /\ \A s \in DOMAIN external' :
       /\ s \in Socks
       /\ IF s \in DOMAIN external /\ external[s] # None THEN external'[s] = external[s]
          ELSE external'[s] \in Answers(s)
  /\ entries' = {[e EXCEPT !.age = @ + 1] : e \in {f \in entries : f.age + 1 < Rounds}}

Next == Learn \/ Round

Spec == Init /\ [][Next]_tableVars
=============================================================================
