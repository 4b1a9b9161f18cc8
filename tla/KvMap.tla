-------------------------------- MODULE KvMap --------------------------------
(***************************************************************************)
(* What SqliteStore (src/db/sqlite_store.hpp) promises to the clients of    *)
(* one file: a map.  A call takes effect in one step between being made and *)
(* returning, or is refused and takes no effect.                            *)
(*                                                                          *)
(* The one weakness: a client whose COMMIT was refused keeps its transaction *)
(* open.  It then sees its own set(), which nobody else ever will, and      *)
(* nobody can set anything until that client quits.                         *)
(***************************************************************************)
CONSTANTS Clients, Keys, Values,
          Null,       \* no value
          NoRequest   \* the client is not calling the store

VARIABLES
  map,      \* the value of every key
  request,  \* per client: its call and how far it got
  limbo     \* per client: the map it sees after a refused COMMIT, or Null

vars == <<map, request, limbo>>

Get(k) == [op |-> "get", key |-> k, value |-> Null, state |-> "asked"]
Set(k, v) == [op |-> "set", key |-> k, value |-> v, state |-> "asked"]

Asked(c, op) == /\ request[c] # NoRequest
                /\ request[c].op = op /\ request[c].state = "asked"

Become(c, state) == request' = [request EXCEPT ![c].state = state]

Init ==
  /\ map = [k \in Keys |-> Null]
  /\ request = [c \in Clients |-> NoRequest]
  /\ limbo = [c \in Clients |-> Null]

\* What may be asked.
Questions ==
  [op : {"get"}, key : Keys, value : {Null}, state : {"asked"}]
    \cup [op : {"set"}, key : Keys, value : Values, state : {"asked"}]

\* (The question is not bound by \E: Values may be infinite.)
Call(c) ==
  /\ request[c] = NoRequest
  /\ request'[c] \in Questions
  /\ request' = [request EXCEPT ![c] = request'[c]]
  /\ UNCHANGED <<map, limbo>>

Sees(c) == IF limbo[c] = Null THEN map ELSE limbo[c]

Answer(c) ==
  /\ Asked(c, "get")
  /\ request' = [request EXCEPT ![c].state = "done", ![c].value = Sees(c)[request[c].key]]
  /\ UNCHANGED <<map, limbo>>

Apply(c) ==
  /\ Asked(c, "set") /\ \A d \in Clients : limbo[d] = Null
  /\ map' = [map EXCEPT ![request[c].key] = request[c].value]
  /\ Become(c, "done")
  /\ UNCHANGED limbo

Refuse(c) ==
  /\ Asked(c, "get") \/ Asked(c, "set")
  /\ Become(c, "refused")
  /\ \/ UNCHANGED limbo
     \/ /\ Asked(c, "set") /\ \A d \in Clients : limbo[d] = Null
        /\ limbo' = [limbo EXCEPT ![c] = [map EXCEPT ![request[c].key] = request[c].value]]
  /\ UNCHANGED map

Return(c) ==
  /\ request[c] # NoRequest /\ request[c].state \in {"done", "refused"}
  /\ request' = [request EXCEPT ![c] = NoRequest]
  /\ UNCHANGED <<map, limbo>>

\* The client crashes, or closes its store.
Quit(c) ==
  /\ request' = [request EXCEPT ![c] = NoRequest]
  /\ limbo' = [limbo EXCEPT ![c] = Null]
  /\ UNCHANGED map

Next == \E c \in Clients :
          Call(c) \/ Answer(c) \/ Apply(c) \/ Refuse(c) \/ Return(c) \/ Quit(c)

Spec == Init /\ [][Next]_vars
==============================================================================
