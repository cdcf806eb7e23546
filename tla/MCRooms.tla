------------------------------ MODULE MCRooms ------------------------------
\* Instances of Rooms: every configuration of two names, and every topology of three
\* players, each of them absent or alone; the second may also be in a group of the first,
\* with or without that one in sight, or hidden.
EXTENDS Rooms

MCConfigs == SUBSET Names
Alone(p) == {[name |-> n, coordinator |-> p, visible |-> TRUE] : n \in Names}
Grouped(p) == {[name |-> n, coordinator |-> 1, visible |-> TRUE] : n \in Names}
Hidden(p) == {[name |-> Unnamed, coordinator |-> p, visible |-> FALSE]}
Places(p) == IF p = 2 THEN Alone(p) \cup Grouped(p) \cup Hidden(p) ELSE Alone(p)

MCTopologies ==
  {t \in UNION {[present -> UNION {Places(p) : p \in Players}] : present \in SUBSET Players \ {{}}} :
     \A p \in DOMAIN t : t[p] \in Places(p)}
=============================================================================
