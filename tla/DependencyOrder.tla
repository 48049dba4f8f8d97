--------------------------- MODULE DependencyOrder ---------------------------
(***************************************************************************)
(* What the import mechanism promises, with no stack, buffer or mode: a    *)
(* module is finished only after every module it imports, and a line of    *)
(* the main MIB enters the document only after every module imported above *)
(* it.  ModuleSwitch is shown to implement it.                             *)
(***************************************************************************)
VARIABLES
  needs,      \* module |-> the modules it imports
  needsAt,    \* line of the main MIB |-> the modules imported above it
  finished,   \* modules whose definitions have all been read
  published   \* lines of the main MIB that are in the document

Init == finished = {} /\ published = {}

Finish(m) ==
  /\ needs[m] \subseteq finished
  /\ finished' = finished \cup {m}
  /\ UNCHANGED <<needs, needsAt, published>>

Publish(i) ==
  /\ i \notin published /\ needsAt[i] \subseteq finished
  /\ published' = published \cup {i}
  /\ UNCHANGED <<needs, needsAt, finished>>

Next == (\E m \in DOMAIN needs : Finish(m)) \/ (\E i \in DOMAIN needsAt : Publish(i))

Spec == Init /\ [][Next]_<<needs, needsAt, finished, published>>
=============================================================================
