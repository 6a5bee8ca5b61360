--------------------------- MODULE DirectoryGate ---------------------------
(***************************************************************************)
(* What the LDAP facade promises about a directory, seen from outside: a   *)
(* connection is admitted or it is not, and directory entries are shown to *)
(* an admitted connection only, unless the directory is open to everyone.  *)
(* The RootDSE may be shown to anyone.  Sessions come and go; a session    *)
(* that has gone is not admitted.                                          *)
(***************************************************************************)
CONSTANTS
  Conns,   \* connection slots
  Open     \* the directory answers anonymous clients

VARIABLES
  admitted,   \* the connections whose client the directory has accepted
  shown       \* what the last answer on each connection disclosed

gateVars == <<admitted, shown>>

Disclosures == {"nothing", "rootdse", "directory"}

GateInit ==
  /\ admitted = {}
  /\ shown = [c \in Conns |-> "nothing"]

(* A bind, accepted or refused, or the end of a session: no disclosure. *)
Decide(c) ==
  /\ admitted' \in {admitted \cup {c}, admitted \ {c}}
  /\ shown' = [shown EXCEPT ![c] = "nothing"]

(* The answer to a search of connection c. *)
Answer(c) ==
  /\ \E d \in Disclosures :
       /\ d = "directory" => Open \/ c \in admitted
       /\ shown' = [shown EXCEPT ![c] = d]
  /\ UNCHANGED admitted

(* The client is lost while its answer is on the wire: whatever it was     *)
(* shown, it was entitled to, and its session is gone.                     *)
AnswerAndLose(c) ==
  /\ \E d \in Disclosures :
       /\ d = "directory" => Open \/ c \in admitted
       /\ shown' = [shown EXCEPT ![c] = d]
  /\ admitted' = admitted \ {c}

GateNext == \E c \in Conns : Decide(c) \/ Answer(c) \/ AnswerAndLose(c)

GateSpec == GateInit /\ [][GateNext]_gateVars
=============================================================================
