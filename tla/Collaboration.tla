--------------------------- MODULE Collaboration ---------------------------
(***************************************************************************)
(* The collaboration mode of one request under CollaborationModeService.   *)
(* The mode is not stored: it is the to_mode of the latest transition row. *)
(* switch_mode reads it, checks the switch, takes the time and inserts its *)
(* row and its event; rows are ordered by that time, which is not the      *)
(* order in which they are committed.                                      *)
(***************************************************************************)
EXTENDS Naturals

CONSTANTS
  Actors,       \* sessions that switch modes at the same time
  MaxSwitches   \* bound: switches begun in all

VARIABLES
  transitions,  \* committed rows [at, from, to]
  switch,       \* what each session has read and is about to insert
  clock,
  crossed       \* history: times of switches that others ran into

collaborationVars == <<transitions, switch, clock, crossed>>

-----------------------------------------------------------------------------
Modes == {"human_led", "agent_assisted", "agent_led"}
NoSwitch == [at |-> 0]

AllowedTransitions_direct ==
  [human_led      |-> {"agent_assisted", "agent_led"},
   agent_assisted |-> {"human_led", "agent_led"},
   agent_led      |-> {"agent_assisted", "human_led"}]

AllowedTransitions ==
  [human_led      |-> {"agent_assisted"},
   agent_assisted |-> {"human_led", "agent_led"},
   agent_led      |-> {"agent_assisted", "human_led"}]

Row == [at: Nat \ {0}, from: Modes, to: Modes]

CollaborationTypeOK ==
  /\ transitions \subseteq Row
  /\ switch \in [Actors -> Row \union {NoSwitch}]
  /\ clock \in Nat
  /\ crossed \subseteq 1 .. clock

CollaborationInit ==
  /\ transitions = {}
  /\ switch = [a \in Actors |-> NoSwitch]
  /\ clock = 0
  /\ crossed = {}

-----------------------------------------------------------------------------
Before(t) == {r \in transitions : r.at < t}

\* the row before time t, in the order of created_at
Latest(t) == CHOOSE r \in Before(t) : \A q \in Before(t) : q.at <= r.at

ModeAt(t) == IF Before(t) = {} THEN "human_led" ELSE Latest(t).to

CurrentMode == ModeAt(clock + 1)

BeginSwitch(a, target) ==
  /\ switch[a] = NoSwitch
  /\ clock < MaxSwitches
  /\ target # CurrentMode
  /\ target \in AllowedTransitions[CurrentMode]
  /\ clock' = clock + 1
  /\ switch' = [switch EXCEPT ![a] = [at |-> clock + 1, from |-> CurrentMode, to |-> target]]
  /\ UNCHANGED <<transitions, crossed>>

\* the switches still open when another row is inserted have read an old mode
CommitSwitch(a) ==
  /\ switch[a] # NoSwitch
  /\ transitions' = transitions \union {switch[a]}
  /\ switch' = [switch EXCEPT ![a] = NoSwitch]
  /\ crossed' = crossed \union {switch[b].at : b \in {c \in Actors \ {a} : switch[c] # NoSwitch}}
  /\ UNCHANGED clock

AbandonSwitch(a) ==
  /\ switch[a] # NoSwitch
  /\ switch' = [switch EXCEPT ![a] = NoSwitch]
  /\ UNCHANGED <<transitions, clock, crossed>>

CollaborationNext ==
  \E a \in Actors :
    \/ \E target \in Modes : BeginSwitch(a, target)
    \/ CommitSwitch(a)
    \/ AbandonSwitch(a)

CollaborationSpec == CollaborationInit /\ [][CollaborationNext]_collaborationVars

-----------------------------------------------------------------------------
\* A request is never led by the agent unless the agent assisted before, in
\* the order of the stored history and whatever switches cross; and without
\* crossing switches each row starts from the mode the row before it ended in
\* (switch_mode checks a mode read before its own insert).
ModesChain ==
  /\ \A r \in transitions : r.to = "agent_led" =>
       \E q \in Before(r.at) : q.to = "agent_assisted"
  /\ crossed = {} => \A r \in transitions : r.from = ModeAt(r.at)
=============================================================================
