----------------------------- MODULE LocalState -----------------------------
(***************************************************************************)
(* state.json, the file that carries State.Networks from one process of    *)
(* the provider to the next: internal/state/file_state.go, main.go and     *)
(* providerConfigure.  Terraform starts a process for the plan, another    *)
(* for the apply, and one for every alias of the provider; each loads the  *)
(* file, serves, and writes back the whole of what it holds.               *)
(*                                                                         *)
(* faults: "parallel" (processes of several aliases run together), "debug" *)
(* (the provider is started with -debug) and "kill" (a process dies; a     *)
(* disk that is full while it saves does the same).                        *)
(***************************************************************************)
EXTENDS Integers, FiniteSets

CONSTANTS
  Process,   \* processes that may run together; each stands for many in turn
  Network,   \* networks of the configuration
  Subnets,   \* what may be recorded of a network
  FaultSets  \* the sets of failures a behaviour may meet

AllFaults == {"parallel", "debug", "kill"}
NoSubnets == "none"

ASSUME SubnetAssumption == NoSubnets \notin Subnets
ASSUME FaultAssumption == FaultSets \subseteq SUBSET AllFaults

VARIABLES
  faults,   \* the failures that may happen, chosen at the start
  file,     \* state.json
  st,       \* LocalFileState.st of each process
  pc,       \* "off", "create", "loaded", "serving", "saving", or "fatal"
  deployed  \* the networks as Terraform's own state has them

vars == <<faults, file, st, pc, deployed>>

\* What a file holds, or a process: a map of the networks it knows.  The zero
\* NetworkState, with a nil map, is told apart from an empty map.
Map == [Network -> Subnets \cup {NoSubnets}]
EmptyMap == [n \in Network |-> NoSubnets]
Holding(m) == [kind |-> "map", nets |-> m]
Zero == [kind |-> "zero", nets |-> EmptyMap]
Absent == [kind |-> "absent", nets |-> EmptyMap]
NoBytes == [kind |-> "empty", nets |-> EmptyMap]
States == {Zero} \cup [kind : {"map"}, nets : Map]

Off(p) == pc[p] = "off"
MayStart(p) == Off(p) /\ ("parallel" \in faults \/ \A q \in Process : Off(q))

Goto(p, where) == pc' = [pc EXCEPT ![p] = where]

----------------------------------------------------------------------------
(* Load: a file that is not there is created, with nothing in it.  Another *)
(* process may have written it meanwhile; it is opened without truncation. *)
FindNothing(p) ==
  /\ MayStart(p) /\ file = Absent
  /\ Goto(p, "create")
  /\ UNCHANGED <<file, st, deployed>>

CreateFile(p) ==
  /\ pc[p] = "create"
  /\ file' = IF file = Absent THEN NoBytes ELSE file
  /\ st' = [st EXCEPT ![p] = Zero]
  /\ Goto(p, "loaded")
  /\ UNCHANGED deployed

ReadFile(p) ==
  /\ MayStart(p) /\ file.kind \in {"zero", "map"}
  /\ st' = [st EXCEPT ![p] = file]
  /\ Goto(p, "loaded")
  /\ UNCHANGED <<file, deployed>>

\* Nothing is no JSON: log.Fatal.
LoadFails(p) ==
  /\ MayStart(p) /\ file = NoBytes
  /\ Goto(p, "fatal")
  /\ UNCHANGED <<file, st, deployed>>

(* GetState replaces a zero state by one with a map.  The client copies the *)
(* struct and shares the map: what a resource records is in st.             *)
GetStateAsLoaded(s) == s
GetState(s) == IF s = Zero THEN Holding(EmptyMap) ELSE s

\* providerConfigure.  A process asked for its schema only is never configured.
Configure(p) ==
  /\ pc[p] = "loaded"
  /\ st' = [st EXCEPT ![p] = GetState(@)]
  /\ Goto(p, "serving")
  /\ UNCHANGED <<file, deployed>>

(* A network is refreshed, or created, changed or deleted.  Writing into a *)
(* nil map panics.                                                         *)
Recording(p, n, s) ==
  /\ pc[p] = "serving"
  /\ IF st[p].kind = "map"
     THEN st' = [st EXCEPT ![p].nets[n] = s] /\ UNCHANGED pc
     ELSE Goto(p, "fatal") /\ UNCHANGED st
  /\ UNCHANGED file

Refresh(p, n) ==
  /\ deployed[n] # NoSubnets
  /\ Recording(p, n, deployed[n])
  /\ UNCHANGED deployed

Apply(p, n) ==
  \E s \in Subnets \cup {NoSubnets} :
    /\ s # deployed[n]
    /\ Recording(p, n, s)
    /\ deployed' = [deployed EXCEPT ![n] = s]

(* plugin.Serve returns; Save truncates the file and writes it.  In debug  *)
(* mode there is no Save.                                                  *)
Truncate(p) ==
  /\ pc[p] \in {"loaded", "serving"} /\ "debug" \notin faults
  /\ file' = NoBytes
  /\ Goto(p, "saving")
  /\ UNCHANGED <<st, deployed>>

WriteFresh(p) ==
  /\ pc[p] = "saving"
  /\ file' = Zero
  /\ st' = [st EXCEPT ![p] = Zero]
  /\ Goto(p, "off")
  /\ UNCHANGED deployed

Write(p) ==
  /\ pc[p] = "saving"
  /\ file' = st[p]
  /\ st' = [st EXCEPT ![p] = Zero]
  /\ Goto(p, "off")
  /\ UNCHANGED deployed

ReturnUnsaved(p) ==
  /\ pc[p] \in {"loaded", "serving"} /\ "debug" \in faults
  /\ st' = [st EXCEPT ![p] = Zero]
  /\ Goto(p, "off")
  /\ UNCHANGED <<file, deployed>>

Killed(p) ==
  /\ pc[p] \notin {"off", "fatal"} /\ "kill" \in faults
  /\ st' = [st EXCEPT ![p] = Zero]
  /\ Goto(p, "off")
  /\ UNCHANGED <<file, deployed>>

\* A process that stopped with an error is seen, and the command tried again.
TryAgain(p) ==
  /\ pc[p] = "fatal"
  /\ st' = [st EXCEPT ![p] = Zero]
  /\ Goto(p, "off")
  /\ UNCHANGED <<file, deployed>>

Load(p) == FindNothing(p) \/ CreateFile(p) \/ ReadFile(p) \/ LoadFails(p)
Save(p) == Truncate(p) \/ Write(p) \/ ReturnUnsaved(p)

Next ==
  /\ \E p \in Process :
       \/ Load(p) \/ Configure(p) \/ Save(p) \/ Killed(p) \/ TryAgain(p)
       \/ \E n \in Network : Refresh(p, n) \/ Apply(p, n)
  /\ UNCHANGED faults

Init ==
  /\ faults \in FaultSets
  /\ file = Absent
  /\ st = [p \in Process |-> Zero]
  /\ pc = [p \in Process |-> "off"]
  /\ deployed = EmptyMap

Spec == Init /\ [][Next]_vars

----------------------------------------------------------------------------
(* Properties *)

\* Types of every variable; and whatever the file was when it was loaded, absent
\* included, no process serves with a nil map.
TypeOK ==
  /\ faults \in FaultSets
  /\ file \in States \cup {Absent, NoBytes}
  /\ st \in [Process -> States]
  /\ pc \in [Process -> {"off", "create", "loaded", "serving", "saving", "fatal"}]
  /\ deployed \in Map
  /\ \A p \in Process : pc[p] = "serving" => st[p].kind = "map"

\* Processes that run one after the other and end in order hand the record on
\* without a loss, from the very first that finds no file: each serves exactly
\* the networks that are deployed, those of a plan to those of its apply, and
\* none refuses to start.  (Decision 0001: deployments on one node need it.)
HandedOn ==
  faults = {} =>
    /\ \A p \in Process :
         /\ pc[p] # "fatal"
         /\ pc[p] \in {"loaded", "serving", "saving"} => st[p].nets = deployed
    /\ (\A p \in Process : Off(p)) => file.nets = deployed
=============================================================================
