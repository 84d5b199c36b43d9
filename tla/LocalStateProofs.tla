-------------------------- MODULE LocalStateProofs --------------------------
(***************************************************************************)
(* Theorems about state.json, for any number of processes and networks.    *)
(***************************************************************************)
EXTENDS LocalState, TLAPS

LEMMA EmptyMapType == EmptyMap \in Map
BY DEF EmptyMap, Map

LEMMA InitType == Init => TypeOK
<1>1. Zero \in States
  BY DEF States
<1> QED
  BY <1>1, EmptyMapType DEF Init, TypeOK

LEMMA GetStateType ==
  ASSUME NEW s \in States
  PROVE  /\ GetState(s) \in [kind : {"map"}, nets : Map]
         /\ GetState(s).nets = s.nets
BY EmptyMapType DEF GetState, Zero, Holding, States

\* What a resource records goes into the map of its process, or ends it.
LEMMA RecordingType ==
  ASSUME TypeOK, NEW p \in Process, NEW n \in Network,
         NEW s \in Subnets \cup {NoSubnets}, Recording(p, n, s)
  PROVE  /\ pc[p] = "serving" /\ UNCHANGED file
         /\ st' \in [Process -> States]
         /\ pc' \in [Process -> {"off", "create", "loaded", "serving", "saving", "fatal"}]
         /\ \A q \in Process \ {p} : st'[q] = st[q] /\ pc'[q] = pc[q]
         /\ st[p].kind = "map" =>
              /\ pc' = pc /\ st'[p].kind = "map"
              /\ st'[p].nets = [st[p].nets EXCEPT ![n] = s]
<1>1. CASE st[p].kind = "map"
  <2>1. st' = [st EXCEPT ![p].nets[n] = s] /\ pc' = pc /\ file' = file /\ pc[p] = "serving"
    BY <1>1 DEF Recording
  <2>2. st[p].nets \in Map /\ [st[p].nets EXCEPT ![n] = s] \in Map
    <3>1. st[p] \in [kind : {"map"}, nets : Map]
      BY <1>1 DEF TypeOK, States, Zero
    <3> QED
      BY <3>1 DEF Map
  <2>3. st'[p].nets = [st[p].nets EXCEPT ![n] = s] /\ st'[p].kind = "map"
    BY <1>1, <2>1 DEF TypeOK
  <2>4. st' \in [Process -> States]
    <3>1. st[p] \in [kind : {"map"}, nets : Map]
      BY <1>1 DEF TypeOK, States, Zero
    <3>2. [st[p] EXCEPT !.nets = [@ EXCEPT ![n] = s]] \in States
      BY <2>2, <3>1 DEF States
    <3> QED
      BY <2>1, <3>2 DEF TypeOK
  <2>5. \A q \in Process \ {p} : st'[q] = st[q]
    BY <2>1 DEF TypeOK
  <2> QED
    BY <2>1, <2>3, <2>4, <2>5 DEF TypeOK
<1>2. CASE st[p].kind # "map"
  <2>1. pc' = [pc EXCEPT ![p] = "fatal"] /\ st' = st /\ file' = file /\ pc[p] = "serving"
    BY <1>2 DEF Recording, Goto
  <2> QED
    BY <1>2, <2>1 DEF TypeOK
<1> QED
  BY <1>1, <1>2

LEMMA NextType == TypeOK /\ [Next]_vars => TypeOK'
<1> SUFFICES ASSUME TypeOK, [Next]_vars PROVE TypeOK'
  OBVIOUS
<1> faults' = faults
  BY DEF Next, vars
<1>zero. Zero \in States
  BY DEF States
<1>1. ASSUME NEW p \in Process, Load(p) PROVE TypeOK'
  <2>1. CASE FindNothing(p)
    BY <2>1 DEF FindNothing, Goto, TypeOK
  <2>2. CASE CreateFile(p)
    BY <2>2, <1>zero DEF CreateFile, Goto, TypeOK
  <2>3. CASE ReadFile(p)
    <3>1. file \in States
      BY <2>3 DEF ReadFile, TypeOK, Absent, NoBytes
    <3> QED
      BY <2>3, <3>1 DEF ReadFile, Goto, TypeOK
  <2>4. CASE LoadFails(p)
    BY <2>4 DEF LoadFails, Goto, TypeOK
  <2> QED
    BY <1>1, <2>1, <2>2, <2>3, <2>4 DEF Load
<1>2. ASSUME NEW p \in Process, Configure(p) PROVE TypeOK'
  <2>1. GetState(st[p]) \in States /\ GetState(st[p]).kind = "map"
    BY GetStateType DEF TypeOK, States
  <2> QED
    BY <1>2, <2>1 DEF Configure, Goto, TypeOK
<1>3. ASSUME NEW p \in Process, Save(p) PROVE TypeOK'
  <2>1. CASE Truncate(p)
    BY <2>1, <1>zero DEF Truncate, Goto, TypeOK
  <2>2. CASE Write(p)
    BY <2>2, <1>zero DEF Write, Goto, TypeOK
  <2>3. CASE ReturnUnsaved(p)
    BY <2>3, <1>zero DEF ReturnUnsaved, Goto, TypeOK
  <2> QED
    BY <1>3, <2>1, <2>2, <2>3 DEF Save
<1>4. ASSUME NEW p \in Process, Killed(p) \/ TryAgain(p) PROVE TypeOK'
  BY <1>4, <1>zero DEF Killed, TryAgain, Goto, TypeOK
<1>5. ASSUME NEW p \in Process, NEW n \in Network, Refresh(p, n) PROVE TypeOK'
  <2>1. deployed[n] \in Subnets \cup {NoSubnets}
    BY DEF TypeOK, Map
  <2>2. Recording(p, n, deployed[n]) /\ deployed' = deployed
    BY <1>5 DEF Refresh
  <2> QED
    BY <2>1, <2>2, RecordingType DEF TypeOK
<1>6. ASSUME NEW p \in Process, NEW n \in Network, Apply(p, n) PROVE TypeOK'
  <2>1. PICK s \in Subnets \cup {NoSubnets} :
          Recording(p, n, s) /\ deployed' = [deployed EXCEPT ![n] = s]
    BY <1>6 DEF Apply
  <2>2. deployed' \in Map
    BY <2>1 DEF TypeOK, Map
  <2> QED
    BY <2>1, <2>2, RecordingType DEF TypeOK
<1>7. CASE UNCHANGED vars
  BY <1>7 DEF vars, TypeOK
<1> QED
  BY <1>1, <1>2, <1>3, <1>4, <1>5, <1>6, <1>7 DEF Next

\* Whatever processes run together, fail, are killed or do not save: the file is
\* absent, empty or a whole state, what each process holds is a state, and the one
\* it serves has a map.
THEOREM TypeCorrect == Spec => []TypeOK
BY InitType, NextType, PTL DEF Spec

----------------------------------------------------------------------------
(* Without faults, the record is handed on *)

\* One process at a time; what is deployed is in its map while it holds one, and
\* in the file before and after.
InTurn ==
  /\ \A p, q \in Process : pc[p] # "off" /\ pc[q] # "off" => p = q
  /\ \A p \in Process : pc[p] # "fatal"
  /\ \A p \in Process : pc[p] = "create" => file = Absent
  /\ (\A p \in Process : pc[p] \in {"off", "create"}) =>
       file # NoBytes /\ file.nets = deployed
  /\ \A p \in Process : pc[p] \in {"loaded", "serving", "saving"} => st[p].nets = deployed
  /\ \A p \in Process : pc[p] = "serving" => st[p].kind = "map"

LEMMA InitInTurn == Init => InTurn
BY DEF Init, InTurn, Absent, NoBytes

LEMMA NextInTurn == faults = {} /\ TypeOK /\ InTurn /\ [Next]_vars => InTurn'
<1> SUFFICES ASSUME faults = {}, TypeOK, InTurn, [Next]_vars PROVE InTurn'
  OBVIOUS
<1>pc. \A p \in Process :
         pc[p] \in {"off", "create", "loaded", "serving", "saving", "fatal"}
  BY DEF TypeOK
<1>1. ASSUME NEW p \in Process, Load(p) PROVE InTurn'
  <2>1. CASE FindNothing(p)
    <3>1. \A q \in Process : pc[q] = "off"
      BY <2>1 DEF FindNothing, MayStart, Off
    <3>2. pc' = [pc EXCEPT ![p] = "create"] /\ file = Absent /\ UNCHANGED <<file, st, deployed>>
      BY <2>1 DEF FindNothing, Goto
    <3> QED
      BY <3>1, <3>2 DEF InTurn, TypeOK
  <2>2. CASE CreateFile(p)
    <3>1. \A q \in Process \ {p} : pc[q] = "off"
      BY <2>2 DEF CreateFile, InTurn
    <3>2. /\ pc' = [pc EXCEPT ![p] = "loaded"] /\ st' = [st EXCEPT ![p] = Zero]
          /\ deployed' = deployed
      BY <2>2 DEF CreateFile, Goto
    <3>3. file = Absent /\ file.nets = deployed
      BY <2>2, <3>1 DEF CreateFile, InTurn
    <3>4. Zero.nets = deployed
      BY <3>3 DEF Absent, Zero
    <3> QED
      BY <3>1, <3>2, <3>4 DEF InTurn, TypeOK
  <2>3. CASE ReadFile(p)
    <3>1. \A q \in Process : pc[q] = "off"
      BY <2>3 DEF ReadFile, MayStart, Off
    <3>2. /\ pc' = [pc EXCEPT ![p] = "loaded"] /\ st' = [st EXCEPT ![p] = file]
          /\ UNCHANGED <<file, deployed>>
      BY <2>3 DEF ReadFile, Goto
    <3>3. file.nets = deployed
      BY <3>1 DEF InTurn
    <3> QED
      BY <3>1, <3>2, <3>3 DEF InTurn, TypeOK
  <2>4. CASE LoadFails(p)
    <3>1. \A q \in Process : pc[q] = "off"
      BY <2>4 DEF LoadFails, MayStart, Off
    <3> QED
      BY <2>4, <3>1 DEF LoadFails, InTurn
  <2> QED
    BY <1>1, <2>1, <2>2, <2>3, <2>4 DEF Load
<1>2. ASSUME NEW p \in Process, Configure(p) PROVE InTurn'
  <2>1. \A q \in Process \ {p} : pc[q] = "off"
    BY <1>2 DEF Configure, InTurn
  <2>2. /\ pc' = [pc EXCEPT ![p] = "serving"] /\ st' = [st EXCEPT ![p] = GetState(st[p])]
        /\ UNCHANGED <<file, deployed>>
    BY <1>2 DEF Configure, Goto
  <2>3. st[p].nets = deployed
    BY <1>2 DEF Configure, InTurn
  <2>4. GetState(st[p]).kind = "map" /\ GetState(st[p]).nets = deployed
    BY <2>3, GetStateType DEF TypeOK
  <2> QED
    BY <2>1, <2>2, <2>4 DEF InTurn, TypeOK
<1>3. ASSUME NEW p \in Process, Save(p) PROVE InTurn'
  <2>1. CASE Truncate(p)
    <3>1. \A q \in Process \ {p} : pc[q] = "off"
      BY <2>1 DEF Truncate, InTurn
    <3>2. pc' = [pc EXCEPT ![p] = "saving"] /\ UNCHANGED <<st, deployed>>
      BY <2>1 DEF Truncate, Goto
    <3>3. st[p].nets = deployed
      BY <2>1 DEF Truncate, InTurn
    <3> QED
      BY <3>1, <3>2, <3>3 DEF InTurn, TypeOK
  <2>2. CASE Write(p)
    <3>1. \A q \in Process \ {p} : pc[q] = "off"
      BY <2>2 DEF Write, InTurn
    <3>2. /\ pc' = [pc EXCEPT ![p] = "off"] /\ file' = st[p] /\ st' = [st EXCEPT ![p] = Zero]
          /\ deployed' = deployed
      BY <2>2 DEF Write, Goto
    <3>3. st[p].nets = deployed /\ st[p] # NoBytes
      BY <2>2 DEF Write, InTurn, TypeOK, States, Zero, NoBytes
    <3>4. \A q \in Process : pc'[q] = "off"
      BY <3>1, <3>2 DEF TypeOK
    <3> QED
      BY <3>2, <3>3, <3>4 DEF InTurn
  <2>3. CASE ReturnUnsaved(p)
    BY <2>3 DEF ReturnUnsaved
  <2> QED
    BY <1>3, <2>1, <2>2, <2>3 DEF Save
<1>4. ASSUME NEW p \in Process, Killed(p) \/ TryAgain(p) PROVE InTurn'
  BY <1>4 DEF Killed, TryAgain, InTurn
<1>5. ASSUME NEW p \in Process, NEW n \in Network, NEW s \in Subnets \cup {NoSubnets},
             Recording(p, n, s), deployed' = [deployed EXCEPT ![n] = s]
      PROVE  InTurn'
  <2>1. pc[p] = "serving" /\ st[p].kind = "map" /\ st[p].nets = deployed
    BY <1>5 DEF Recording, InTurn
  <2>2. /\ pc' = pc /\ file' = file /\ st'[p].kind = "map"
        /\ st'[p].nets = [st[p].nets EXCEPT ![n] = s]
        /\ \A q \in Process \ {p} : st'[q] = st[q]
    BY <1>5, <2>1, RecordingType
  <2>3. \A q \in Process \ {p} : pc[q] = "off"
    BY <2>1 DEF InTurn
  <2>4. st'[p].nets = deployed'
    BY <1>5, <2>1, <2>2
  <2> QED
    BY <2>1, <2>2, <2>3, <2>4 DEF InTurn
<1>6. ASSUME NEW p \in Process, NEW n \in Network, Refresh(p, n) PROVE InTurn'
  <2>1. deployed[n] \in Subnets \cup {NoSubnets} /\ [deployed EXCEPT ![n] = deployed[n]] = deployed
    BY DEF TypeOK, Map
  <2>2. Recording(p, n, deployed[n]) /\ deployed' = deployed
    BY <1>6 DEF Refresh
  <2> QED
    BY <1>5, <2>1, <2>2
<1>7. ASSUME NEW p \in Process, NEW n \in Network, Apply(p, n) PROVE InTurn'
  <2>1. PICK s \in Subnets \cup {NoSubnets} :
          Recording(p, n, s) /\ deployed' = [deployed EXCEPT ![n] = s]
    BY <1>7 DEF Apply
  <2> QED
    BY <1>5, <2>1
<1>8. CASE UNCHANGED vars
  BY <1>8 DEF vars, InTurn
<1> QED
  BY <1>1, <1>2, <1>3, <1>4, <1>6, <1>7, <1>8 DEF Next

\* However many networks there are and whatever processes come and go in turn,
\* each of them serves what is deployed, and none is lost between two of them.
THEOREM RecordIsHandedOn == Spec => []HandedOn
<1> DEFINE Inv == TypeOK /\ (faults = {} => InTurn)
<1>1. Init => Inv
  BY InitType, InitInTurn
<1>2. Inv /\ [Next]_vars => Inv'
  <2> SUFFICES ASSUME Inv, [Next]_vars PROVE Inv'
    OBVIOUS
  <2>1. TypeOK' /\ faults' = faults
    BY NextType DEF Next, vars
  <2> QED
    BY <2>1, NextInTurn
<1>3. Inv => HandedOn
  BY DEF HandedOn, InTurn, Off, TypeOK
<1> QED
  BY <1>1, <1>2, <1>3, PTL DEF Spec
=============================================================================
