----------------------------- MODULE ReclaimProofs -----------------------------
(****************************************************************************)
(* Reclaiming is safe for any number of projects and services, as long as   *)
(* no two projects that are deployed today share a directory (Apart).  Run  *)
(* live_sibling shows what happens when two do.                             *)
(*                                                                          *)
(* The argument: a name is stale for one live project at most, and only a   *)
(* live project ever takes a name, so staleness goes away and never comes   *)
(* back (Antitone).  A project brings nothing up before its stale names are *)
(* gone (Settled), while one is left the volumes are still where they came   *)
(* from, so that a copy that broke has a stale name to start again from, or   *)
(* had one until an operator freed it (Salvaged), and a name that Accorda     *)
(* freed was copied first (Moved).  The name being reclaimed is stale still,  *)
(* or an operator freed it and it is anybody's (Knows): this one case is why  *)
(* the theorems speak of the names that were not freed under a move.          *)
(****************************************************************************)
EXTENDS Reclaim, TLAPS

\* No two deployed projects have their Compose file in the same directory.
Apart == \A p, q \in Live : Dir[p] = Dir[q] => p = q

StaleNames(p) == {s \in Services : Stale(p, holder[s])}

\* An older container is as it was when it is to be moved, and a name freed
\* under a move is taken by deployed projects only.
Names ==
  /\ \A s \in Services : holder[s] # None /\ holder[s].project \in Others => due[s] = holder[s]
  /\ \A s \in taken : holder[s] # None => holder[s].project \in Live

\* What is to be moved from an older deployment is whole.
Untouched ==
  \A s \in Services : due[s] # None /\ due[s].project \in Others =>
    \A v \in Mounts[s] : data[due[s].project][v] = "whole"

\* A project that runs anything has no stale name left.
Settled(p) == \A s \in Services : Runs(p, s) => StaleNames(p) = {}

\* What a broken copy left is a volume of a name that is still stale, or that
\* was freed under the move.
Salvaged(p) ==
  \A v \in Volumes : data[p][v] = "partial" => \E s \in StaleNames(p) \cup taken : v \in Mounts[s]

\* A name Accorda itself freed had its volumes copied.
Moved(p) ==
  \A s \in Services : Stale(p, due[s]) /\ s \notin StaleNames(p) =>
    \A v \in Mounts[s] : data[p][v] \in {"partial", "whole"}

\* A container has its volumes.
Filled(p) == \A s \in Services : Runs(p, s) => \A v \in Mounts[s] : data[p][v] # "absent"

\* What an Apply under way knows: the names still to look at cover the stale
\* ones, those are listed as they are, and of the one being reclaimed, which is
\* stale unless it was freed under the move, every volume not still to be
\* copied is whole and the others can be copied.
Knows(p) ==
  /\ pc[p] # "idle" => StaleNames(p) \subseteq todo[p]
  /\ pc[p] \in {"look", "copy"} => \A s \in StaleNames(p) : listed[p][s] = holder[s]
  /\ pc[p] = "copy" =>
       /\ reclaim[p] \in todo[p] /\ reclaim[p] \in StaleNames(p) \cup taken
       /\ Stale(p, listed[p][reclaim[p]])
       /\ copies[p] \subseteq Mounts[reclaim[p]]
       /\ \A v \in Mounts[reclaim[p]] \ copies[p] : data[p][v] = "whole"
       /\ \A v \in copies[p] : data[Source(p)][v] = "whole"

Sound(p) == Settled(p) /\ Salvaged(p) /\ Moved(p) /\ Filled(p) /\ Knows(p)

IInv == TypeOK /\ Names /\ Untouched /\ \A p \in Live : Sound(p)

LEMMA Data ==
  /\ \A s \in Services : Mounts[s] \subseteq Volumes
  /\ \A p \in Projects : Own(p) \in Container /\ Own(p).project = p /\ Own(p) # None
  /\ \A p \in Live : p \in Projects /\ p \notin Others
  /\ \A c \in Container : c.project \in Projects /\ c # None
  /\ None \notin Services
<1>1. \A c \in Container : c.project \in Projects /\ c # None
  BY ReclaimAssumption DEF Container
<1>2. \A p \in Projects : Own(p) \in Container /\ Own(p).project = p
  BY DEF Own, Container
<1>3. \A s \in Services : Mounts[s] \subseteq Volumes
  BY DEF Volumes
<1>4. \A p \in Live : p \in Projects /\ p \notin Others
  BY ReclaimAssumption DEF Projects
<1> QED
  BY <1>1, <1>2, <1>3, <1>4, ReclaimAssumption

-----------------------------------------------------------------------------
(* Type correctness *)

LEMMA Typed ==
  ASSUME IInv, Next
  PROVE  TypeOK'
<1>0. TypeOK /\ \A p \in Live : Knows(p)
  BY DEF IInv, Sound
<1> USE Data, ReclaimAssumption DEF TypeOK
<1>1. ASSUME NEW p \in Live, BeginApply(p) \/ List(p) \/ Leave(p) PROVE TypeOK'
  <2>1. CASE BeginApply(p)
    BY <1>0, <2>1 DEF BeginApply, ToReclaim, world
  <2>2. CASE List(p)
    BY <1>0, <2>2 DEF List, world
  <2>3. CASE Leave(p)
    BY <1>0, <2>3 DEF Leave, world
  <2> QED
    BY <1>1, <2>1, <2>2, <2>3
<1>2. ASSUME NEW p \in Live, Inspect(p) PROVE TypeOK'
  BY <1>0, <1>2 DEF Inspect, world
<1>3. ASSUME NEW p \in Live, Copy(p) PROVE TypeOK'
  <2>1. reclaim[p] \in Services /\ Stale(p, listed[p][reclaim[p]])
    BY <1>0, <1>3 DEF Copy, Knows
  <2>2. Source(p) \in Projects
    BY <1>0, <2>1 DEF Stale, Source
  <2>3. PICK v \in copies[p] : data' = [data EXCEPT ![p][v] = data[Source(p)][v]]
    BY <1>3 DEF Copy
  <2>4. v \in Volumes /\ data[Source(p)][v] \in Contents
    BY <1>0, <2>2, <2>3
  <2>5. data' \in [Projects -> [Volumes -> Contents]]
    BY <1>0, <2>3, <2>4
  <2> QED
    BY <1>0, <1>3, <2>5 DEF Copy, world
<1>4. ASSUME NEW p \in Live, Remove(p) PROVE TypeOK'
  BY <1>0, <1>4 DEF Remove, world
<1>5. ASSUME NEW p \in Live, NEW s \in Services, Up(p, s) PROVE TypeOK'
  <2>1. data' \in [Projects -> [Volumes -> Contents]]
    BY <1>0, <1>5 DEF Up, Contents
  <2>2. holder' \in [Services -> Container \cup {None}]
    BY <1>0, <1>5 DEF Up
  <2> QED
    BY <1>0, <1>5, <2>1, <2>2 DEF Up, world
<1>6. ASSUME NEW p \in Live, Applied(p) \/ Conflict(p) \/ Vanished(p) \/ CopyRefused(p) \/ Break(p) PROVE TypeOK'
  <2>1. Leaves(p) /\ UNCHANGED <<holder, data, world>> /\ faults' \in 0..MaxFaults
    BY <1>0, <1>6 DEF Applied, Conflict, Vanished, CopyRefused, Break
  <2>2. [s \in Services |-> None] \in [Services -> Container \cup {None}]
    OBVIOUS
  <2> QED
    BY <1>0, <2>1, <2>2 DEF Leaves, world
<1>7. ASSUME NEW p \in Live, CopyBreaks(p) PROVE TypeOK'
  <2>1. data' \in [Projects -> [Volumes -> Contents]]
    BY <1>0, <1>7 DEF CopyBreaks, Contents
  <2> QED
    BY <1>0, <1>7, <2>1 DEF CopyBreaks, Leaves, world
<1>8. ASSUME NEW s \in Services, TakeDown(s) PROVE TypeOK'
  BY <1>0, <1>8 DEF TakeDown, applyVars
<1> QED
  BY <1>1, <1>2, <1>3, <1>4, <1>5, <1>6, <1>7, <1>8 DEF Next, Apply

-----------------------------------------------------------------------------
(* Staleness only goes away *)

\* What happens to a name: it stays as it is, becomes free, or is taken by a
\* live project it was free for.
LEMMA NamesMove ==
  ASSUME IInv, [Next]_vars, NEW s \in Services
  PROVE  \/ holder'[s] \in {holder[s], None}
         \/ \E q \in Live : holder'[s] = Own(q) /\ (holder[s] = None \/ Runs(q, s))
<1>0. TypeOK
  BY DEF IInv
<1>1. ASSUME NEW q \in Live, NEW x \in Services, Up(q, x)
      PROVE  holder'[s] = holder[s] \/ (holder'[s] = Own(q) /\ (holder[s] = None \/ Runs(q, s)))
  BY <1>0, <1>1 DEF Up, TypeOK
<1>2. ASSUME NEW q \in Live, Apply(q) \/ CopyBreaks(q) \/ Break(q), ~ \E x \in Services : Up(q, x)
      PROVE  holder'[s] \in {holder[s], None}
  BY <1>0, <1>2 DEF Apply, BeginApply, List, Leave, Inspect, Copy, Remove, Applied, Conflict,
       Vanished, CopyRefused, CopyBreaks, Break, TypeOK
<1>3. ASSUME NEW x \in Services, TakeDown(x) PROVE holder'[s] \in {holder[s], None}
  BY <1>0, <1>3 DEF TakeDown, TypeOK
<1>4. UNCHANGED vars => holder'[s] = holder[s]
  BY DEF vars
<1> QED
  BY <1>1, <1>2, <1>3, <1>4 DEF Next

LEMMA Antitone ==
  ASSUME Apart, IInv, [Next]_vars, NEW p \in Live
  PROVE  /\ StaleNames(p)' \subseteq StaleNames(p)
         /\ \A s \in StaleNames(p)' : holder'[s] = holder[s]
<1> SUFFICES ASSUME NEW s \in Services, Stale(p, holder'[s])
             PROVE  holder'[s] = holder[s]
  BY DEF StaleNames
<1>1. holder'[s] # None /\ \A q \in Live : holder'[s] # Own(q)
  BY Data DEF Stale, Apart
<1> QED
  BY <1>1, NamesMove

\* A step of another project leaves what this one keeps in memory, its volumes
\* and its stale names alone, and starts no container for it.
LEMMA OthersLeave ==
  ASSUME Apart, IInv, NEW p \in Live, NEW q \in Live \ {p}, Apply(q) \/ CopyBreaks(q) \/ Break(q)
  PROVE  /\ pc'[p] = pc[p] /\ todo'[p] = todo[p] /\ listed'[p] = listed[p]
         /\ reclaim'[p] = reclaim[p] /\ copies'[p] = copies[p] /\ data'[p] = data[p]
         /\ \A s \in StaleNames(p) : holder'[s] = holder[s]
         /\ \A s \in Services : Runs(p, s)' => Runs(p, s)
         /\ UNCHANGED world
<1>1. TypeOK /\ Knows(q) /\ Names
  BY DEF IInv, Sound
<1>2. /\ pc'[p] = pc[p] /\ todo'[p] = todo[p] /\ listed'[p] = listed[p]
      /\ reclaim'[p] = reclaim[p] /\ copies'[p] = copies[p] /\ data'[p] = data[p]
  <2>1. CASE Applied(q) \/ Conflict(q) \/ Vanished(q) \/ CopyRefused(q) \/ CopyBreaks(q) \/ Break(q)
    BY <1>1, <2>1, Data DEF Applied, Conflict, Vanished, CopyRefused, CopyBreaks, Break, Leaves,
         TypeOK
  <2>2. CASE BeginApply(q) \/ List(q) \/ Leave(q) \/ Inspect(q) \/ Remove(q)
    BY <1>1, <2>2 DEF BeginApply, List, Leave, Inspect, Remove, TypeOK
  <2>3. CASE Copy(q) \/ \E s \in Services : Up(q, s)
    BY <1>1, <2>3, Data DEF Copy, Up, TypeOK
  <2> QED
    BY <2>1, <2>2, <2>3 DEF Apply
<1>3. UNCHANGED world
  BY DEF Apply, BeginApply, List, Leave, Inspect, Copy, Remove, Up, Applied, Conflict, Vanished,
       CopyRefused, CopyBreaks, Break
<1>4. CASE holder' = holder
  BY <1>2, <1>4, <1>3 DEF Runs
<1>5. CASE Remove(q)
  <2>1. /\ reclaim[q] \in StaleNames(q) \cup taken
        /\ holder' = [holder EXCEPT ![reclaim[q]] = None]
    BY <1>1, <1>5 DEF Remove, Knows
  <2>2. reclaim[q] \in StaleNames(q) => reclaim[q] \notin StaleNames(p)
    BY DEF StaleNames, Stale, Apart
  <2>3. reclaim[q] \in taken => reclaim[q] \notin StaleNames(p)
    BY <1>1 DEF StaleNames, Stale, Apart, Names
  <2>4. reclaim[q] \notin StaleNames(p)
    BY <2>1, <2>2, <2>3
  <2> QED
    BY <1>1, <1>2, <1>3, <2>1, <2>4 DEF Runs, TypeOK, StaleNames
<1>6. ASSUME NEW x \in Services, Up(q, x)
      PROVE  /\ \A s \in StaleNames(p) : holder'[s] = holder[s]
             /\ \A s \in Services : Runs(p, s)' => Runs(p, s)
  <2>1. /\ holder[x] = None \/ holder[x].project = q
        /\ holder' = [holder EXCEPT ![x] = Own(q)]
    BY <1>6 DEF Up, Runs
  <2>2. x \notin StaleNames(p)
    BY <2>1 DEF StaleNames, Stale, Apart
  <2> QED
    BY <1>1, <2>1, <2>2, Data DEF Runs, TypeOK, StaleNames
<1>7. holder' = holder \/ Remove(q) \/ \E x \in Services : Up(q, x)
  BY DEF Apply, BeginApply, List, Leave, Inspect, Copy, Applied, Conflict, Vanished, CopyRefused,
       CopyBreaks, Break
<1> QED
  BY <1>2, <1>4, <1>5, <1>6, <1>7, <1>3

\* Nothing is written into the volumes of an older deployment.
LEMMA OthersData ==
  ASSUME TypeOK, NEW o \in Others,
         \/ \E q \in Live : Apply(q) \/ CopyBreaks(q) \/ Break(q)
         \/ \E s \in Services : TakeDown(s)
         \/ UNCHANGED vars
  PROVE  data'[o] = data[o]
<1>1. ASSUME NEW q \in Live, Apply(q) \/ CopyBreaks(q) \/ Break(q) PROVE data'[o] = data[o]
  <2>1. o # q /\ o \in Projects
    BY Data DEF Projects
  <2> QED
    BY <1>1, <2>1 DEF Apply, BeginApply, List, Leave, Inspect, Copy, Remove, Up, Applied,
         Conflict, Vanished, CopyRefused, CopyBreaks, Break, TypeOK
<1> QED
  BY <1>1 DEF TakeDown, vars

\* So what holds of a project goes on to hold.
LEMMA OthersKeep ==
  ASSUME Apart, IInv, NEW p \in Live,
         \/ \E q \in Live \ {p} : Apply(q) \/ CopyBreaks(q) \/ Break(q)
         \/ UNCHANGED vars
  PROVE  Sound(p)'
<1>1. TypeOK /\ Sound(p)
  BY DEF IInv
<1>2. /\ pc'[p] = pc[p] /\ todo'[p] = todo[p] /\ listed'[p] = listed[p]
      /\ reclaim'[p] = reclaim[p] /\ copies'[p] = copies[p] /\ data'[p] = data[p]
      /\ \A s \in StaleNames(p) : holder'[s] = holder[s]
      /\ \A s \in Services : Runs(p, s)' => Runs(p, s)
      /\ due' = due /\ taken' = taken
  BY OthersLeave DEF vars, applyVars, world, Runs
<1>3. StaleNames(p)' = StaleNames(p)
  <2>1. StaleNames(p)' \subseteq StaleNames(p)
    BY Antitone DEF Next
  <2> QED
    BY <1>2, <2>1 DEF StaleNames
<1>4. Settled(p)' /\ Salvaged(p)' /\ Moved(p)' /\ Filled(p)'
  BY <1>1, <1>2, <1>3 DEF Sound, Settled, Salvaged, Moved, Filled, Stale
<1>5. Knows(p)'
  <2>1. pc[p] = "copy" => \A v \in copies[p] : data'[Source(p)][v] = data[Source(p)][v]
    <3> SUFFICES ASSUME pc[p] = "copy" PROVE data'[Source(p)] = data[Source(p)]
      OBVIOUS
    <3>1. Source(p) \in Others
      BY <1>1 DEF Sound, Knows, Source, Stale, Apart, TypeOK, Container, Projects
    <3> QED
      BY <1>1, <3>1, OthersData
  <2>2. Source(p)' = Source(p)
    BY <1>2 DEF Source
  <2> QED
    BY <1>1, <1>2, <1>3, <2>1, <2>2 DEF Sound, Knows
<1> QED
  BY <1>4, <1>5 DEF Sound

\* Nor does it change when an operator takes an older deployment down.
LEMMA TakeDownKeeps ==
  ASSUME IInv, NEW p \in Live, NEW s \in Services, TakeDown(s)
  PROVE  Sound(p)'
<1>1. TypeOK /\ Sound(p)
  BY DEF IInv
<1>2. /\ UNCHANGED <<data, applyVars>>
      /\ holder' = [holder EXCEPT ![s] = None] /\ due' = [due EXCEPT ![s] = None]
      /\ taken \subseteq taken' /\ (Moving(p, s) => s \in taken')
      /\ holder[s].project \in Others
  BY DEF TakeDown
<1>3. StaleNames(p)' = StaleNames(p) \ {s}
  BY <1>1, <1>2, Data DEF StaleNames, Stale, TypeOK
<1>4. \A x \in Services : Runs(p, x)' => Runs(p, x)
  BY <1>1, <1>2, Data DEF Runs, TypeOK
<1>5. Settled(p)' /\ Filled(p)'
  BY <1>1, <1>2, <1>3, <1>4 DEF Sound, Settled, Filled
<1>6. Salvaged(p)'
  <2> SUFFICES ASSUME NEW v \in Volumes, data[p][v] = "partial"
               PROVE  \E x \in StaleNames(p)' \cup taken' : v \in Mounts[x]
    BY <1>2 DEF Salvaged
  <2>1. PICK x \in StaleNames(p) \cup taken : v \in Mounts[x]
    BY <1>1 DEF Sound, Salvaged
  <2>2. CASE x = s /\ x \in StaleNames(p)
    BY <1>2, <2>1, <2>2 DEF Moving, StaleNames
  <2>3. CASE ~(x = s /\ x \in StaleNames(p))
    BY <1>2, <1>3, <2>1, <2>3
  <2> QED
    BY <2>2, <2>3
<1>7. Moved(p)'
  BY <1>1, <1>2, <1>3, Data DEF Sound, Moved, Stale, TypeOK
<1>8. Knows(p)'
  <2>1. \A x \in StaleNames(p)' : x \in StaleNames(p) /\ holder'[x] = holder[x]
    BY <1>1, <1>2, <1>3 DEF TypeOK, StaleNames
  <2>2. pc[p] = "copy" => reclaim[p] \in StaleNames(p)' \cup taken'
    BY <1>1, <1>2, <1>3 DEF Sound, Knows, Moving
  <2>3. UNCHANGED <<pc, todo, listed, reclaim, copies, data>> /\ Source(p)' = Source(p)
    BY <1>2 DEF applyVars, Source
  <2> QED
    BY <1>1, <2>1, <2>2, <2>3 DEF Sound, Knows
<1> QED
  BY <1>5, <1>6, <1>7, <1>8 DEF Sound

-----------------------------------------------------------------------------
(* The steps of a project's own Apply *)

\* Entering Apply and reading the daemon.
LEMMA LooksKeep ==
  ASSUME Apart, IInv, NEW p \in Live, BeginApply(p) \/ List(p) \/ Leave(p) \/ Inspect(p)
  PROVE  Sound(p)'
<1>0. TypeOK /\ Sound(p) /\ Knows(p) /\ Names /\ Untouched
  BY DEF IInv, Sound
<1>1. StaleNames(p)' = StaleNames(p) /\ UNCHANGED <<holder, data, due, taken>>
  BY DEF BeginApply, List, Leave, Inspect, StaleNames, world
<1>2. CASE BeginApply(p)
  <2>1. StaleNames(p) \subseteq Missing(p)
    BY DEF StaleNames, Missing, Runs, Stale
  <2>2. Knows(p)'
    BY <1>0, <1>1, <1>2, <2>1 DEF BeginApply, Knows, TypeOK, ToReclaim
  <2> QED
    BY <1>0, <1>1, <2>2 DEF Sound, Settled, Salvaged, Moved, Filled, Runs
<1>3. CASE List(p)
  <2>1. Knows(p)'
    BY <1>0, <1>1, <1>3 DEF List, Knows, TypeOK, StaleNames
  <2> QED
    BY <1>0, <1>1, <2>1 DEF Sound, Settled, Salvaged, Moved, Filled, Runs
<1>4. CASE Leave(p)
  <2>1. PICK s \in todo[p] : ~Stale(p, listed[p][s]) /\ todo' = [todo EXCEPT ![p] = @ \ {s}]
    BY <1>4 DEF Leave
  <2>2. s \notin StaleNames(p)
    BY <1>0, <1>4, <2>1 DEF Leave, Knows, StaleNames
  <2>3. Knows(p)'
    BY <1>0, <1>1, <1>4, <2>1, <2>2 DEF Leave, Knows, TypeOK
  <2> QED
    BY <1>0, <1>1, <2>3 DEF Sound, Settled, Salvaged, Moved, Filled, Runs
<1>5. CASE Inspect(p)
  <2>1. PICK s \in todo[p] : /\ Stale(p, listed[p][s]) /\ holder[s] = listed[p][s]
                             /\ reclaim' = [reclaim EXCEPT ![p] = s]
                             /\ copies' = [copies EXCEPT ![p] = Mounts[s]]
    BY <1>5 DEF Inspect
  <2>2. s \in StaleNames(p)
    BY <1>0, <2>1 DEF StaleNames, TypeOK
  <2>3. \A v \in Mounts[s] : data[listed[p][s].project][v] = "whole"
    BY <1>0, <2>1, <2>2, Data DEF StaleNames, Stale, Apart, TypeOK, Container, Projects, Names, Untouched
  <2>4. Knows(p)'
    BY <1>0, <1>1, <1>5, <2>1, <2>2, <2>3 DEF Inspect, Knows, TypeOK, Source
  <2> QED
    BY <1>0, <1>1, <2>4 DEF Sound, Settled, Salvaged, Moved, Filled, Runs
<1> QED
  BY <1>2, <1>3, <1>4, <1>5

\* A volume is copied from an older deployment, where it is whole.
LEMMA CopyKeeps ==
  ASSUME Apart, IInv, NEW p \in Live, Copy(p)
  PROVE  Sound(p)'
<1>0. TypeOK /\ Sound(p) /\ Knows(p)
  BY DEF IInv, Sound
<1>1. PICK v \in copies[p] : /\ data' = [data EXCEPT ![p][v] = data[Source(p)][v]]
                             /\ copies' = [copies EXCEPT ![p] = @ \ {v}]
  BY DEF Copy
<1>2. v \in Mounts[reclaim[p]] /\ v \in Volumes /\ reclaim[p] \in Services
  BY <1>0, <1>1, Data DEF Copy, Knows, TypeOK
<1>3. data[Source(p)][v] = "whole" /\ Source(p) # p
  BY <1>0, <1>1 DEF Copy, Knows, Source, Stale
<1>4. /\ data'[p][v] = "whole" /\ holder' = holder
      /\ \A x \in Volumes : x # v => data'[p][x] = data[p][x]
      /\ data'[Source(p)] = data[Source(p)]
      /\ copies'[p] = copies[p] \ {v} /\ pc' = pc /\ UNCHANGED <<todo, listed, reclaim, due, taken>>
  BY <1>0, <1>1, <1>2, <1>3, Data DEF Copy, TypeOK, world
<1>5. StaleNames(p)' = StaleNames(p) /\ Source(p)' = Source(p)
  BY <1>4 DEF StaleNames, Source
<1>6. \A x \in Mounts[reclaim[p]] : x \in Volumes
  BY <1>2, Data
<1>7. Knows(p)'
  BY <1>0, <1>4, <1>5, <1>6 DEF Copy, Knows
<1>8. Settled(p)' /\ Salvaged(p)'
  BY <1>0, <1>4, <1>5 DEF Sound, Settled, Salvaged, Runs
<1>9. Moved(p)' /\ Filled(p)'
  BY <1>0, <1>4, <1>5, Data DEF Sound, Moved, Filled, Runs
<1> QED
  BY <1>7, <1>8, <1>9 DEF Sound

\* A name is freed when all its volumes have been copied.
LEMMA RemoveKeeps ==
  ASSUME IInv, NEW p \in Live, Remove(p)
  PROVE  Sound(p)'
<1>0. TypeOK /\ Sound(p) /\ Knows(p)
  BY DEF IInv, Sound
<1>1. /\ reclaim[p] \in StaleNames(p) \cup taken /\ copies[p] = {} /\ reclaim[p] \in todo[p]
      /\ holder' = [holder EXCEPT ![reclaim[p]] = None]
      /\ data' = data /\ listed' = listed /\ UNCHANGED <<due, taken>>
      /\ pc'[p] = "look" /\ todo'[p] = todo[p] \ {reclaim[p]}
      /\ \A v \in Mounts[reclaim[p]] : data[p][v] = "whole"
  BY <1>0 DEF Remove, Knows, TypeOK, world
<1>2. StaleNames(p)' = StaleNames(p) \ {reclaim[p]}
  BY <1>0, <1>1, Data DEF StaleNames, Stale, TypeOK
<1>3. \A s \in StaleNames(p)' : holder'[s] = holder[s]
  BY <1>0, <1>1, <1>2 DEF TypeOK, StaleNames
<1>4. Knows(p)'
  BY <1>0, <1>1, <1>2, <1>3 DEF Knows, Remove
<1>5. Salvaged(p)'
  BY <1>0, <1>1, <1>2 DEF Sound, Salvaged
<1>6. Moved(p)'
  BY <1>0, <1>1, <1>2 DEF Sound, Moved
<1>7. \A s \in Services : Runs(p, s)' => Runs(p, s)
  BY <1>0, <1>1, Data DEF Runs, TypeOK
<1>8. Settled(p)' /\ Filled(p)'
  BY <1>0, <1>1, <1>2, <1>7 DEF Sound, Settled, Filled
<1> QED
  BY <1>4, <1>5, <1>6, <1>8 DEF Sound

\* A service is brought up when no stale name is left.
LEMMA UpKeeps ==
  ASSUME Apart, IInv, NEW p \in Live, NEW s \in Services, Up(p, s)
  PROVE  Sound(p)'
<1>0. TypeOK /\ Sound(p) /\ Knows(p)
  BY DEF IInv, Sound
<1>1. /\ StaleNames(p) = {} /\ pc[p] = "look" /\ UNCHANGED <<pc, todo, listed, due, taken>>
      /\ holder' = [holder EXCEPT ![s] = Own(p)]
  BY <1>0 DEF Up, Knows, world
<1>2. StaleNames(p)' = {}
  BY <1>1, Antitone DEF Next, Apply
<1>3. \A v \in Volumes : data'[p][v] = IF v \in Mounts[s] /\ data[p][v] = "absent"
                                       THEN "fresh" ELSE data[p][v]
  BY <1>0, Data DEF Up, TypeOK
<1>4. Settled(p)' /\ Salvaged(p)' /\ Knows(p)'
  BY <1>0, <1>1, <1>2, <1>3 DEF Sound, Settled, Salvaged, Knows
<1>5. Moved(p)'
  BY <1>0, <1>1, <1>2, <1>3, Data DEF Sound, Moved
<1>6. ASSUME NEW x \in Services, Runs(p, x)', NEW v \in Mounts[x] PROVE data'[p][v] # "absent"
  <2>1. v \in Volumes
    BY Data
  <2>2. CASE x = s
    BY <1>3, <2>1, <2>2
  <2>3. CASE x # s
    <3>1. Runs(p, x)
      BY <1>0, <1>1, <1>6, <2>3 DEF Runs, TypeOK
    <3> QED
      BY <1>0, <1>3, <2>1, <3>1 DEF Sound, Filled
  <2> QED
    BY <2>2, <2>3
<1> QED
  BY <1>4, <1>5, <1>6 DEF Sound, Filled

\* A copy that breaks leaves something to start again from, and nothing of the
\* project runs on what it left unless the name was freed under the move.
LEMMA CopyBreaksKeeps ==
  ASSUME IInv, NEW p \in Live, CopyBreaks(p)
  PROVE  Sound(p)'
<1>0. TypeOK /\ Sound(p) /\ Knows(p)
  BY DEF IInv, Sound
<1>1. PICK v \in copies[p] : data' = [data EXCEPT ![p][v] = "partial"]
  BY DEF CopyBreaks
<1>2. reclaim[p] \in StaleNames(p) \cup taken /\ v \in Mounts[reclaim[p]]
  BY <1>0, <1>1 DEF CopyBreaks, Knows
<1>3. StaleNames(p)' = StaleNames(p) /\ UNCHANGED <<holder, due, taken>> /\ pc'[p] = "idle"
  BY <1>0 DEF CopyBreaks, Leaves, StaleNames, TypeOK, world
<1>4. \A x \in Volumes : data'[p][x] = IF x = v THEN "partial" ELSE data[p][x]
  BY <1>0, <1>1, Data DEF TypeOK
<1>5. Salvaged(p)'
  BY <1>0, <1>2, <1>3, <1>4 DEF Sound, Salvaged
<1>6. Settled(p)' /\ Moved(p)' /\ Filled(p)'
  BY <1>0, <1>3, <1>4, Data DEF Sound, Settled, Moved, Filled, Runs
<1> QED
  BY <1>3, <1>5, <1>6 DEF Sound, Knows

\* All steps of a project keep what holds of it.
LEMMA OwnKeep ==
  ASSUME Apart, IInv, NEW p \in Live, Apply(p) \/ CopyBreaks(p) \/ Break(p)
  PROVE  Sound(p)'
<1>1. CASE Applied(p) \/ Conflict(p) \/ Vanished(p) \/ CopyRefused(p) \/ Break(p)
  <2>1. TypeOK /\ Sound(p)
    BY DEF IInv
  <2>2. pc'[p] = "idle" /\ UNCHANGED <<holder, data, due, taken>>
    BY <1>1, <2>1 DEF Applied, Conflict, Vanished, CopyRefused, Break, Leaves, TypeOK, world
  <2>3. StaleNames(p)' = StaleNames(p)
    BY <2>2 DEF StaleNames
  <2> QED
    BY <2>1, <2>2, <2>3 DEF Sound, Settled, Salvaged, Moved, Filled, Knows, Runs
<1> QED
  BY <1>1, LooksKeep, CopyKeeps, RemoveKeeps, UpKeeps, CopyBreaksKeeps DEF Apply

-----------------------------------------------------------------------------
(* The theorems *)

\* What is to be moved stays what it was.
LEMMA OlderKeep ==
  ASSUME Apart, IInv, [Next]_vars
  PROVE  Names' /\ Untouched'
<1>0. TypeOK /\ Names /\ Untouched
  BY DEF IInv
<1>1. ASSUME NEW o \in Others PROVE data'[o] = data[o]
  BY <1>0, OthersData DEF Next
<1>2. CASE \E q \in Live : Apply(q) \/ CopyBreaks(q) \/ Break(q)
  <2>1. UNCHANGED world
    BY <1>2 DEF Apply, BeginApply, List, Leave, Inspect, Copy, Remove, Up, Applied, Conflict,
         Vanished, CopyRefused, CopyBreaks, Break
  <2>2. ASSUME NEW s \in Services
        PROVE  \/ holder'[s] = holder[s] \/ holder'[s] = None
               \/ holder'[s] # None /\ holder'[s].project \in Live /\ holder'[s].project \notin Others
    <3>1. CASE holder'[s] \in {holder[s], None}
      BY <3>1
    <3>2. ASSUME NEW q \in Live, holder'[s] = Own(q)
          PROVE  holder'[s] # None /\ holder'[s].project \in Live /\ holder'[s].project \notin Others
      BY <3>2, Data
    <3> QED
      BY <3>1, <3>2, NamesMove
  <2>3. Names'
    BY <1>0, <2>1, <2>2 DEF Names, world, TypeOK
  <2> QED
    BY <1>0, <1>1, <2>1, <2>3 DEF Untouched, world
<1>3. ASSUME NEW s \in Services, TakeDown(s) PROVE Names' /\ Untouched'
  <2>1. /\ holder' = [holder EXCEPT ![s] = None] /\ due' = [due EXCEPT ![s] = None]
        /\ taken' \subseteq taken \cup {s}
    BY <1>3 DEF TakeDown
  <2>2. Names'
    BY <1>0, <2>1 DEF Names, TypeOK
  <2> QED
    BY <1>0, <1>1, <2>1, <2>2 DEF Untouched, TypeOK
<1>4. CASE UNCHANGED vars
  BY <1>0, <1>4 DEF vars, world, Names, Untouched
<1> QED
  BY <1>2, <1>3, <1>4 DEF Next

LEMMA Initially ==
  ASSUME Init
  PROVE  IInv
<1>1. TypeOK
  <2>1. holder \in [Services -> Container \cup {None}]
    <3>1. [project : Others, managed : BOOLEAN] \subseteq Container
      BY DEF Container, Projects
    <3>2. CASE holder \in [Services -> [project : Others, managed : BOOLEAN] \cup {None}]
      BY <3>1, <3>2
    <3>3. CASE \E p \in Live : holder = [s \in Services |-> Own(p)]
      BY <3>3, Data
    <3> QED
      BY <3>2, <3>3 DEF Init
  <2> QED
    BY <2>1, Data, ReclaimAssumption DEF Init, TypeOK, Contents
<1>2. \A p \in Projects, s \in Services : Runs(p, s) => \A v \in Mounts[s] : data[p][v] = "whole"
  BY Data DEF Init, Runs
<1>3. Names /\ Untouched
  <2>1. due = holder /\ taken = {}
    BY DEF Init
  <2> QED
    BY <1>2, <2>1 DEF Names, Untouched, Runs, Projects
<1>4. \A p \in Projects, v \in Volumes : data[p][v] # "partial"
  BY DEF Init
<1>5. ASSUME NEW p \in Live, NEW s \in Services, Runs(p, s) PROVE StaleNames(p) = {}
  <2>1. \A o \in Others : o # p
    BY Data
  <2>2. ~ holder \in [Services -> [project : Others, managed : BOOLEAN] \cup {None}]
    BY <1>5, <2>1 DEF Runs
  <2>3. PICK q \in Live : holder = [x \in Services |-> Own(q)]
    BY <2>2 DEF Init
  <2>4. q = p
    BY <1>5, <2>3, Data DEF Runs
  <2>5. \A x \in Services : holder[x].project = p
    BY <2>3, <2>4, Data
  <2> QED
    BY <2>5 DEF StaleNames, Stale
<1>6. \A p \in Live : pc[p] = "idle"
  BY Zenon DEF Init
<1>7. ASSUME NEW p \in Live PROVE Sound(p)
  <2>1. due = holder
    BY DEF Init
  <2> QED
    BY <1>2, <1>4, <1>5, <1>6, <2>1, Data
    DEF Sound, Settled, Salvaged, Moved, Filled, Knows, Projects, StaleNames
<1> QED
  BY <1>1, <1>3, <1>7 DEF IInv

LEMMA Invariance ==
  ASSUME Apart
  PROVE  Spec => []IInv
<1>1. IInv /\ [Next]_vars => IInv'
  <2> SUFFICES ASSUME IInv, [Next]_vars PROVE IInv'
    OBVIOUS
  <2>1. TypeOK'
    <3>1. UNCHANGED vars => TypeOK'
      BY DEF vars, applyVars, world, TypeOK, IInv
    <3> QED
      BY <3>1, Typed
  <2>2. ASSUME NEW p \in Live PROVE Sound(p)'
    <3>1. \/ Apply(p) \/ CopyBreaks(p) \/ Break(p)
          \/ \E q \in Live \ {p} : Apply(q) \/ CopyBreaks(q) \/ Break(q)
          \/ \E s \in Services : TakeDown(s)
          \/ UNCHANGED vars
      BY DEF Next
    <3> QED
      BY <3>1, OwnKeep, OthersKeep, TakeDownKeeps
  <2> QED
    BY <2>1, <2>2, OlderKeep DEF IInv
<1> QED
  BY <1>1, Initially, PTL DEF Spec

\* Type correctness, where no two deployed projects share a directory.
THEOREM ReclaimTyping ==
  ASSUME Apart
  PROVE  Spec => []TypeOK
<1>1. IInv => TypeOK
  BY DEF IInv
<1> QED
  BY <1>1, Invariance, PTL

\* migrateVolumes, reclaimOne: whatever broke and however often Apply was
\* entered, a service runs on the data of the container it took over, unless an
\* operator took that down in the middle of the move.
THEOREM ReclaimKeepsVolumes ==
  ASSUME Apart
  PROVE  Spec => []WholeVolumes
<1>1. IInv => WholeVolumes
  <2> SUFFICES ASSUME IInv, NEW p \in Live, NEW s \in Services, Runs(p, s), NEW v \in Mounts[s],
                      data[p][v] # "whole", \A x \in taken : v \notin Mounts[x]
               PROVE  /\ data[p][v] = "fresh"
                      /\ \A x \in Services : v \in Mounts[x] => ~Stale(p, due[x])
    BY DEF WholeVolumes
  <2>1. TypeOK /\ Sound(p) /\ v \in Volumes /\ p \in Projects
    BY Data DEF IInv
  <2>2. StaleNames(p) = {}
    BY <2>1 DEF Sound, Settled
  <2>3. data[p][v] # "partial" /\ data[p][v] # "absent"
    BY <2>1, <2>2 DEF Sound, Salvaged, Filled
  <2>4. data[p][v] = "fresh"
    BY <2>1, <2>3 DEF TypeOK, Contents
  <2> QED
    BY <2>1, <2>2, <2>4 DEF Sound, Moved
<1> QED
  BY <1>1, Invariance, PTL

\* A container leaves the daemon by the reclaiming of its name, or by hand.
LEMMA Removals ==
  ASSUME Apart, IInv, Next, NEW s \in Services \ taken, holder[s] # None, holder'[s] = None
  PROVE  holder[s].managed /\ holder[s].project \notin Live
<1>0. TypeOK
  BY DEF IInv
<1>1. ASSUME NEW p \in Live, Remove(p) PROVE holder[s].managed /\ holder[s].project \notin Live
  <2>1. s = reclaim[p]
    BY <1>0, <1>1 DEF Remove, TypeOK
  <2>2. Stale(p, holder[s])
    BY <1>1, <2>1 DEF Remove, IInv, Sound, Knows, StaleNames
  <2> QED
    BY <2>2 DEF Stale, Apart
<1>2. ASSUME NEW x \in Services, TakeDown(x) PROVE holder[s].managed /\ holder[s].project \notin Live
  <2>1. s = x
    BY <1>0, <1>2 DEF TakeDown, TypeOK
  <2> QED
    BY <1>2, <2>1, Data DEF TakeDown
<1>3. ASSUME NEW p \in Live, NEW x \in Services, Up(p, x) PROVE FALSE
  BY <1>0, <1>3, Data DEF Up, TypeOK
<1>4. ASSUME NEW p \in Live, Apply(p) \/ CopyBreaks(p) \/ Break(p), ~Remove(p) PROVE FALSE
  BY <1>3, <1>4 DEF Apply, BeginApply, List, Leave, Inspect, Copy, Applied, Conflict, Vanished,
       CopyRefused, CopyBreaks, Break
<1> QED
  BY <1>1, <1>2, <1>4 DEF Next

\* reclaimStaleContainers: no project that is deployed loses a container to the
\* reclaiming of another, however their Applies interleave, except under a name
\* that an operator freed between the inspection and the removal by name.
THEOREM ReclaimSpares ==
  ASSUME Apart
  PROVE  Spec => OnlyStaleIsRemoved
<1>1. IInv /\ [Next]_vars =>
        [\A s \in Services \ taken : holder[s] # None /\ holder'[s] = None =>
           holder[s].managed /\ holder[s].project \notin Live]_vars
  BY Removals
<1> QED
  BY <1>1, Invariance, PTL DEF Spec, OnlyStaleIsRemoved

-----------------------------------------------------------------------------
(****************************************************************************)
(* The safety half of CollisionsHeal, up to the names an operator freed     *)
(* under a move (taken): what a project runs it keeps, an                   *)
(* Apply under way runs out of steps, none ends for a name that could be    *)
(* had, and one that ends well has brought everything up.                   *)
(****************************************************************************)

\* What a project runs goes on running.
LEMMA RunningStays ==
  ASSUME Apart, IInv, [Next]_vars, NEW p \in Live, NEW s \in Services \ taken, Runs(p, s)
  PROVE  Runs(p, s)'
<1>1. holder[s] # None /\ holder[s].project = p
  BY DEF Runs
<1>2. CASE holder'[s] = holder[s]
  BY <1>1, <1>2 DEF Runs
<1>3. CASE holder'[s] = None
  <2>1. Next
    BY <1>1, <1>3 DEF vars
  <2> QED
    BY <1>1, <1>3, <2>1, Removals
<1>4. ASSUME NEW q \in Live, holder'[s] = Own(q), holder[s] = None \/ Runs(q, s)
      PROVE  Runs(p, s)'
  BY <1>1, <1>4, Data DEF Runs
<1> QED
  BY <1>2, <1>3, <1>4, NamesMove

\* The rest of a plan covers what its project does not run.
Covers(p) == pc[p] # "idle" => Missing(p) \ taken \subseteq ups[p]

CInv == IInv /\ \A p \in Live : Covers(p)

LEMMA CoversKept ==
  ASSUME Apart, CInv, [Next]_vars, NEW p \in Live
  PROVE  Covers(p)'
<1>0. TypeOK /\ IInv /\ Covers(p)
  BY DEF CInv, IInv
<1>1. Missing(p)' \ taken \subseteq Missing(p) /\ taken \subseteq taken'
  <2>1. ASSUME NEW q \in Live, Apply(q) \/ CopyBreaks(q) \/ Break(q) PROVE UNCHANGED world
    BY <2>1 DEF Apply, BeginApply, List, Leave, Inspect, Copy, Remove, Up, Applied, Conflict,
         Vanished, CopyRefused, CopyBreaks, Break
  <2>2. taken \subseteq taken'
    BY <2>1 DEF Next, TakeDown, world, vars
  <2> QED
    BY <1>0, <2>2, RunningStays DEF Missing
<1>2. CASE BeginApply(p)
  BY <1>0, <1>1, <1>2 DEF BeginApply, Covers, TypeOK
<1>3. CASE List(p) \/ Leave(p) \/ Inspect(p) \/ Copy(p) \/ Remove(p)
  BY <1>0, <1>1, <1>3 DEF List, Leave, Inspect, Copy, Remove, Covers
<1>4. CASE Applied(p) \/ Conflict(p) \/ Vanished(p) \/ CopyRefused(p) \/ CopyBreaks(p) \/ Break(p)
  BY <1>0, <1>4 DEF Applied, Conflict, Vanished, CopyRefused, CopyBreaks, Break, Leaves, Covers, TypeOK
<1>5. ASSUME NEW s \in Services, Up(p, s) PROVE Covers(p)'
  <2>1. s \notin Missing(p)'
    BY <1>0, <1>5, Data DEF Up, Missing, Runs, TypeOK
  <2>2. ups'[p] = ups[p] \ {s} /\ pc' = pc
    BY <1>0, <1>5 DEF Up, TypeOK
  <2> QED
    BY <1>0, <1>1, <2>1, <2>2 DEF Covers
<1>6. ASSUME NEW q \in Live \ {p}, Apply(q) \/ CopyBreaks(q) \/ Break(q)
      PROVE  pc'[p] = pc[p] /\ ups'[p] = ups[p]
  BY <1>0, <1>6 DEF Apply, BeginApply, List, Leave, Inspect, Copy, Remove, Up, Applied, Conflict,
       Vanished, CopyRefused, CopyBreaks, Break, Leaves, TypeOK
<1>7. CASE \/ \E q \in Live \ {p} : Apply(q) \/ CopyBreaks(q) \/ Break(q)
           \/ \E s \in Services : TakeDown(s)
           \/ UNCHANGED vars
  BY <1>0, <1>1, <1>6, <1>7 DEF TakeDown, applyVars, vars, Covers
<1> QED
  BY <1>2, <1>3, <1>4, <1>5, <1>7 DEF Next, Apply

LEMMA CoversAlways ==
  ASSUME Apart
  PROVE  Spec => []CInv
<1>1. Init => \A p \in Live : Covers(p)
  BY DEF Init, Covers
<1>2. CInv /\ [Next]_vars /\ IInv' => CInv'
  BY CoversKept DEF CInv
<1>3. IInv /\ (\A p \in Live : Covers(p)) => CInv
  BY DEF CInv
<1>4. CInv => IInv
  BY DEF CInv
<1> QED
  BY <1>1, <1>2, <1>3, <1>4, Invariance, PTL DEF Spec

\* The Apply of a project ends or is further than before: less of its plan is
\* to be brought up, or fewer names to be looked at, or it goes on with the name
\* it is at and has fewer of its volumes to copy.
Further(p) ==
  \/ pc'[p] = "idle"
  \/ pc[p] = "list" /\ pc'[p] = "look"
  \/ ups'[p] \subseteq ups[p] /\ ups'[p] # ups[p]
  \/ /\ ups'[p] = ups[p]
     /\ \/ todo'[p] \subseteq todo[p] /\ todo'[p] # todo[p]
        \/ /\ todo'[p] = todo[p]
           /\ \/ pc[p] = "look" /\ pc'[p] = "copy"
              \/ /\ pc[p] = "copy" /\ pc'[p] = "copy"
                 /\ copies'[p] \subseteq copies[p] /\ copies'[p] # copies[p]

\* Apply, reclaimOne: an Apply goes forward with every step of it, whatever the
\* other projects do to the names meanwhile.
THEOREM ReclaimRunsOut ==
  ASSUME Apart
  PROVE  Spec => [][\A p \in Live :
                      pc[p] # "idle" /\ (Apply(p) \/ CopyBreaks(p) \/ Break(p)) => Further(p)]_vars
<1>1. ASSUME IInv, NEW p \in Live, pc[p] # "idle", Apply(p) \/ CopyBreaks(p) \/ Break(p)
      PROVE  Further(p)
  <2>0. TypeOK /\ Knows(p)
    BY <1>1 DEF IInv, Sound
  <2>1. CASE List(p) \/ Leave(p) \/ Inspect(p)
    BY <2>0, <2>1 DEF List, Leave, Inspect, Further, TypeOK
  <2>2. CASE Copy(p)
    BY <2>0, <2>2 DEF Copy, Further, TypeOK
  <2>3. CASE Remove(p)
    <3>1. reclaim[p] \in todo[p]
      BY <2>0, <2>3 DEF Remove, Knows
    <3> QED
      BY <2>0, <2>3, <3>1 DEF Remove, Further, TypeOK
  <2>4. ASSUME NEW s \in Services, Up(p, s) PROVE Further(p)
    BY <2>0, <2>4 DEF Up, Further, TypeOK
  <2>5. CASE Applied(p) \/ Conflict(p) \/ Vanished(p) \/ CopyRefused(p) \/ CopyBreaks(p) \/ Break(p)
    BY <2>0, <2>5 DEF Applied, Conflict, Vanished, CopyRefused, CopyBreaks, Break, Leaves, Further, TypeOK
  <2>6. ~BeginApply(p)
    BY <1>1 DEF BeginApply
  <2> QED
    BY <1>1, <2>1, <2>2, <2>3, <2>4, <2>5, <2>6 DEF Apply
<1>2. IInv /\ [Next]_vars =>
        [\A p \in Live : pc[p] # "idle" /\ (Apply(p) \/ CopyBreaks(p) \/ Break(p)) => Further(p)]_vars
  BY <1>1
<1> QED
  BY <1>2, Invariance, PTL DEF Spec

\* What a project runs no other project, no reclaiming and no failure takes from
\* it: an Apply that broke off loses nothing it had brought up.  Only under a name
\* that an operator freed in the middle of a move can it be another's to remove.
THEOREM ReclaimKeepsRunning ==
  ASSUME Apart
  PROVE  Spec => [][\A p \in Live, s \in Services \ taken : Runs(p, s) => Runs(p, s)']_vars
<1>1. IInv /\ [Next]_vars => [\A p \in Live, s \in Services \ taken : Runs(p, s) => Runs(p, s)']_vars
  BY RunningStays
<1> QED
  BY <1>1, Invariance, PTL DEF Spec

\* reclaimStaleContainers: when all names were looked at, whatever is left to
\* bring up can be, unless a name is held by a container that is none of
\* Accorda's stale ones.  No stale name is overlooked.
THEOREM ReclaimUnblocks ==
  ASSUME Apart
  PROVE  Spec => [](\A p \in Live :
                      pc[p] = "look" /\ todo[p] = {} /\ Unobstructed(p) =>
                        \A s \in ups[p] : holder[s] = None \/ Runs(p, s))
<1>1. IInv => \A p \in Live :
                pc[p] = "look" /\ todo[p] = {} /\ Unobstructed(p) =>
                  \A s \in ups[p] : holder[s] = None \/ Runs(p, s)
  <2> SUFFICES ASSUME IInv, NEW p \in Live, pc[p] = "look", todo[p] = {}, Unobstructed(p),
                      NEW s \in ups[p]
               PROVE  holder[s] = None \/ Runs(p, s)
    OBVIOUS
  <2>1. s \in Services /\ s \notin StaleNames(p)
    BY DEF IInv, Sound, Knows, TypeOK
  <2> QED
    BY <2>1 DEF Unobstructed, StaleNames
<1> QED
  BY <1>1, Invariance, PTL

\* Apply: one that returns without an error leaves every service running, those
\* included that an Apply of the project had brought up before it, under every
\* name that was not freed in the middle of a move.
THEOREM ReclaimFinishes ==
  ASSUME Apart
  PROVE  Spec => [][\A p \in Live : Applied(p) => \A s \in Services \ taken : Runs(p, s)']_vars
<1>1. ASSUME CInv, NEW p \in Live, Applied(p), NEW s \in Services \ taken PROVE Runs(p, s)'
  <2>1. s \notin Missing(p) /\ holder' = holder
    BY <1>1 DEF Applied, CInv, Covers
  <2> QED
    BY <2>1 DEF Missing, Runs
<1>2. CInv /\ [Next]_vars => [\A p \in Live : Applied(p) => \A s \in Services \ taken : Runs(p, s)']_vars
  BY <1>1
<1> QED
  BY <1>2, CoversAlways, PTL DEF Spec
===============================================================================
