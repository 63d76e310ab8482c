----------------------------- MODULE Vfs_proofs -----------------------------
(***************************************************************************)
(* Proofs about Vfs, for every number of users, slots and handles.         *)
(***************************************************************************)
EXTENDS Vfs, TLAPS

USE VfsAssumption

\* Users that hold a slot.
Holding(u) == pc[u] # "closed"

SlotsInv ==
  /\ \A u \in Users : Holding(u) <=> fd[u] # None
  /\ \A u \in Users : Holding(u) => fd[u] \in driver
  /\ \A s \in driver : \E u \in Users : Holding(u) /\ fd[u] = s
  /\ \A u, v \in Users : u # v /\ fd[u] # None => fd[u] # fd[v]

HandlesInv ==
  /\ \A u \in Users : Holding(u) => file[u] \in Files
  /\ HandlesOwned

IInv == TypeOK /\ SlotsInv /\ HandlesInv

LEMMA InitIInv == Init => IInv
BY DEF Init, IInv, TypeOK, SlotsInv, HandlesInv, HandlesOwned, Holding

\* One step per call of a user, for any user w.
LEMMA UserIInv ==
  ASSUME IInv, NEW w \in Users,
         \/ Reserve(w) \/ Opened(w) \/ OpenFails(w) \/ Read(w)
         \/ Unget(w) \/ DriverCloses(w) \/ Release(w)
  PROVE  IInv'
<1>0. TypeOK /\ SlotsInv /\ HandlesInv
  BY DEF IInv
<1>1. CASE Reserve(w)
  <2>1. PICK s \in Slots \ driver, f \in Files :
          /\ driver' = driver \union {s}
          /\ fd' = [fd EXCEPT ![w] = s]
          /\ file' = [file EXCEPT ![w] = f]
    BY <1>1 DEF Reserve, FirstFree
  <2>2. /\ pc[w] = "closed" /\ fd[w] = None
        /\ pc' = [pc EXCEPT ![w] = "opening"]
        /\ UNCHANGED <<handle, unget, dfile, got, remounted>>
    BY <1>0, <1>1 DEF Reserve, SlotsInv, Holding
  <2>3. TypeOK'
    BY <1>0, <2>1, <2>2 DEF TypeOK
  <2>4. SlotsInv'
    BY <1>0, <2>1, <2>2 DEF TypeOK, SlotsInv, Holding, Slots
  <2>5. HandlesInv'
    BY <1>0, <2>1, <2>2 DEF TypeOK, SlotsInv, HandlesInv, HandlesOwned, Holding
  <2>. QED  BY <2>3, <2>4, <2>5 DEF IInv
<1>2. CASE Opened(w)
  <2>1. PICK h \in Handles :
          /\ dfile[h] = None
          /\ dfile' = [dfile EXCEPT ![h] = file[w]]
          /\ handle' = [handle EXCEPT ![fd[w]] = h]
    BY <1>2 DEF Opened
  <2>2. /\ pc[w] = "opening" /\ fd[w] \in Slots /\ file[w] \in Files
        /\ pc' = [pc EXCEPT ![w] = "open"]
        /\ UNCHANGED <<driver, unget, fd, file, got, remounted>>
    BY <1>0, <1>2 DEF Opened, TypeOK, SlotsInv, HandlesInv, Holding
  <2>3. TypeOK'
    BY <1>0, <2>1, <2>2 DEF TypeOK
  <2>4. SlotsInv'
    BY <1>0, <2>1, <2>2 DEF TypeOK, SlotsInv, Holding
  <2>5. ASSUME ~ remounted, NEW u \in Users, pc[u] = "open"
        PROVE  u # w /\ handle'[fd[u]] = handle[fd[u]] /\ handle[fd[u]] # h
    <3>1. u # w /\ fd[u] # fd[w] /\ fd[u] \in Slots
      BY <1>0, <2>2, <2>5 DEF TypeOK, SlotsInv, Holding
    <3>2. dfile[handle[fd[u]]] # None
      BY <1>0, <2>5 DEF HandlesInv, HandlesOwned, Holding
    <3>. QED  BY <1>0, <2>1, <3>1, <3>2 DEF TypeOK
  <2>6. handle'[fd[w]] = h /\ dfile'[h] = file[w] /\ h # None /\ file[w] # None
    BY <1>0, <2>1, <2>2 DEF TypeOK
  <2>7. \A u \in Users : pc'[u] = "open" <=> u = w \/ pc[u] = "open"
    BY <1>0, <2>2 DEF TypeOK
  <2>8. HandlesOwned'
    <3>. SUFFICES ASSUME ~ remounted PROVE HandlesOwned'
      BY <2>2 DEF HandlesOwned
    <3>1. \A u \in Users : pc'[u] = "open" =>
            handle'[fd'[u]] # None /\ dfile'[handle'[fd'[u]]] = file'[u] /\ file'[u] # None
      BY <1>0, <2>1, <2>2, <2>5, <2>6, <2>7 DEF TypeOK, HandlesInv, HandlesOwned
    <3>2. \A u, v \in Users : u # v /\ pc'[u] = "open" /\ pc'[v] = "open" =>
            handle'[fd'[u]] # handle'[fd'[v]]
      BY <1>0, <2>2, <2>5, <2>6, <2>7 DEF HandlesInv, HandlesOwned
    <3>3. \A g \in Handles : dfile'[g] # None =>
            \E u \in Users : pc'[u] = "open" /\ handle'[fd'[u]] = g
      BY <1>0, <2>1, <2>2, <2>5, <2>6, <2>7 DEF TypeOK, HandlesInv, HandlesOwned
    <3>. QED  BY <3>1, <3>2, <3>3 DEF HandlesOwned
  <2>9. HandlesInv'
    BY <1>0, <2>2, <2>7, <2>8 DEF HandlesInv, Holding, TypeOK
  <2>. QED  BY <2>3, <2>4, <2>9 DEF IInv
<1>3. CASE OpenFails(w)
  <2>1. /\ pc[w] = "opening" /\ fd[w] \in Slots
        /\ driver' = driver \ {fd[w]}
        /\ pc' = [pc EXCEPT ![w] = "closed"]
        /\ fd' = [fd EXCEPT ![w] = None]
        /\ UNCHANGED <<handle, unget, dfile, file, got, remounted>>
    BY <1>0, <1>3 DEF OpenFails, TypeOK, SlotsInv, Holding
  <2>2. TypeOK'
    BY <1>0, <2>1 DEF TypeOK
  <2>3. SlotsInv'
    BY <1>0, <2>1 DEF TypeOK, SlotsInv, Holding
  <2>4. HandlesInv'
    BY <1>0, <2>1 DEF TypeOK, HandlesInv, HandlesOwned, Holding
  <2>. QED  BY <2>2, <2>3, <2>4 DEF IInv
<1>4. CASE Read(w) \/ Unget(w)
  <2>1. UNCHANGED <<driver, handle, dfile, pc, fd, file, remounted>>
    BY <1>4 DEF Read, Unget
  <2>2. fd[w] \in Slots
    BY <1>0, <1>4 DEF Read, Unget, TypeOK, SlotsInv, Holding
  <2>3. TypeOK'
    BY <1>0, <1>4, <2>2 DEF Read, Unget, TypeOK
  <2>4. SlotsInv' /\ HandlesInv'
    BY <1>0, <2>1 DEF SlotsInv, HandlesInv, HandlesOwned, Holding
  <2>. QED  BY <2>3, <2>4 DEF IInv
<1>5. CASE DriverCloses(w)
  <2>1. /\ pc[w] = "open"
        /\ dfile' = [h \in Handles |-> IF h = handle[fd[w]] THEN None ELSE dfile[h]]
        /\ pc' = [pc EXCEPT ![w] = "closing"]
        /\ UNCHANGED <<driver, handle, unget, fd, file, got, remounted>>
    BY <1>5 DEF DriverCloses, slotVars
  <2>2. TypeOK'
    BY <1>0, <2>1 DEF TypeOK
  <2>3. SlotsInv'
    BY <1>0, <2>1 DEF TypeOK, SlotsInv, Holding
  <2>4. \A u \in Users : pc'[u] = "open" <=> u # w /\ pc[u] = "open"
    BY <1>0, <2>1 DEF TypeOK
  <2>5. HandlesOwned'
    <3>. SUFFICES ASSUME ~ remounted PROVE HandlesOwned'
      BY <2>1 DEF HandlesOwned
    <3>1. ASSUME NEW u \in Users, pc'[u] = "open"
          PROVE  handle[fd[u]] # None /\ dfile'[handle[fd[u]]] = file[u] /\ file[u] # None
      <4>1. /\ u # w /\ pc[u] = "open" /\ handle[fd[u]] # handle[fd[w]]
            /\ handle[fd[u]] # None /\ dfile[handle[fd[u]]] = file[u] /\ file[u] # None
        BY <1>0, <2>1, <2>4, <3>1 DEF HandlesInv, HandlesOwned
      <4>2. handle[fd[u]] \in Handles
        BY <1>0, <4>1 DEF TypeOK, SlotsInv, Holding
      <4>. QED  BY <2>1, <4>1, <4>2
    <3>2. \A u, v \in Users : u # v /\ pc'[u] = "open" /\ pc'[v] = "open" =>
            handle[fd[u]] # handle[fd[v]]
      BY <1>0, <2>4 DEF HandlesInv, HandlesOwned
    <3>3. ASSUME NEW h \in Handles, dfile'[h] # None
          PROVE  \E u \in Users : pc'[u] = "open" /\ handle[fd[u]] = h
      <4>1. h # handle[fd[w]] /\ dfile[h] # None
        BY <2>1, <3>3
      <4>. QED  BY <1>0, <2>4, <4>1 DEF HandlesInv, HandlesOwned
    <3>. QED  BY <2>1, <3>1, <3>2, <3>3 DEF HandlesOwned
  <2>6. HandlesInv'
    BY <1>0, <2>1, <2>5 DEF TypeOK, HandlesInv, Holding
  <2>. QED  BY <2>2, <2>3, <2>6 DEF IInv
<1>6. CASE Release(w)
  <2>1. /\ pc[w] = "closing" /\ fd[w] \in Slots
        /\ driver' = driver \ {fd[w]}
        /\ handle' = [handle EXCEPT ![fd[w]] = None]
        /\ pc' = [pc EXCEPT ![w] = "closed"]
        /\ fd' = [fd EXCEPT ![w] = None]
        /\ UNCHANGED <<unget, dfile, file, got, remounted>>
    BY <1>0, <1>6 DEF Release, TypeOK, SlotsInv, Holding
  <2>2. TypeOK'
    BY <1>0, <2>1 DEF TypeOK
  <2>3. SlotsInv'
    BY <1>0, <2>1 DEF TypeOK, SlotsInv, Holding
  <2>4. ASSUME NEW u \in Users, pc[u] = "open"
        PROVE  u # w /\ fd'[u] = fd[u] /\ handle'[fd[u]] = handle[fd[u]]
    BY <1>0, <2>1, <2>4 DEF TypeOK, SlotsInv, Holding
  <2>5. \A u \in Users : pc'[u] = "open" <=> pc[u] = "open"
    BY <1>0, <2>1 DEF TypeOK
  <2>6. HandlesInv'
    BY <1>0, <2>1, <2>4, <2>5 DEF TypeOK, HandlesInv, HandlesOwned, Holding
  <2>. QED  BY <2>2, <2>3, <2>6 DEF IInv
<1>. QED  BY <1>1, <1>2, <1>3, <1>4, <1>5, <1>6

LEMMA NextIInv == IInv /\ [Next]_vars => IInv'
<1>. SUFFICES ASSUME IInv, [Next]_vars PROVE IInv'
  OBVIOUS
<1>1. CASE Remount
  BY <1>1 DEF Remount, slotVars, IInv, TypeOK, SlotsInv, HandlesInv, HandlesOwned, Holding
<1>2. CASE UNCHANGED vars
  BY <1>2 DEF vars, IInv, TypeOK, SlotsInv, HandlesInv, HandlesOwned, Holding
<1>. QED  BY <1>1, <1>2, UserIInv DEF Next

LEMMA Invariance == Spec => []IInv
BY InitIInv, NextIInv, PTL DEF Spec

\* The types of the table, the driver and the users, for any number of each.
THEOREM TypeCorrect == Spec => []TypeOK
<1>1. IInv => TypeOK
  BY DEF IInv
<1>. QED  BY <1>1, Invariance, PTL

\* No slot is shared and none is lost, for any number of tasks and slots.
THEOREM SlotsAlwaysOwned == Spec => []SlotsOwned
<1>1. IInv => SlotsOwned
  BY DEF IInv, SlotsInv, SlotsOwned, Holding
<1>. QED  BY <1>1, Invariance, PTL

\* A descriptor leads to the file that was opened under it as long as the
\* driver is not remounted below it.
THEOREM HandlesAlwaysOwned == Spec => []HandlesOwned
<1>1. IInv => HandlesOwned
  BY DEF IInv, HandlesInv
<1>. QED  BY <1>1, Invariance, PTL
=============================================================================
