-------------------------------- MODULE Vfs ---------------------------------
(***************************************************************************)
(* The file descriptors of mcush_vfs.c over one mounted driver, used by    *)
(* tasks that run at the same time.  mcush_open reserves a slot of         *)
(* vfs_fd_tab in a critical section and asks the driver outside of it;     *)
(* mcush_close asks the driver and then gives the slot back.  The driver   *)
(* (mcush_vfs_spiffs.c, libspiffs) has handles of its own; the command     *)
(* spiffs -c remount takes them all back without the table knowing.        *)
(*                                                                         *)
(* A user is a task with one file: at most one call of it is under way.    *)
(***************************************************************************)
EXTENDS Naturals, FiniteSets

CONSTANTS
  Users,
  NumSlots,     (* MCUSH_VFS_FILE_DESCRIPTOR_NUM                           *)
  Handles,      (* handles of the driver, SPIFFS_FD_NUM                    *)
  Files,
  None

ASSUME VfsAssumption ==
  /\ NumSlots \in Nat \ {0}
  /\ None \notin Handles \union Files \union Nat

Slots == 0 .. NumSlots - 1

VARIABLES
  driver,       (* slots whose driver pointer is set                       *)
  handle,       (* vfs_fd_tab[..].handle, None for 0                       *)
  unget,        (* vfs_fd_tab[..].unget_char: the file it was read from    *)
  dfile,        (* the driver: the file open under each handle             *)
  pc, fd,       (* per user: where it is in its calls, the slot it holds   *)
  file,         (* per user: the file it asked for                         *)
  got,          (* per user: the file its last read came from              *)
  remounted     (* history: the driver was remounted                       *)

slotVars == <<driver, handle, unget>>
vars == <<driver, handle, unget, dfile, pc, fd, file, got, remounted>>

Init ==
  /\ driver = {}
  /\ handle = [s \in Slots |-> None]
  /\ unget = [s \in Slots |-> None]
  /\ dfile = [h \in Handles |-> None]
  /\ pc = [u \in Users |-> "closed"]
  /\ fd = [u \in Users |-> None]
  /\ file = [u \in Users |-> None]
  /\ got = [u \in Users |-> None]
  /\ remounted = FALSE

FirstFree_Bug(s) == s = Cardinality(driver) + 1

FirstFree(s) == s \in Slots \ driver /\ \A r \in Slots \ driver : s <= r

\* mcush_open, the critical section.
Reserve_Bug(u) ==
  /\ pc[u] = "closed"
  /\ \E s \in 0 .. NumSlots :
       /\ FirstFree(s)                            \* found, but taken later
       /\ fd' = [fd EXCEPT ![u] = s]
  /\ \E f \in Files : file' = [file EXCEPT ![u] = f]
  /\ pc' = [pc EXCEPT ![u] = "opening"]
  /\ UNCHANGED <<slotVars, dfile, got, remounted>>

Reserve(u) ==
  /\ pc[u] = "closed"
  /\ \E s \in 0 .. NumSlots :              \* none: MCUSH_VFS_RESOURCE_LIMIT
       /\ FirstFree(s)
       /\ driver' = driver \union {s}
       /\ fd' = [fd EXCEPT ![u] = s]
  /\ \E f \in Files : file' = [file EXCEPT ![u] = f]
  /\ pc' = [pc EXCEPT ![u] = "opening"]
  /\ UNCHANGED <<handle, unget, dfile, got, remounted>>

\* The driver opens the file, under a handle that it has free.
Opened(u) ==
  /\ pc[u] = "opening"
  /\ \E h \in Handles :
       /\ dfile[h] = None
       /\ dfile' = [dfile EXCEPT ![h] = file[u]]
       /\ handle' = [handle EXCEPT ![fd[u]] = h]
  /\ pc' = [pc EXCEPT ![u] = "open"]
  /\ UNCHANGED <<driver, unget, fd, file, got, remounted>>

\* It does not: no such file, no handle.  The slot is given back.
OpenFails(u) ==
  /\ pc[u] = "opening"
  /\ driver' = driver \ {fd[u]}
  /\ pc' = [pc EXCEPT ![u] = "closed"]
  /\ fd' = [fd EXCEPT ![u] = None]
  /\ UNCHANGED <<handle, unget, dfile, file, got, remounted>>

\* mcush_read of one character: one that was pushed back comes first.
Read(u) ==
  /\ pc[u] = "open"
  /\ LET s == fd[u] IN
       IF unget[s] # None
         THEN /\ got' = [got EXCEPT ![u] = unget[s]]
              /\ unget' = [unget EXCEPT ![s] = None]
         ELSE /\ handle[s] # None
              /\ got' = [got EXCEPT ![u] = dfile[handle[s]]]
              /\ UNCHANGED unget
  /\ UNCHANGED <<driver, handle, dfile, pc, fd, file, remounted>>

\* mcush_ungetc, one character at most.
Unget(u) ==
  /\ pc[u] = "open"
  /\ got[u] # None
  /\ unget[fd[u]] = None
  /\ unget' = [unget EXCEPT ![fd[u]] = got[u]]
  /\ UNCHANGED <<driver, handle, dfile, pc, fd, file, got, remounted>>

DriverCloses_Bug(u) ==
  /\ pc[u] = "open"
  /\ pc' = [pc EXCEPT ![u] = "closing"]
  /\ UNCHANGED <<slotVars, dfile, fd, file, got, remounted>>   \* only the slot

\* mcush_close: the driver first, without the critical section.
DriverCloses(u) ==
  /\ pc[u] = "open"
  /\ dfile' = [h \in Handles |-> IF h = handle[fd[u]] THEN None ELSE dfile[h]]
  /\ pc' = [pc EXCEPT ![u] = "closing"]
  /\ UNCHANGED <<slotVars, fd, file, got, remounted>>

Release(u) ==
  /\ pc[u] = "closing"
  /\ driver' = driver \ {fd[u]}
  /\ handle' = [handle EXCEPT ![fd[u]] = None]
  /\ pc' = [pc EXCEPT ![u] = "closed"]
  /\ fd' = [fd EXCEPT ![u] = None]
  /\ UNCHANGED <<unget, dfile, file, got, remounted>>

\* cmd_spiffs, remount: the driver forgets what was open.
Remount ==
  /\ dfile' = [h \in Handles |-> None]
  /\ remounted' = TRUE
  /\ UNCHANGED <<slotVars, pc, fd, file, got>>

Next ==
  \/ \E u \in Users : \/ Reserve(u) \/ Opened(u) \/ OpenFails(u) \/ Read(u)
                      \/ Unget(u) \/ DriverCloses(u) \/ Release(u)
  \/ Remount

Spec == Init /\ [][Next]_vars

-----------------------------------------------------------------------------
TypeOK ==
  /\ driver \subseteq Slots
  /\ handle \in [Slots -> Handles \union {None}]
  /\ unget \in [Slots -> Files \union {None}]
  /\ dfile \in [Handles -> Files \union {None}]
  /\ pc \in [Users -> {"closed", "opening", "open", "closing"}]
  /\ fd \in [Users -> Slots \union {None}]
  /\ file \in [Users -> Files \union {None}]
  /\ got \in [Users -> Files \union {None}]
  /\ remounted \in BOOLEAN

\* Every reserved slot has one user and every user a slot of its own, however
\* the calls of the tasks interleave: none is given twice, and none is lost
\* when an open fails halfway (mcush_vfs.c:190-218, 359-363).
SlotsOwned ==
  /\ driver = {fd[u] : u \in {u \in Users : pc[u] # "closed"}}
  /\ \A u, v \in Users : u # v /\ fd[u] # None => fd[u] # fd[v]

\* As long as the driver is not remounted, each descriptor leads to the file
\* its user opened, by a handle no other open descriptor has, and the driver
\* keeps no file open that no descriptor leads to - although a handle that is
\* closed is given out again before its slot is cleared (mcush_vfs.c:359-363).
HandlesOwned ==
  ~ remounted =>
    /\ \A u \in Users : pc[u] = "open" =>
         /\ handle[fd[u]] # None
         /\ dfile[handle[fd[u]]] = file[u]
         /\ file[u] # None
    /\ \A u, v \in Users : u # v /\ pc[u] = "open" /\ pc[v] = "open" =>
         handle[fd[u]] # handle[fd[v]]
    /\ \A h \in Handles : dfile[h] # None =>
         \E u \in Users : pc[u] = "open" /\ handle[fd[u]] = h
=============================================================================
