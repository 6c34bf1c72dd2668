--------------------------- MODULE RootVnodeProofs ---------------------------
(* Theorems about RootVnode, for every set of callers and number of vnodes   *)
(* and whether or not an attach may fail.                                    *)
EXTENDS RootVnode, TLAPS

InAttach(t) == pc[t] \in {"create", "open", "attach"}
Alive(k)    == vnode[k] \in {"live", "reclaim"}

-----------------------------------------------------------------------------
\* The strengthening, in named parts

\* attach_root is a lock: one caller is inside the attach, and only while it
\* is set.
AttachInv == \A t \in Threads : InAttach(t) =>
    attach_root /\ \A s \in Threads : InAttach(s) => s = t

\* rootvp is clear during an attach, and otherwise names a vnode that has not
\* been reclaimed.
RootInv == /\ attach_root => rootvp = NoVid
           /\ rootvp # NoVid => Alive(rootvp)

\* The vnode that is alive is the one rootvp names or the one being attached;
\* a caller about to create one, whose vp is NULL, finds none.
AliveInv == \A k \in Vids : Alive(k) =>
    /\ ~attach_root => rootvp = k
    /\ \A t \in Threads : InAttach(t) => vp[t] = k

\* What a caller knows of its vp.  A vnode may be reclaimed, but not replaced,
\* under a caller that has left the mutex for vnode_getwithvid.
HolderInv(t) ==
    /\ pc[t] \in {"open", "attach", "got"} => vnode[vp[t]] = "live"
    /\ pc[t] = "get" => /\ vnode[vp[t]] # "none"
                        /\ Alive(vp[t]) => rootvp = vp[t]
    /\ pc[t] = "got" => vp[t] = rootvp
HoldersInv == \A t \in Threads : HolderInv(t)

\* wait_root is set exactly while somebody sleeps.
SleepInv == /\ SleepersAwaited
            /\ wait_root => \E t \in Threads : At(t, "asleep")

\* The unmount begins when no caller is inside.
MountInv == /\ mount # "mounted" => \A t \in Threads : At(t, "out")
            /\ mount = "unmounted" => \A k \in Vids : ~Alive(k)

Protocol == /\ OneRoot /\ AttachInv /\ RootInv /\ AliveInv
            /\ HoldersInv /\ SleepInv /\ MountInv
IInv == TypeOK /\ Protocol

LEMMA VidFacts == Vids \subseteq Nat /\ NoVid \notin Vids
BY MaxVidAssumption DEF Vids, NoVid

LEMMA InitType == Init => TypeOK
BY VidFacts DEF Init, TypeOK, Vids, NoVid

LEMMA NextType == TypeOK /\ [Next]_vars => TypeOK'
<1> SUFFICES ASSUME TypeOK, [Next]_vars PROVE TypeOK'
  OBVIOUS
<1> USE VidFacts DEF TypeOK, At, Goto, shared
<1>1. CASE UNCHANGED vars
  BY <1>1 DEF vars
<1>2. ASSUME NEW t \in Threads, Call(t) PROVE TypeOK'
  BY <1>2 DEF Call
<1>3. ASSUME NEW t \in Threads, Sleep(t) PROVE TypeOK'
  BY <1>3 DEF Sleep, InTurn
<1>4. ASSUME NEW t \in Threads, StartAttach(t) PROVE TypeOK'
  BY <1>4 DEF StartAttach, InTurn, Attaching
<1>5. ASSUME NEW t \in Threads, StartGet(t) PROVE TypeOK'
  BY <1>5 DEF StartGet, InTurn
<1>6. ASSUME NEW t \in Threads, Create(t) PROVE TypeOK'
  BY <1>6 DEF Create
<1>7. ASSUME NEW t \in Threads, Open(t) PROVE TypeOK'
  BY <1>7 DEF Open
<1>8. ASSUME NEW t \in Threads, Attach(t) PROVE TypeOK'
  BY <1>8 DEF Attach, WokenUp
<1>9. ASSUME NEW t \in Threads, GetOk(t) PROVE TypeOK'
  BY <1>9 DEF GetOk
<1>10. ASSUME NEW t \in Threads, GetAgain(t) PROVE TypeOK'
  BY <1>10 DEF GetAgain
<1>11. ASSUME NEW t \in Threads, Put(t) PROVE TypeOK'
  BY <1>11 DEF Put
<1>12. ASSUME NEW t \in Threads, CreateFails(t) PROVE TypeOK'
  BY <1>12 DEF CreateFails
<1>13. ASSUME NEW t \in Threads, OpenFails(t) PROVE TypeOK'
  BY <1>13 DEF OpenFails
<1>14. ASSUME NEW k \in Vids, Reclaim(k) PROVE TypeOK'
  BY <1>14 DEF Reclaim
<1>15. ASSUME NEW k \in Vids, Detach(k) PROVE TypeOK'
  BY <1>15 DEF Detach, Detached
<1>16. CASE BeginUnmount
  BY <1>16 DEF BeginUnmount
<1>17. CASE Unmount
  BY <1>17 DEF Unmount
<1> QED
  BY <1>1, <1>2, <1>3, <1>4, <1>5, <1>6, <1>7, <1>8, <1>9, <1>10, <1>11, <1>12, <1>13,
     <1>14, <1>15, <1>16, <1>17 DEF Next, Inside

\* Types, and that vp is set exactly where it is used (vfsops.c:96).
THEOREM TypeInvariant == Spec => []TypeOK
BY InitType, NextType, PTL DEF Spec
-----------------------------------------------------------------------------
LEMMA InitInv == Init => IInv
BY InitType, VidFacts
   DEF Init, IInv, Protocol, OneRoot, AttachInv, InAttach, RootInv, AliveInv, Alive,
       HoldersInv, HolderInv, SleepInv, SleepersAwaited, MountInv, At, Vids, NoVid

LEMMA NextInv == IInv /\ [Next]_vars => IInv'
<1> SUFFICES ASSUME IInv, [Next]_vars PROVE IInv'
  OBVIOUS
<1> USE VidFacts DEF IInv, Protocol, TypeOK, At, Goto, shared
\* Only the caller's place changes.
<1>1. ASSUME NEW t \in Threads, Call(t) PROVE Protocol'
  <2>1. AttachInv'
    BY <1>1 DEF Call, AttachInv, InAttach
  <2>2. AliveInv'
    BY <1>1 DEF Call, AliveInv, InAttach, Alive
  <2>3. HoldersInv'
    BY <1>1 DEF Call, HoldersInv, HolderInv, Alive
  <2>4. SleepInv'
    BY <1>1 DEF Call, SleepInv, SleepersAwaited
  <2>5. MountInv'
    BY <1>1 DEF Call, MountInv, Alive
  <2> QED
    BY <2>1, <2>2, <2>3, <2>4, <2>5, <1>1 DEF Call, OneRoot, RootInv, Alive
<1>2. ASSUME NEW t \in Threads, Sleep(t) PROVE Protocol'
  <2>1. AttachInv'
    BY <1>2 DEF Sleep, InTurn, AttachInv, InAttach
  <2>2. AliveInv'
    BY <1>2 DEF Sleep, InTurn, AliveInv, InAttach, Alive
  <2>3. HoldersInv'
    BY <1>2 DEF Sleep, InTurn, HoldersInv, HolderInv, Alive
  <2>4. SleepInv'
    BY <1>2 DEF Sleep, InTurn, SleepInv, SleepersAwaited
  <2>5. MountInv'
    BY <1>2 DEF Sleep, InTurn, MountInv, Alive
  <2> QED
    BY <2>1, <2>2, <2>3, <2>4, <2>5, <1>2 DEF Sleep, OneRoot, RootInv, Alive
\* attach_root and rootvp are clear: by AttachInv nobody is inside, by AliveInv nothing is alive.
<1>3. ASSUME NEW t \in Threads, StartAttach(t) PROVE Protocol'
  <2>1. AttachInv'
    BY <1>3 DEF StartAttach, InTurn, Attaching, AttachInv, InAttach
  <2>2. RootInv'
    BY <1>3 DEF StartAttach, InTurn, Attaching, RootInv, Alive
  <2>3. AliveInv'
    BY <1>3 DEF StartAttach, InTurn, Attaching, AliveInv, InAttach, Alive
  <2>4. HoldersInv'
    BY <1>3 DEF StartAttach, InTurn, Attaching, HoldersInv, HolderInv, Alive
  <2>5. SleepInv'
    BY <1>3 DEF StartAttach, InTurn, Attaching, SleepInv, SleepersAwaited
  <2>6. MountInv'
    BY <1>3 DEF StartAttach, InTurn, Attaching, MountInv, Alive
  <2> QED
    BY <2>1, <2>2, <2>3, <2>4, <2>5, <2>6, <1>3 DEF StartAttach, OneRoot
\* rootvp names a vnode that is alive.
<1>4. ASSUME NEW t \in Threads, StartGet(t) PROVE Protocol'
  <2>1. AttachInv'
    BY <1>4 DEF StartGet, InTurn, AttachInv, InAttach
  <2>2. AliveInv'
    BY <1>4 DEF StartGet, InTurn, AliveInv, InAttach, Alive
  <2>3. HoldersInv'
    BY <1>4 DEF StartGet, InTurn, HoldersInv, HolderInv, Alive, RootInv
  <2>4. SleepInv'
    BY <1>4 DEF StartGet, InTurn, SleepInv, SleepersAwaited
  <2>5. MountInv'
    BY <1>4 DEF StartGet, InTurn, MountInv, Alive
  <2> QED
    BY <2>1, <2>2, <2>3, <2>4, <2>5, <1>4 DEF StartGet, OneRoot, RootInv, Alive
\* The vp of a caller about to create is NULL: by AliveInv no vnode is alive.
<1>5. ASSUME NEW t \in Threads, Create(t) PROVE Protocol'
  <2>1. pc[t] = "create" /\ vp[t] = NoVid
    BY <1>5 DEF Create
  <2>2. \A k \in Vids : ~Alive(k)
    BY <2>1 DEF AliveInv, InAttach
  <2>3. PICK k \in Vids : /\ vnode' = [vnode EXCEPT ![k] = "live"]
                         /\ vp' = [vp EXCEPT ![t] = k]
    BY <1>5 DEF Create
  <2>4. OneRoot'
    BY <1>5, <2>1, <2>2, <2>3, ZenonT(30) DEF Create, OneRoot, Alive
  <2>5. AttachInv'
    BY <1>5 DEF Create, AttachInv, InAttach
  <2>6. RootInv'
    BY <1>5 DEF Create, RootInv, Alive
  <2>7. AliveInv'
    <3>1. vnode'[k] = "live" /\ vp'[t] = k
      BY <2>3
    <3>2. attach_root' /\ \A s \in Threads : InAttach(s)' => s = t
      BY <1>5, <2>1 DEF Create, AttachInv, InAttach
    <3>3. \A j \in Vids : Alive(j)' => j = k
      BY <2>2, <2>3 DEF Alive
    <3> QED
      BY <3>1, <3>2, <3>3 DEF AliveInv
  <2>8. HoldersInv'
    BY <1>5 DEF Create, HoldersInv, HolderInv, Alive
  <2>9. SleepInv'
    BY <1>5 DEF Create, SleepInv, SleepersAwaited
  <2>10. MountInv'
    BY <1>5 DEF Create, MountInv, Alive
  <2> QED
    BY <2>4, <2>5, <2>6, <2>7, <2>8, <2>9, <2>10
<1>6. ASSUME NEW t \in Threads, Open(t) PROVE Protocol'
  <2>1. AttachInv'
    BY <1>6 DEF Open, AttachInv, InAttach
  <2>2. AliveInv'
    BY <1>6 DEF Open, AliveInv, InAttach, Alive
  <2>3. HoldersInv'
    BY <1>6 DEF Open, HoldersInv, HolderInv, Alive
  <2>4. SleepInv'
    BY <1>6 DEF Open, SleepInv, SleepersAwaited
  <2>5. MountInv'
    BY <1>6 DEF Open, MountInv, Alive
  <2> QED
    BY <2>1, <2>2, <2>3, <2>4, <2>5, <1>6 DEF Open, OneRoot, RootInv, Alive
\* By AttachInv nobody else is inside the attach; rootvp becomes the vnode that is alive.
<1>7. ASSUME NEW t \in Threads, Attach(t) PROVE Protocol'
  <2>1. AttachInv'
    BY <1>7 DEF Attach, WokenUp, AttachInv, InAttach
  <2>2. RootInv'
    BY <1>7 DEF Attach, RootInv, Alive, HoldersInv, HolderInv
  <2>3. AliveInv'
    BY <1>7 DEF Attach, WokenUp, AliveInv, InAttach, Alive
  <2>4. HoldersInv'
    BY <1>7 DEF Attach, WokenUp, HoldersInv, HolderInv, Alive, AliveInv, InAttach
  <2>5. SleepInv'
    BY <1>7 DEF Attach, WokenUp, SleepInv, SleepersAwaited
  <2>6. MountInv'
    BY <1>7 DEF Attach, WokenUp, MountInv, Alive
  <2> QED
    BY <2>1, <2>2, <2>3, <2>4, <2>5, <2>6, <1>7 DEF Attach, OneRoot
<1>8. ASSUME NEW t \in Threads, GetOk(t) PROVE Protocol'
  <2>1. AttachInv'
    BY <1>8 DEF GetOk, AttachInv, InAttach
  <2>2. AliveInv'
    BY <1>8 DEF GetOk, AliveInv, InAttach, Alive
  <2>3. HoldersInv'
    BY <1>8 DEF GetOk, Gets, HoldersInv, HolderInv, Alive
  <2>4. SleepInv'
    BY <1>8 DEF GetOk, SleepInv, SleepersAwaited
  <2>5. MountInv'
    BY <1>8 DEF GetOk, MountInv, Alive
  <2> QED
    BY <2>1, <2>2, <2>3, <2>4, <2>5, <1>8 DEF GetOk, OneRoot, RootInv, Alive
<1>9. ASSUME NEW t \in Threads, GetAgain(t) PROVE Protocol'
  <2>1. AttachInv'
    BY <1>9 DEF GetAgain, AttachInv, InAttach
  <2>2. AliveInv'
    BY <1>9 DEF GetAgain, AliveInv, InAttach, Alive
  <2>3. HoldersInv'
    BY <1>9 DEF GetAgain, HoldersInv, HolderInv, Alive
  <2>4. SleepInv'
    BY <1>9 DEF GetAgain, SleepInv, SleepersAwaited
  <2>5. MountInv'
    BY <1>9 DEF GetAgain, MountInv, Alive
  <2> QED
    BY <2>1, <2>2, <2>3, <2>4, <2>5, <1>9 DEF GetAgain, OneRoot, RootInv, Alive
<1>10. ASSUME NEW t \in Threads, Put(t) PROVE Protocol'
  <2>1. AttachInv'
    BY <1>10 DEF Put, AttachInv, InAttach
  <2>2. AliveInv'
    BY <1>10 DEF Put, AliveInv, InAttach, Alive
  <2>3. HoldersInv'
    BY <1>10 DEF Put, HoldersInv, HolderInv, Alive
  <2>4. SleepInv'
    BY <1>10 DEF Put, SleepInv, SleepersAwaited
  <2>5. MountInv'
    BY <1>10 DEF Put, MountInv, Alive
  <2> QED
    BY <2>1, <2>2, <2>3, <2>4, <2>5, <1>10 DEF Put, OneRoot, RootInv, Alive
<1>11. ASSUME NEW t \in Threads, CreateFails(t) PROVE Protocol'
  <2>1. AttachInv'
    BY <1>11 DEF CreateFails, AttachInv, InAttach
  <2>2. AliveInv'
    BY <1>11 DEF CreateFails, AliveInv, InAttach, Alive
  <2>3. HoldersInv'
    BY <1>11 DEF CreateFails, HoldersInv, HolderInv, Alive
  <2>4. SleepInv'
    BY <1>11 DEF CreateFails, SleepInv, SleepersAwaited
  <2>5. MountInv'
    BY <1>11 DEF CreateFails, MountInv, Alive
  <2> QED
    BY <2>1, <2>2, <2>3, <2>4, <2>5, <1>11 DEF CreateFails, OneRoot, RootInv, Alive
<1>12. ASSUME NEW t \in Threads, OpenFails(t) PROVE Protocol'
  <2>1. AttachInv'
    BY <1>12 DEF OpenFails, AttachInv, InAttach
  <2>2. AliveInv'
    BY <1>12 DEF OpenFails, AliveInv, InAttach, Alive
  <2>3. HoldersInv'
    BY <1>12 DEF OpenFails, HoldersInv, HolderInv, Alive
  <2>4. SleepInv'
    BY <1>12 DEF OpenFails, SleepInv, SleepersAwaited
  <2>5. MountInv'
    BY <1>12 DEF OpenFails, MountInv, Alive
  <2> QED
    BY <2>1, <2>2, <2>3, <2>4, <2>5, <1>12 DEF OpenFails, OneRoot, RootInv, Alive
\* Nobody holds the vnode, which stays alive until it is detached.
<1>13. ASSUME NEW k \in Vids, Reclaim(k) PROVE Protocol'
  <2>1. OneRoot'
    BY <1>13 DEF Reclaim, OneRoot
  <2>2. RootInv'
    BY <1>13 DEF Reclaim, RootInv, Alive
  <2>3. AliveInv'
    BY <1>13 DEF Reclaim, AliveInv, InAttach, Alive
  <2>4. HoldersInv'
    BY <1>13 DEF Reclaim, Held, HoldersInv, HolderInv, Alive
  <2>5. MountInv'
    BY <1>13 DEF Reclaim, MountInv, Alive
  <2> QED
    BY <2>1, <2>2, <2>3, <2>4, <2>5, <1>13 DEF Reclaim, AttachInv, InAttach, SleepInv,
       SleepersAwaited
\* The vnode was the only one alive: whoever held it or got it would contradict HoldersInv.
<1>14. ASSUME NEW k \in Vids, Detach(k) PROVE Protocol'
  <2>1. OneRoot'
    BY <1>14 DEF Detach, Detached, OneRoot
  <2>2. RootInv'
    BY <1>14 DEF Detach, Detached, RootInv, Alive
  <2>3. AliveInv'
    BY <1>14 DEF Detach, Detached, AliveInv, InAttach, Alive
  <2>4. HoldersInv'
    BY <1>14 DEF Detach, Detached, HoldersInv, HolderInv, Alive, RootInv, AliveInv, InAttach
  <2>5. MountInv'
    BY <1>14 DEF Detach, Detached, MountInv, Alive
  <2> QED
    BY <2>1, <2>2, <2>3, <2>4, <2>5, <1>14 DEF Detach, AttachInv, InAttach, SleepInv,
       SleepersAwaited
<1>15. ASSUME BeginUnmount PROVE Protocol'
  <2>1. MountInv'
    BY <1>15 DEF BeginUnmount, MountInv, Alive
  <2> QED
    BY <2>1, <1>15 DEF BeginUnmount, OneRoot, AttachInv, InAttach, RootInv, Alive, AliveInv,
       HoldersInv, HolderInv, SleepInv, SleepersAwaited
<1>16. ASSUME Unmount PROVE Protocol'
  <2>1. MountInv'
    BY <1>16 DEF Unmount, MountInv, Alive
  <2> QED
    BY <2>1, <1>16 DEF Unmount, OneRoot, AttachInv, InAttach, RootInv, Alive, AliveInv,
       HoldersInv, HolderInv, SleepInv, SleepersAwaited
<1>17. CASE UNCHANGED vars
  BY <1>17 DEF vars, OneRoot, AttachInv, InAttach, RootInv, AliveInv, Alive, HoldersInv,
               HolderInv, SleepInv, SleepersAwaited, MountInv
<1>18. TypeOK'
  BY NextType
<1> QED
  BY <1>1, <1>2, <1>3, <1>4, <1>5, <1>6, <1>7, <1>8, <1>9, <1>10, <1>11, <1>12, <1>13,
     <1>14, <1>15, <1>16, <1>17, <1>18 DEF Next, Inside

LEMMA Inductive == Spec => []IInv
BY InitInv, NextInv, PTL DEF Spec

-----------------------------------------------------------------------------
\* There is at most one vnode for the root until its reclaim is over.
THEOREM OneRootVnode == Spec => []OneRoot
<1>1. IInv => OneRoot
  BY DEF IInv, Protocol
<1> QED
  BY <1>1, Inductive, PTL

\* Whoever ext2_get_root_vnode has returned a vnode to holds the vnode that
\* rootvp names, and it has not been reclaimed.
THEOREM CallersHoldRoot == Spec => []GotIsRoot
<1>1. IInv => GotIsRoot
  BY DEF IInv, Protocol, HoldersInv, HolderInv, GotIsRoot, At
<1> QED
  BY <1>1, Inductive, PTL

\* The assertions of the attach and of the detach hold where they are reached
\* (vfsops.c:144, 148; vnops.c:208-212).
THEOREM AssertionsHold == Spec => []RootAsserts
<1>1. IInv => AttachAsserts
  BY DEF IInv, Protocol, AttachInv, InAttach, RootInv, AttachAsserts, At
<1>2. IInv => DetachAsserts
  BY DEF IInv, Protocol, TypeOK, OneRoot, RootInv, Alive, DetachAsserts
<1> QED
  BY <1>1, <1>2, Inductive, PTL DEF RootAsserts

\* Nobody sleeps without an attach that will wake it.
THEOREM NoSleeperForgotten == Spec => []SleepersAwaited
<1>1. IInv => SleepersAwaited
  BY DEF IInv, Protocol, SleepInv
<1> QED
  BY <1>1, Inductive, PTL

\* When the unmount is over rootvp is clear and nobody sleeps.
THEOREM UnmountLeavesNothing == Spec => []UnmountQuiet
<1>1. IInv => UnmountQuiet
  BY VidFacts DEF IInv, Protocol, TypeOK, RootInv, Alive, SleepInv, MountInv, UnmountQuiet, At
<1> QED
  BY <1>1, Inductive, PTL
=============================================================================
