------------------------------ MODULE RootVnode ------------------------------
(* The root vnode of a mounted volume: ext2_get_root_vnode                   *)
(* (src/e2fsmac/vfsops.c), which any number of threads call at once through  *)
(* VFS_ROOT, the reclaim of the vnode by the kernel                          *)
(* (ext2_detach_root_vnode, src/e2fsmac/vnops.c) and the unmount.            *)
(*                                                                           *)
(* attach_root, wait_root and rootvp are read and written under mtx_root     *)
(* only, so each stretch of code between taking the mutex and giving it up   *)
(* (unlock or msleep) is one action.  vnode_create, ext2_open_vnode and      *)
(* vnode_getwithvid run without it.                                          *)
EXTENDS Integers, FiniteSets

CONSTANTS Threads,  \* callers of ext2_vfsop_root
          MaxVid,   \* bound: root vnodes created while mounted
          Faulty    \* may creating or opening the root vnode fail?

ASSUME MaxVidAssumption == MaxVid \in Nat \ {0}
ASSUME FaultyAssumption == Faulty \in BOOLEAN

Vids == 1..MaxVid
NoVid == 0

VARIABLES attach_root,  \* emp->attach_root
          wait_root,    \* emp->wait_root
          rootvp,       \* emp->rootvp, as the vid of the vnode
          vnode,        \* [Vids -> the kernel's state of the vnode]
          leaked,       \* vnodes whose iocount nobody will drop
          pc, vp,       \* where each caller is, and its vp
          mount         \* of the volume

vars == <<attach_root, wait_root, rootvp, vnode, leaked, pc, vp, mount>>
shared == <<attach_root, wait_root, rootvp>>

Init == /\ attach_root = FALSE /\ wait_root = FALSE
        /\ rootvp = NoVid
        /\ vnode = [k \in Vids |-> "none"]
        /\ leaked = {}
        /\ pc = [t \in Threads |-> "out"]
        /\ vp = [t \in Threads |-> NoVid]
        /\ mount = "mounted"

At(t, here) == pc[t] = here
Goto(t, there) == pc' = [pc EXCEPT ![t] = there]

\* The kernel does not reclaim a vnode that has an iocount.
Held(k) == k \in leaked \/ \E t \in Threads : vp[t] = k /\ pc[t] \in {"open", "attach", "got"}

-----------------------------------------------------------------------------
\* ext2_get_root_vnode

\* The kernel keeps the mount busy while a caller is inside.
Call(t) == /\ At(t, "out") /\ mount = "mounted"
           /\ Goto(t, "turn")
           /\ UNCHANGED <<shared, vnode, leaked, vp, mount>>

\* The three branches of the loop; a caller that wakes up goes round again.
InTurn(t) == pc[t] \in {"turn", "woken"}

Sleep(t) == /\ InTurn(t)
            /\ attach_root
            /\ wait_root' = TRUE
            /\ Goto(t, "asleep")
            /\ UNCHANGED <<attach_root, rootvp, vnode, leaked, vp, mount>>

AttachingForgotten == FALSE                                          \* mutant
Attaching == TRUE                               \* emp->attach_root = 1
StartAttach(t) == /\ InTurn(t)
                  /\ ~attach_root /\ rootvp = NoVid
                  /\ attach_root' = Attaching
                  /\ Goto(t, "create")
                  /\ UNCHANGED <<wait_root, rootvp, vnode, leaked, vp, mount>>

StartGet(t) == /\ InTurn(t)
               /\ ~attach_root /\ rootvp # NoVid
               /\ vp' = [vp EXCEPT ![t] = rootvp]
               /\ Goto(t, "get")
               /\ UNCHANGED <<shared, vnode, leaked, mount>>

\* ext2_create_vnode returns the new vnode with an iocount.
Create(t) == /\ At(t, "create")
             /\ \E k \in Vids :
                  /\ vnode[k] = "none"
                  /\ \A j \in 1..(k - 1) : vnode[j] # "none"
                  /\ vnode' = [vnode EXCEPT ![k] = "live"]
                  /\ vp' = [vp EXCEPT ![t] = k]
             /\ Goto(t, "open")
             /\ UNCHANGED <<shared, leaked, mount>>

\* A failure returns at once: attach_root stays set.
CreateFails(t) == /\ Faulty
                  /\ At(t, "create")
                  /\ Goto(t, "out")
                  /\ UNCHANGED <<shared, vnode, leaked, vp, mount>>

Open(t) == /\ At(t, "open")
           /\ Goto(t, "attach")
           /\ UNCHANGED <<shared, vnode, leaked, vp, mount>>

\* Nor does anyone vnode_put the new vnode.
OpenFails(t) == /\ Faulty
                /\ At(t, "open")
                /\ leaked' = leaked \cup {vp[t]}
                /\ vp' = [vp EXCEPT ![t] = NoVid]
                /\ Goto(t, "out")
                /\ UNCHANGED <<shared, vnode, mount>>

\* wakeup (&emp->rootvp) makes every sleeper runnable.
WokenFirst(p) == IF \E t \in Threads : p[t] = "asleep"               \* mutant
                 THEN [p EXCEPT ![CHOOSE t \in Threads : p[t] = "asleep"] = "woken"]
                 ELSE p
WokenUp(p) == [t \in Threads |-> IF p[t] = "asleep" THEN "woken" ELSE p[t]]

Attach(t) == /\ At(t, "attach")
             /\ rootvp' = vp[t]
             /\ attach_root' = FALSE
             /\ wait_root' = FALSE
             /\ LET p == [pc EXCEPT ![t] = "got"]
                IN  pc' = IF wait_root THEN WokenUp(p) ELSE p
             /\ UNCHANGED <<vnode, leaked, vp, mount>>

\* vnode_getwithvid takes an iocount unless the vnode is being reclaimed.
GetsAnything(k) == vnode[k] # "none"                                 \* mutant
Gets(k) == vnode[k] = "live"

GetOk(t) == /\ At(t, "get")
            /\ Gets(vp[t])
            /\ Goto(t, "got")
            /\ UNCHANGED <<shared, vnode, leaked, vp, mount>>

GetAgainKeepsVp(t) == /\ At(t, "get")                                 \* mutant
                      /\ ~Gets(vp[t])
                      /\ Goto(t, "turn")
                      /\ UNCHANGED <<shared, vnode, leaked, vp, mount>>
GetAgain(t) == /\ At(t, "get")
               /\ ~Gets(vp[t])
               /\ vp' = [vp EXCEPT ![t] = NoVid]
               /\ Goto(t, "turn")
               /\ UNCHANGED <<shared, vnode, leaked, mount>>

\* The caller of VFS_ROOT is done with the vnode.
Put(t) == /\ At(t, "got")
          /\ vp' = [vp EXCEPT ![t] = NoVid]
          /\ Goto(t, "out")
          /\ UNCHANGED <<shared, vnode, leaked, mount>>

-----------------------------------------------------------------------------
\* The kernel reclaims a vnode nobody holds: under memory pressure (bound: it
\* leaves the last vid alone) or in the unmount's vflush.
Reclaim(k) == /\ vnode[k] = "live" /\ ~Held(k)
              /\ k < MaxVid \/ mount = "unmounting"
              /\ vnode' = [vnode EXCEPT ![k] = "reclaim"]
              /\ UNCHANGED <<shared, leaked, pc, vp, mount>>

KeepsRoot(k) == rootvp                                               \* mutant
Detached(k) == NoVid

\* ext2_vnop_reclaim: the vnode is the root of the volume.
Detach(k) == /\ vnode[k] = "reclaim"
             /\ rootvp' = Detached(k)
             /\ vnode' = [vnode EXCEPT ![k] = "dead"]
             /\ UNCHANGED <<attach_root, wait_root, leaked, pc, vp, mount>>

\* ext2_vfsop_unmount, which the kernel lets in when no caller is inside.
BeginUnmount == /\ mount = "mounted"
                /\ \A t \in Threads : At(t, "out")
                /\ mount' = "unmounting"
                /\ UNCHANGED <<shared, vnode, leaked, pc, vp>>

Unmount == /\ mount = "unmounting"
           /\ \A k \in Vids : vnode[k] \in {"none", "dead"}
           /\ mount' = "unmounted"
           /\ UNCHANGED <<shared, vnode, leaked, pc, vp>>

Inside(t) == \/ Sleep(t) \/ StartAttach(t) \/ StartGet(t)
             \/ Create(t) \/ Open(t) \/ Attach(t)
             \/ GetOk(t) \/ GetAgain(t)

Next == \/ \E t \in Threads : \/ Call(t) \/ Inside(t) \/ Put(t)
                              \/ CreateFails(t) \/ OpenFails(t)
        \/ \E k \in Vids : Reclaim(k) \/ Detach(k)
        \/ BeginUnmount \/ Unmount

\* A runnable thread runs, a reclaim that has begun ends, and a thread that
\* waits for the mutex gets it in the end (lck_mtx queues its waiters).
Fairness == /\ \A t \in Threads : SF_vars(Inside(t))
            /\ \A k \in Vids : WF_vars(Detach(k))

Spec == Init /\ [][Next]_vars /\ Fairness

-----------------------------------------------------------------------------
\* Properties

\* Types, and that vp is NULL wherever the loop starts again
\* (kassert (!vp), vfsops.c:96) and set wherever it is used.
TypeOK == /\ {attach_root, wait_root} \subseteq BOOLEAN
          /\ rootvp \in Vids \cup {NoVid}
          /\ vnode \in [Vids -> {"none", "live", "reclaim", "dead"}]
          /\ leaked \subseteq Vids
          /\ pc \in [Threads -> {"out", "turn", "asleep", "woken", "create", "open",
                                 "attach", "get", "got"}]
          /\ vp \in [Threads -> Vids \cup {NoVid}]
          /\ mount \in {"mounted", "unmounting", "unmounted"}
          /\ \A t \in Threads :
               vp[t] = NoVid <=> pc[t] \notin {"open", "attach", "get", "got"}

\* Two vnodes for the root at once would be two fsnodes and two ext2_file_t
\* for one inode: there is one until its reclaim is over (attach_root and
\* rootvp in ext2_get_root_vnode).
OneRoot == \A j, k \in Vids :
    vnode[j] \in {"live", "reclaim"} /\ vnode[k] \in {"live", "reclaim"} => j = k

\* Every caller that got the root holds the vnode that rootvp names
\* (vfsops.c:145, 159-179).
GotIsRoot == \A t \in Threads : At(t, "got") => vp[t] = rootvp /\ vnode[vp[t]] = "live"

\* The kasserts of the attach (vfsops.c:144, 148) and of the detach
\* (vnops.c:208-212), at the points that reach them.
AttachAsserts == \A t \in Threads : At(t, "attach") => attach_root /\ rootvp = NoVid
DetachAsserts == \A k \in Vids : vnode[k] = "reclaim" =>
                    /\ attach_root => rootvp = NoVid
                    /\ rootvp # NoVid => rootvp = k
RootAsserts == AttachAsserts /\ DetachAsserts

\* Nobody sleeps on &emp->rootvp unless attach_root and wait_root are set, so
\* that the end of the attach wakes it (vfsops.c:101-102, 149-154).
SleepersAwaited == \A t \in Threads : At(t, "asleep") => attach_root /\ wait_root

\* A caller returned an error in the middle of an attach (vfsops.c:123, 136).
Abandoned == attach_root /\ \A t \in Threads : pc[t] \notin {"create", "open", "attach"}

\* Every call of VFS_ROOT returns, as long as no attach is abandoned: a sleeper
\* is woken, and the wait for a reclaim in GetAgain ends.
Served == \A t \in Threads :
    (pc[t] \notin {"out", "got"}) ~> (pc[t] \in {"out", "got"} \/ Abandoned)

\* The unmount finds rootvp and wait_root clear (vfsops.c:332-333): the vflush
\* has reclaimed the root and every sleeper has gone.
UnmountQuiet == mount = "unmounted" => rootvp = NoVid /\ ~wait_root

\* kassert (!emp->attach_root), (!emp->wait_root), (!emp->rootvp),
\* vfsops.c:331-333.  With Faulty = TRUE the first one fails: an attach that
\* did not succeed leaves attach_root set.
UnmountAsserts == mount = "unmounted" => ~attach_root /\ ~wait_root /\ rootvp = NoVid
=============================================================================
