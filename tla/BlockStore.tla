----------------------------- MODULE BlockStore -----------------------------
(* What an I/O channel promises its clients (src/libext2fs/ext2_io.h:        *)
(* struct_io_manager): one array of blocks, one request at a time.  A read   *)
(* returns the array; an acknowledged write has changed it; an acknowledged  *)
(* flush, block-size change, cache switch or close has also put it on the    *)
(* disk.  A channel may keep what it likes in memory: the disk trails the    *)
(* array, and a crash takes the array back to the disk.                      *)
EXTENDS Naturals

CONSTANTS Blocks,  \* the blocks of the device
          Vals     \* what a block may hold

VARIABLES store,   \* [Blocks -> Vals]: what the clients may rely on
          disk,    \* [Blocks -> Vals]: what a crash leaves
          req,     \* the request in progress
          reply    \* the answer to the last request

vars == <<store, disk, req, reply>>

NoReq   == [kind |-> "none", at |-> {}, todo |-> <<>>]
NoReply == [kind |-> "none", ok |-> TRUE, data |-> <<>>]

Kinds == {"read", "write", "sync", "close"}

Init == /\ store \in [Blocks -> Vals]
        /\ disk = store
        /\ req = NoReq
        /\ reply = NoReply

\* A client asks: to read the blocks "at", or to write "todo" on them.
Submit(kind, at, todo) ==
    /\ req = NoReq
    /\ req' = [kind |-> kind, at |-> at, todo |-> todo]
    /\ reply' = NoReply
    /\ UNCHANGED <<store, disk>>

\* Some of the blocks of a write get their new contents, and some blocks of
\* the store reach the disk.
Progress(done, synced) ==
    /\ done \subseteq DOMAIN req.todo
    /\ store' = [b \in Blocks |-> IF b \in done THEN req.todo[b] ELSE store[b]]
    /\ disk' = [b \in Blocks |-> IF b \in synced THEN store'[b] ELSE disk[b]]
    /\ req' = [req EXCEPT !.todo = [b \in DOMAIN req.todo \ done |-> req.todo[b]]]
    /\ UNCHANGED reply

\* The answer.  Success means: the read saw the store, the write is complete,
\* the store is on the disk.  Only a close may give the memory up.
Answer(ok, data) ==
    /\ req # NoReq
    /\ ok => CASE req.kind = "read" ->
                    /\ DOMAIN data = req.at
                    /\ \A b \in req.at : data[b] = store[b]
               [] req.kind = "write" -> DOMAIN req.todo = {}
               [] OTHER -> disk = store
    /\ reply' = [kind |-> req.kind, ok |-> ok, data |-> data]
    /\ store' = IF req.kind = "close" THEN disk ELSE store
    /\ req' = NoReq
    /\ UNCHANGED disk

Crash == /\ store' = disk
         /\ req' = NoReq
         /\ reply' = NoReply
         /\ UNCHANGED disk

Next == \/ \E kind \in Kinds : \E at \in SUBSET Blocks :
             \E todo \in [at -> Vals] \cup {<<>>} : Submit(kind, at, todo)
        \/ \E done, synced \in SUBSET Blocks : Progress(done, synced)
        \/ \E ok \in BOOLEAN : \E at \in SUBSET Blocks :
             \E data \in [at -> Vals] : Answer(ok, data)
        \/ Crash

Spec == Init /\ [][Next]_vars
=============================================================================
