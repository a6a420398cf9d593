---------------------------- MODULE BlockStore ----------------------------
(***************************************************************************)
(* What the block cache of the MINIX file system promises: a store of      *)
(* blocks.  A write sets one block, a read returns what was written last   *)
(* or an error, and nothing else changes a block, until a write to its     *)
(* device has failed: then the blocks of that device are unknown.          *)
(***************************************************************************)
CONSTANTS Ids,         \* <<device, block>>
          Values,
          Unknown      \* the content of a block after a failed write

VARIABLES store, reply

vars == <<store, reply>>

NoReply == [kind |-> "none"]
Answers == [kind : {"data"}, id : Ids, value : Values \cup {Unknown}]
Written == [kind |-> "written"]
Errors == [kind : {"error"}, id : Ids]

Init ==
    /\ store \in [Ids -> Values]
    /\ reply = NoReply

DeviceOf(id) == id[1]

\* After a failed write any part of the device's blocks may be gone; the
\* same step may have been an answer for a block of another device.
Breaks(devs) ==
    [id \in Ids |-> IF DeviceOf(id) \in devs THEN Unknown ELSE store[id]]

Devices == {DeviceOf(id) : id \in Ids}

Read(id) ==
    \E devs \in SUBSET Devices :
        /\ store' = Breaks(devs)
        /\ \/ reply' = [kind |-> "data", id |-> id, value |-> store[id]]
           \/ reply' = [kind |-> "error", id |-> id]
           \/ store'[id] = Unknown /\ reply' \in Answers /\ reply'.id = id

Write(id, v) ==
    \E devs \in SUBSET Devices :
        /\ store' = [Breaks(devs) EXCEPT
                        ![id] = IF @ = Unknown THEN Unknown ELSE v]
        /\ reply' = Written

Quiet ==
    \E devs \in SUBSET Devices :
        /\ store' = Breaks(devs)
        /\ \/ reply' \in {NoReply} \cup Errors
           \/ store' = store /\ reply' = reply

Next ==
    \/ \E id \in Ids : Read(id) \/ \E v \in Values : Write(id, v)
    \/ Quiet

Spec == Init /\ [][Next]_vars
=============================================================================
