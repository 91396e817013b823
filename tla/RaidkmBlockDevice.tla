-------------------------- MODULE RaidkmBlockDevice --------------------------
(***************************************************************************)
(* What an array promises the filesystem above it: a linear store of       *)
(* chunks.  A request takes effect at one moment between its submission    *)
(* and its reply; a write replaces one chunk, a read returns it, and       *)
(* nothing else ever changes the store -- no reshape band, no quiesce, no  *)
(* geometry switch.                                                        *)
(***************************************************************************)
CONSTANTS Requests, Chunks, Values

VARIABLES
  store,      \* [Chunks -> Values]
  io          \* [Requests -> the request's state]

vars == <<store, io>>

Idle == [op |-> "none"]
Pending == [op : {"read"}, chunk : Chunks]
             \cup [op : {"write"}, chunk : Chunks, val : Values]
Replied == [op : {"reply"}, val : Values]

TypeOK ==
  /\ store \in [Chunks -> Values]
  /\ io \in [Requests -> {Idle} \cup Pending \cup Replied]

Init ==
  /\ store \in [Chunks -> Values]
  /\ io = [r \in Requests |-> Idle]

Submit(r) ==
  /\ io[r] \notin Pending
  /\ io'[r] \in Pending
  /\ io' = [io EXCEPT ![r] = io'[r]]
  /\ UNCHANGED store

Read(r) ==
  /\ io[r].op = "read"
  /\ io' = [io EXCEPT ![r] = [op |-> "reply", val |-> store[io[r].chunk]]]
  /\ UNCHANGED store

Write(r) ==
  /\ io[r].op = "write"
  /\ store' = [store EXCEPT ![io[r].chunk] = io[r].val]
  /\ io' = [io EXCEPT ![r] = [op |-> "reply", val |-> io[r].val]]

Next == \E r \in Requests : Submit(r) \/ Read(r) \/ Write(r)

Spec == Init /\ [][Next]_vars
=============================================================================
