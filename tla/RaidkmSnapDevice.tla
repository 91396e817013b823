-------------------------- MODULE RaidkmSnapDevice --------------------------
(***************************************************************************)
(* What native snapshots promise: an origin that is a linear store of rows *)
(* and a set of frozen images of it.  A write takes effect at one moment,  *)
(* after its submission and before its success is reported; one that is    *)
(* reported failed never does.  An image is the whole origin at one        *)
(* moment, and nothing changes it until it is destroyed.  A discard is a   *)
(* hint: of the rows it names, any may lose its contents.                  *)
(***************************************************************************)
CONSTANTS
  Requests, Origin, Snapshots, Rows,
  Trimmed,            \* contents of a discarded row
  Written(_, _)       \* a row with a write merged into it

VARIABLES
  store,      \* [Origin -> Rows]
  image,      \* snapshot -> [Origin -> Rows]
  io,         \* [Requests -> a write under way, or how the last one ended]
  trim        \* rows named by the discards under way

vars == <<store, image, io, trim>>

NoWrite == [op : {"none"}, st : {"none", "ok", "error"}]

Init ==
  /\ store \in [Origin -> Rows]
  /\ image = <<>>
  /\ io \in [Requests -> NoWrite]
  /\ trim = {}

Begin(r) ==
  /\ io[r].op = "none"
  /\ io'[r].op = "write"
  /\ ~io'[r].done
  /\ io' = [io EXCEPT ![r] = io'[r]]
  /\ UNCHANGED <<store, image, trim>>

TakesEffect(r) ==
  /\ io[r].op = "write"
  /\ ~io[r].done
  /\ store' = [store EXCEPT ![io[r].L] = Written(@, io[r])]
  /\ UNCHANGED <<image, trim>>

Effect(r) ==
  /\ TakesEffect(r)
  /\ io' = [io EXCEPT ![r].done = TRUE]

EffectAndReply(r) ==
  /\ TakesEffect(r)
  /\ io' = [io EXCEPT ![r] = [op |-> "none", st |-> "ok"]]

Reply(r) ==
  /\ io[r].op = "write"
  /\ io' = [io EXCEPT ![r] = [op |-> "none",
                              st |-> IF io[r].done THEN "ok" ELSE "error"]]
  /\ UNCHANGED <<store, image, trim>>

\* Turned away on arrival.
Refuse(r) ==
  /\ io[r].op = "none"
  /\ io' = [io EXCEPT ![r] = [op |-> "none", st |-> "error"]]
  /\ UNCHANGED <<store, image, trim>>

\* Reads are not part of this state; one that begins forgets the last reply.
Forget(r) ==
  /\ io[r].op = "none"
  /\ io' = [io EXCEPT ![r] = [op |-> "none", st |-> "none"]]
  /\ UNCHANGED <<store, image, trim>>

\* A discard begins; each of its rows is trimmed or dropped.
Discard ==
  \/ /\ trim \subseteq trim'
     /\ trim' \in SUBSET Origin
     /\ UNCHANGED <<store, image, io>>
  \/ \E done \in SUBSET trim, lose \in SUBSET trim :
       /\ lose \subseteq done
       /\ trim' = trim \ done
       /\ store' = [L \in Origin |-> IF L \in lose THEN Trimmed ELSE store[L]]
       /\ UNCHANGED <<image, io>>

Create(g) ==
  /\ g \notin DOMAIN image
  /\ image' = [h \in DOMAIN image \cup {g} |->
                 IF h = g THEN store ELSE image[h]]
  /\ UNCHANGED <<store, io, trim>>

Destroy(g) ==
  /\ g \in DOMAIN image
  /\ image' = [h \in DOMAIN image \ {g} |-> image[h]]
  /\ UNCHANGED <<store, io, trim>>

Next ==
  \/ \E r \in Requests :
       \/ Begin(r) \/ Effect(r) \/ EffectAndReply(r)
       \/ Reply(r) \/ Refuse(r) \/ Forget(r)
  \/ Discard
  \/ \E g \in Snapshots : Create(g) \/ Destroy(g)

Spec == Init /\ [][Next]_vars
=============================================================================
