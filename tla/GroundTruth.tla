---------------------------- MODULE GroundTruth ----------------------------
(***************************************************************************)
(* What the tool promises, with no file, lock or process step in sight.    *)
(* Every run of the instrumented program observes indirect edges of two    *)
(* kinds, and publishes what it observed into one store per kind.  A       *)
(* publication adds to the store and never takes anything out of it:       *)
(* "Load existing JSON and merge", "Fini: merge + save" (MyPinTool.cpp).   *)
(***************************************************************************)
CONSTANTS Proc,     \* the runs (processes) of one instrumented executable
          Kind,     \* the kinds of edge, one output file for each
          Edge      \* the (site, target) pairs

VARIABLES seen,     \* seen[p][k]: the edges of kind k that run p executed
          store     \* store[k]: the published ground truth of kind k

vars == <<seen, store>>

Init ==
  /\ seen = [p \in Proc |-> [k \in Kind |-> {}]]
  /\ store = [k \in Kind |-> {}]

\* Run p executes one more indirect branch.
Observe(p) ==
  \E k \in Kind, e \in Edge :
    /\ seen' = [seen EXCEPT ![p][k] = @ \cup {e}]
    /\ UNCHANGED store

\* Run c is forked off run p and carries what p had observed.
Inherit(p, c) ==
  /\ seen' = [seen EXCEPT ![c] = seen[p]]
  /\ UNCHANGED store

\* Run p adds everything it observed of one kind to the store.
Publish(p) ==
  \E k \in Kind :
    /\ store' = [store EXCEPT ![k] = @ \cup seen[p][k]]
    /\ UNCHANGED seen

Next ==
  \/ \E p \in Proc : Observe(p) \/ Publish(p)
  \/ \E p, c \in Proc : Inherit(p, c)

Spec == Init /\ [][Next]_vars
=============================================================================
