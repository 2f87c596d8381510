------------------------------- MODULE PodFeed -------------------------------
(***************************************************************************)
(* What the pod manager and its channel promise the runtime loop: for each *)
(* pod, every state it was wished to have reaches the loop, in the order   *)
(* of the wishes, with repetitions of the latest one in between and        *)
(* nothing else.  PodManager implements it.                                *)
(***************************************************************************)
EXTENDS Sequences

CONSTANTS Pods,    \* pod UIDs
          Wishes,  \* the states a pod may be wished to have
          Nothing  \* the pod is not to run

VARIABLES
  wish,  \* the state each pod is wished to have
  owed,  \* what the loop has yet to hear about each pod, oldest first
  heard  \* what it heard last about each pod

feedVars == <<wish, owed, heard>>

FeedInit ==
  /\ wish = [p \in Pods |-> Nothing]
  /\ owed = [p \in Pods |-> <<>>]
  /\ heard = [p \in Pods |-> Nothing]

\* A new state for p, which may be the one it has.
Wish(p, w) ==
  /\ wish' = [wish EXCEPT ![p] = w]
  /\ owed' = [owed EXCEPT ![p] = Append(@, w)]
  /\ UNCHANGED heard

\* The loop will be told once more what p is wished to be.
Remind(p) ==
  /\ owed' = [owed EXCEPT ![p] = Append(@, wish[p])]
  /\ UNCHANGED <<wish, heard>>

Hear(p) ==
  /\ owed[p] # <<>>
  /\ heard' = [heard EXCEPT ![p] = Head(owed[p])]
  /\ owed' = [owed EXCEPT ![p] = Tail(@)]
  /\ UNCHANGED wish

FeedNext ==
  \E p \in Pods : (\E w \in Wishes : Wish(p, w)) \/ Remind(p) \/ Hear(p)

FeedSpec ==
  /\ FeedInit
  /\ [][FeedNext]_feedVars
  /\ \A p \in Pods : WF_feedVars(Hear(p))
=============================================================================
