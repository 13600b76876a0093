---------------------------- MODULE StoreContract ----------------------------
(***************************************************************************)
(* What the host relies on when it calls a PersistenceProvider: an         *)
(* instance is stored, replaced and loaded whole (its row and its tree of  *)
(* execution pointers belong together); a number of a definition is given  *)
(* out once; a claim on a subscription has one holder.  Nothing is said    *)
(* about how a call is carried out.                                        *)
(***************************************************************************)
EXTENDS Naturals

CONSTANTS Clients, Workflows, Subs, Versions

VARIABLES
  inst,    \* the stored instances: [v, tree], both 0 when absent
  held,    \* what each client has loaded and may write back
  last,    \* the last number given out
  number,  \* the number each client was given
  claim    \* the clients that hold each subscription

vars == <<inst, held, last, number, claim>>

Absent == [v |-> 0, tree |-> 0]

Init ==
  /\ inst = [w \in Workflows |-> Absent]
  /\ held = [c \in Clients |-> Absent]
  /\ last = 0
  /\ number = [c \in Clients |-> 0]
  /\ claim = [s \in Subs |-> {}]

Number(c) ==
  /\ last' = last + 1
  /\ number' = [number EXCEPT ![c] = last']
  /\ UNCHANGED <<inst, held, claim>>

\* A client stores a whole instance and lets go of what it had.
Store(c, w, v) ==
  /\ inst' = [inst EXCEPT ![w] = [v |-> v, tree |-> v]]
  /\ held' = [held EXCEPT ![c] = Absent]
  /\ number' = [number EXCEPT ![c] = 0]
  /\ UNCHANGED <<last, claim>>

Load(c, w) ==
  /\ inst[w] # Absent
  /\ held' = [held EXCEPT ![c] = inst[w]]
  /\ UNCHANGED <<inst, last, number, claim>>

Claim(c, s) ==
  /\ claim[s] = {}
  /\ claim' = [claim EXCEPT ![s] = {c}]
  /\ UNCHANGED <<inst, held, last, number>>

\* The holder lets go, or dies with its claim.
Unclaim(c, s) ==
  /\ c \in claim[s]
  /\ claim' = [claim EXCEPT ![s] = {}]
  /\ UNCHANGED <<inst, held, last, number>>

\* A call returns, or a client forgets what it was doing.
Forget(c) ==
  /\ held' = [held EXCEPT ![c] = Absent]
  /\ number' = [number EXCEPT ![c] = 0]
  /\ UNCHANGED <<inst, last, claim>>

Next == \E c \in Clients :
  \/ Number(c)
  \/ Forget(c)
  \/ \E w \in Workflows : Load(c, w) \/ \E v \in Versions : Store(c, w, v)
  \/ \E s \in Subs : Claim(c, s) \/ Unclaim(c, s)

Spec == Init /\ [][Next]_vars
=============================================================================
