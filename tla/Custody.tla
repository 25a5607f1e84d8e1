------------------------------ MODULE Custody -------------------------------
(***************************************************************************)
(* What the rental records promise about the yard, with no tables: each    *)
(* unit is held by nobody or by one contract, a contract takes units only  *)
(* while booked, or as substitutes while running, units leave the yard     *)
(* only from nobody's hands, and a contract ends holding nothing.          *)
(***************************************************************************)
CONSTANTS Contracts, Equipments, Nobody

VARIABLES
  phase,    \* phase[c]: "new", "booked", "running" or "ended"
  holder    \* holder[e]: the contract that holds unit e, or Nobody

custodyVars == <<phase, holder>>

CustodyTypeOK ==
  /\ phase \in [Contracts -> {"new", "booked", "running", "ended"}]
  /\ holder \in [Equipments -> Contracts \cup {Nobody}]

Init ==
  /\ phase = [c \in Contracts |-> "new"]
  /\ holder = [e \in Equipments |-> Nobody]

HeldBy(who) == {e \in Equipments : holder[e] = who}

Pass(es, who) == holder' = [e \in Equipments |-> IF e \in es THEN who ELSE holder[e]]

Advance(c, from, to) == phase[c] = from /\ phase' = [phase EXCEPT ![c] = to]

\* A contract is made with the units it reserves.
Book(c, es) == es \subseteq HeldBy(Nobody) /\ Advance(c, "new", "booked") /\ Pass(es, c)

\* Units join a booked contract, or a running one as substitutes.
Take(c, es) ==
  /\ phase[c] \in {"booked", "running"}
  /\ es \subseteq HeldBy(Nobody)
  /\ Pass(es, c)
  /\ UNCHANGED phase

\* Units leave a contract: taken off a booked one, back from a running one.
Leave(c, es) ==
  /\ phase[c] \in {"booked", "running"}
  /\ es \subseteq HeldBy(c)
  /\ Pass(es, Nobody)
  /\ UNCHANGED phase

\* The units go on site with the contract.
Run(c) == Advance(c, "booked", "running") /\ UNCHANGED holder

\* A booked contract is dropped and lets its units go.
Drop(c) == Advance(c, "booked", "ended") /\ Pass(HeldBy(c), Nobody)

\* A running contract ends once it holds nothing.
End(c) == HeldBy(c) = {} /\ Advance(c, "running", "ended") /\ UNCHANGED holder

Next ==
  \E c \in Contracts :
    \/ \E es \in SUBSET Equipments : Book(c, es) \/ Take(c, es) \/ Leave(c, es)
    \/ Run(c)
    \/ Drop(c)
    \/ End(c)

Spec == Init /\ [][Next]_custodyVars
=============================================================================
