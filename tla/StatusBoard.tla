---------------------------- MODULE StatusBoard ----------------------------
(***************************************************************************)
(* What a collector promises about server statuses: a server goes offline  *)
(* or online, an outage starts when its server goes offline, and keeps     *)
(* its start until the server is online again or removed.                  *)
(***************************************************************************)
EXTENDS Naturals

CONSTANTS Servers, None

VARIABLES status, since, clock

board == <<status, since, clock>>

Known(s) == status[s] \in {"unknown", "online", "offline"}

Init == /\ status = [s \in Servers |-> "absent"]
        /\ since  = [s \in Servers |-> None]
        /\ clock  = 0

Set(s, st, t) == /\ status' = [status EXCEPT ![s] = st]
                 /\ since'  = [since  EXCEPT ![s] = t]
                 /\ UNCHANGED clock

Register(s)  == status[s] = "absent" /\ Set(s, "unknown", None)
Remove(s)    == Known(s) /\ Set(s, "deleted", None)
GoOffline(s) == Known(s) /\ status[s] # "offline" /\ Set(s, "offline", clock)
GoOnline(s)  == Known(s) /\ Set(s, "online", None)
Advance      == clock' = clock + 1 /\ UNCHANGED <<status, since>>

Next == Advance \/ \E s \in Servers : Register(s) \/ Remove(s) \/ GoOffline(s) \/ GoOnline(s)

Spec == Init /\ [][Next]_board
============================================================================
