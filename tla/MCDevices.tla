------------------------------ MODULE MCDevices -------------------------------
(* The clock and the disk driver share no state and neither calls the other, so every
   behaviour of the two is covered by the behaviours in which one of them moves. *)
EXTENDS Pit, Ata

VARIABLE moves
devVars == <<pitVars, ataVars, moves>>

MCSetups ==
    {s \in [Drives -> Kinds] : \E d \in Drives : s[d] # "none"}

DevInit == PitInit /\ AtaInit /\ moves \in {"clock", "disk"}
           /\ (moves = "clock" => kind = [d \in Drives |-> "disk"])
ClockMoves == moves = "clock" /\ PitNext /\ UNCHANGED <<ataVars, moves>>
DiskMoves == moves = "disk" /\ AtaNext /\ UNCHANGED <<pitVars, moves>>
DevNext == ClockMoves \/ DiskMoves

DevSpec == DevInit /\ [][DevNext]_devVars
              /\ WF_devVars(moves = "clock" /\ pit_handler /\ UNCHANGED <<ataVars, moves>>)
              /\ WF_devVars(moves = "clock" /\ Sleeper /\ UNCHANGED <<ataVars, moves>>)
=============================================================================
