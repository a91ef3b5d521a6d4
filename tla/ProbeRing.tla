----------------------------- MODULE ProbeRing -----------------------------
(***************************************************************************)
(* A BPF ring buffer, as the program that fills it and the goroutine that  *)
(* reads it see it: records are numbered as they are made, a full ring     *)
(* loses the new one, and the oldest is taken first.  Either side may go   *)
(* away for good, and what is in the ring then stays there.                *)
(***************************************************************************)
EXTENDS Naturals, Sequences

CONSTANT Slots

VARIABLES
  made,      (* records the program has made                                *)
  ring,      (* the numbers of the ones that wait, oldest first             *)
  putting,   (* the program's links are open                                *)
  reading    (* the reader is open                                          *)

ringVars == <<made, ring, putting, reading>>

Init == made = 0 /\ ring = << >> /\ putting = TRUE /\ reading = TRUE

Put ==
  /\ putting
  /\ made' = made + 1
  /\ \/ Len(ring) < Slots /\ ring' = Append(ring, made + 1)
     \/ Len(ring) = Slots /\ UNCHANGED ring
  /\ UNCHANGED <<putting, reading>>

Take ==
  /\ reading /\ ring # << >>
  /\ ring' = Tail(ring)
  /\ UNCHANGED <<made, putting, reading>>

Close ==
  /\ putting' \in BOOLEAN /\ (putting' => putting)
  /\ reading' \in BOOLEAN /\ (reading' => reading)
  /\ UNCHANGED <<made, ring>>

Next == Put \/ Take \/ Close

Spec == Init /\ [][Next]_ringVars
=============================================================================
