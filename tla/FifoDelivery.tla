---------------------------- MODULE FifoDelivery ----------------------------
(***************************************************************************)
(* What the command queue of the sync server promises, without saying how: *)
(* every channel is a first-in first-out lane.  A command is submitted,    *)
(* handed out once, and settled; it is handed out only after every command *)
(* submitted before it on its channel has been settled.  Channels do not   *)
(* wait for one another.  CommandQueue implements this module.             *)
(***************************************************************************)
EXTENDS Naturals, Sequences

CONSTANT Channels

VARIABLE stage      \* stage[ch][n] : what became of the n-th command of ch

Stage == {"queued", "out", "done"}

TypeOK == stage \in [Channels -> Seq(Stage)]

(* The n-th command of ch is the oldest unsettled one.                     *)
IsNext(ch, n) ==
  /\ n \in DOMAIN stage[ch]
  /\ stage[ch][n] = "queued"
  /\ \A m \in 1 .. (n - 1) : stage[ch][m] = "done"

(* The commands that may be handed out: at most the head of each channel.  *)
Heads == {id \in UNION {{ch} \X DOMAIN stage[ch] : ch \in Channels} :
            IsNext(id[1], id[2])}

-----------------------------------------------------------------------------
Init == stage = [ch \in Channels |-> << >>]

Submit(ch) == stage' = [stage EXCEPT ![ch] = Append(@, "queued")]

(* One poll may hand out the next command of several channels.             *)
HandOut(out) ==
  stage' = [ch \in Channels |->
              [n \in DOMAIN stage[ch] |->
                 IF <<ch, n>> \in out THEN "out" ELSE stage[ch][n]]]

Settle(ch, n) ==
  /\ n \in DOMAIN stage[ch]
  /\ stage[ch][n] = "out"
  /\ stage' = [stage EXCEPT ![ch][n] = "done"]

Next ==
  \/ \E ch \in Channels : Submit(ch)
  \/ \E out \in SUBSET Heads : HandOut(out)
  \/ \E ch \in Channels : \E n \in DOMAIN stage[ch] : Settle(ch, n)

Spec == Init /\ [][Next]_stage
=============================================================================
