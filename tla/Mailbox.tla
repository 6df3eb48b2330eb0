------------------------------ MODULE Mailbox ------------------------------
(***************************************************************************)
(* What wifi_pack_send and the HSPI_SEND queue promise to the parts of the *)
(* firmware that want something sent to the MCU: a mailbox of one place.   *)
(* A frame put into it takes the place of the one before, sent or not.     *)
(* Whatever is sent is the frame put last, unspoilt; it may be sent more   *)
(* than once, or be given up for want of memory, but the mailbox does not  *)
(* forget a frame without having tried.                                    *)
(***************************************************************************)
EXTENDS Sequences

CONSTANT Frames

VARIABLES
  made,  \* the frames put into the mailbox, in order
  full,  \* the frame put last is still to be sent (perhaps again)
  sent   \* the frames sent, in order

Init == made = <<>> /\ full = FALSE /\ sent = <<>>

Put == /\ full' = TRUE /\ UNCHANGED sent
       /\ \E f \in Frames : made' = Append(made, f)

Send == full /\ sent' = Append(sent, made[Len(made)]) /\ full' \in BOOLEAN
             /\ UNCHANGED made

GiveUp == full /\ full' \in BOOLEAN /\ UNCHANGED <<made, sent>>

Next == Put \/ Send \/ GiveUp

Spec == Init /\ [][Next]_<<made, full, sent>>
=============================================================================
