-------------------------- MODULE ReliableDelivery --------------------------
(***************************************************************************)
(* What the acknowledged broadcast of the ISO samples promises its         *)
(* application: a message that is handed back as acknowledged has reached  *)
(* the serial port of the device it was sent to.  IsoLink.tla implements   *)
(* this specification.                                                     *)
(***************************************************************************)
CONSTANT Messages

VARIABLES sent,           (* messages given to the port                      *)
          delivered,      (* messages that reached their device              *)
          acknowledged    (* messages handed back to the sender              *)

vars == <<sent, delivered, acknowledged>>

Init == sent = {} /\ delivered = {} /\ acknowledged = {}

Send(m) ==
  /\ m \notin sent
  /\ sent' = sent \cup {m}
  /\ UNCHANGED <<delivered, acknowledged>>

\* A packet may carry several new messages, for several devices.
Deliver ==
  /\ delivered' \in SUBSET sent /\ delivered \subseteq delivered'
  /\ UNCHANGED <<sent, acknowledged>>

\* An acknowledgement names a number, which messages of one packet share.
Acknowledge ==
  /\ acknowledged' \in SUBSET delivered /\ acknowledged \subseteq acknowledged'
  /\ UNCHANGED <<sent, delivered>>

Next == (\E m \in Messages : Send(m)) \/ Deliver \/ Acknowledge

Spec == Init /\ [][Next]_vars
=============================================================================
