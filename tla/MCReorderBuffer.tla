-------------------------- MODULE MCReorderBuffer ---------------------------
(***************************************************************************)
(* A small instance of ReorderBuffer.  The twin is off, on, lit by a       *)
(* zone's answer, or dim if it handled the light itself.  "start" turns it *)
(* on, opens one lifecycle turn per zone and sends a command; an event     *)
(* "light" asks zone h unless the twin is off, as a lux reading does, and  *)
(* a real answer to it sends a command.                                    *)
(***************************************************************************)
EXTENDS ReorderBuffer

MCZone  == {"h", "w"}
MCEvent == {"start", "light", "h_ready", "w_ready"}

MCRoute(event, t) ==
    IF event = "light" /\ t # "off" THEN [zone |-> "h", message |-> "lux"] ELSE NoTell

MCCommitTurn(t, event, reply) ==
    CASE event = "start" /\ t = "off" -> "on"
      [] event \in {"light", "overdue"} /\ t # "off" /\ reply = "real"  -> "lit"
      [] event = "light" /\ t # "off" /\ reply = NoReply -> "dim"
      [] OTHER -> t

MCActions(t, event, reply) ==
    CASE event = "start" /\ t = "off" ->
            << [kind |-> "open", event |-> "h_ready", tell |-> [zone |-> "h", message |-> "become_on"]],
               [kind |-> "open", event |-> "w_ready", tell |-> [zone |-> "w", message |-> "become_on"]],
               [kind |-> "send", command |-> "horn"] >>
      [] event \in {"light", "overdue"} /\ reply = "real" ->
            << [kind |-> "send", command |-> "lamp_on"] >>
      [] OTHER -> << >>

MCSynthetic(t, z) == "made_up"
=============================================================================
