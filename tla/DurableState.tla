---------------------------- MODULE DurableState ----------------------------
(***************************************************************************)
(* What the bridge promises of a bot's runtime state (README.md, "snapshot  *)
(* / journal"): memory is authoritative, what is durable follows it, and a  *)
(* restart finds at least everything that was durable before; after an      *)
(* orderly stop it finds everything.                                        *)
(***************************************************************************)
CONSTANT Mutations

VARIABLES
  live,     (* the mutations that memory reflects                           *)
  durable,  (* the mutations that a restart would find                      *)
  closed    (* the store was closed without an error                        *)

vars == <<live, durable, closed>>

Init == live = {} /\ durable = {} /\ closed = FALSE

Mutate == /\ ~closed
          /\ \E m \in Mutations \ live : live' = live \cup {m}
          /\ UNCHANGED <<durable, closed>>

(* Durability lags behind memory and never recedes.                        *)
Persist == /\ durable \subseteq durable' /\ durable' \subseteq live
           /\ UNCHANGED <<live, closed>>

Close == /\ durable = live
         /\ closed' = TRUE
         /\ UNCHANGED <<live, durable>>

(* The process ends, in good order or killed; the next one reads the disk. *)
Restart == /\ live' = durable
           /\ UNCHANGED <<durable, closed>>

(* The next process opens the store again.                                 *)
Reopen == /\ closed' = FALSE
          /\ UNCHANGED <<live, durable>>

Next == Mutate \/ Persist \/ Close \/ Restart \/ Reopen

Spec == Init /\ [][Next]_vars
=============================================================================
