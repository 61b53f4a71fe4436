----------------------------- MODULE PartsValues -----------------------------
(* What the components of MCParts have in common. *)

CONSTANTS None,   \* no content, no answer, no state
          Paths   \* files, and topics of managed memory
=============================================================================
