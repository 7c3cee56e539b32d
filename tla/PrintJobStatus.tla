--------------------------- MODULE PrintJobStatus ---------------------------
(***************************************************************************)
(* The vocabulary of state_machine.py: the statuses of a print job, the    *)
(* table of legal transitions and the terminal statuses.  web/ keeps the   *)
(* same table and rejects what it does not allow; the agent's own queue    *)
(* store (db/queue_store.py) never consults it.                            *)
(***************************************************************************)

Status == {"QUEUED", "RECEIVED", "PRINTING", "COMPLETED", "FAILED",
           "CANCELLED", "WAITING_FOR_PRINTER"}

LEGAL_TRANSITIONS ==
  [ QUEUED              |-> {"RECEIVED", "CANCELLED"},
    RECEIVED            |-> {"PRINTING", "WAITING_FOR_PRINTER", "FAILED", "CANCELLED"},
    WAITING_FOR_PRINTER |-> {"PRINTING", "FAILED", "CANCELLED"},
    PRINTING            |-> {"COMPLETED", "FAILED"},
    COMPLETED           |-> {},
    FAILED              |-> {},
    CANCELLED           |-> {} ]

TERMINAL_STATUSES == {"COMPLETED", "FAILED", "CANCELLED"}

is_legal_transition(current, next) ==
  \/ current = next                       \* idempotent resend
  \/ next \in LEGAL_TRANSITIONS[current]

is_terminal(status) == status \in TERMINAL_STATUSES

=============================================================================
