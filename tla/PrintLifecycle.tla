--------------------------- MODULE PrintLifecycle ---------------------------
(***************************************************************************)
(* What the agent promises about a print job nobody cancels, without       *)
(* coroutines, threads, messages or crashes: its status only moves along   *)
(* the table of state_machine.py, its document is put on paper at most     *)
(* once and only after PRINTING was recorded, and COMPLETED is recorded    *)
(* only for a document on paper.  README.md, "The durability guarantee".   *)
(***************************************************************************)
EXTENDS Naturals, PrintJobStatus

CONSTANT Jobs

VARIABLES status, printed

lifecycleVars == <<status, printed>>

Unknown == "NO_ROW"

LInit ==
  /\ status = [j \in Jobs |-> Unknown]
  /\ printed = [j \in Jobs |-> 0]

\* The job is persisted.
Accept(j) ==
  /\ status[j] = Unknown
  /\ status' = [status EXCEPT ![j] = "RECEIVED"]
  /\ UNCHANGED printed

Advance(j, s) ==
  /\ status[j] # Unknown
  /\ s \in LEGAL_TRANSITIONS[status[j]]
  /\ s = "COMPLETED" => printed[j] = 1
  /\ status' = [status EXCEPT ![j] = s]
  /\ UNCHANGED printed

\* The document comes out, possibly after the job was given up as FAILED:
\* whether a print that was under way came out is unknowable.
Output(j) ==
  /\ status[j] \in {"PRINTING", "FAILED"}
  /\ printed[j] = 0
  /\ printed' = [printed EXCEPT ![j] = 1]
  /\ UNCHANGED status

\* A restart gives up every job that was printing, all at once.
GiveUpPrinting ==
  /\ status' = [j \in Jobs |-> IF status[j] = "PRINTING" THEN "FAILED" ELSE status[j]]
  /\ UNCHANGED printed

LNext ==
  \/ \E j \in Jobs : Accept(j) \/ Output(j)
  \/ \E j \in Jobs, s \in Status \ {"CANCELLED"} : Advance(j, s)
  \/ GiveUpPrinting

LSpec == LInit /\ [][LNext]_lifecycleVars
=============================================================================
