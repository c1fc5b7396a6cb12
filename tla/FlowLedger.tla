----------------------------- MODULE FlowLedger -----------------------------
(***************************************************************************)
(* What the event provider promises about one counter of its sockets,      *)
(* without CPUs, maps, caches and cycles: the flows are credited with what *)
(* the sockets transferred, later but never twice, and a socket that was   *)
(* reported as completed is settled.                                       *)
(***************************************************************************)
EXTENDS Naturals

CONSTANT Sockets

VARIABLES transferred,   \* what each socket has transferred
          credited,      \* how much of it the flows have been credited with
          completed      \* the sockets reported as completed

ledger_vars == <<transferred, credited, completed>>

LedgerInit ==
  /\ transferred = [s \in Sockets |-> 0]
  /\ credited = [s \in Sockets |-> 0]
  /\ completed = {}

\* Sockets transfer something.
Transfers ==
  /\ transferred' \in [Sockets -> Nat]
  /\ \A s \in Sockets : transferred[s] <= transferred'[s]
  /\ UNCHANGED <<credited, completed>>

\* Some sockets are credited, and some of them for the last time.
Credits ==
  /\ credited' \in [Sockets -> Nat]
  /\ \A s \in Sockets :
       /\ credited[s] <= credited'[s]
       /\ credited'[s] <= transferred[s]
       /\ s \in completed => credited'[s] = credited[s]
  /\ completed \subseteq completed'
  /\ completed' \subseteq Sockets
  /\ UNCHANGED transferred

LedgerNext == Transfers \/ Credits

LedgerSpec == LedgerInit /\ [][LedgerNext]_ledger_vars
=============================================================================
