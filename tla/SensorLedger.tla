----------------------------- MODULE SensorLedger -----------------------------
(***************************************************************************)
(* What ingestion promises those who send readings, with no requests,      *)
(* links, inboxes or failures: every row stands for a sending of its own,  *)
(* rows stay, and a reading is acknowledged only once it has one.  A       *)
(* sending may come to nothing.  Ingestion implements it.                  *)
(***************************************************************************)
EXTENDS Naturals

CONSTANT Reading

VARIABLES sent,    \* sent[r]: how often r was posted or published
          rows,    \* rows[r]: how often r is stored for good
          acked    \* the readings a client was told are stored

ledgerVars == <<sent, rows, acked>>

LedgerInit == /\ sent = [r \in Reading |-> 0]
              /\ rows = [r \in Reading |-> 0]
              /\ acked = {}

Send(r) == sent' = [sent EXCEPT ![r] = @ + 1] /\ UNCHANGED <<rows, acked>>

Keep(r) ==
  /\ rows[r] < sent[r]
  /\ rows' = [rows EXCEPT ![r] = @ + 1]
  /\ UNCHANGED <<sent, acked>>

Acknowledge(r) ==
  /\ rows[r] > 0
  /\ acked' = acked \cup {r}
  /\ UNCHANGED <<sent, rows>>

LedgerNext == \E r \in Reading : Send(r) \/ Keep(r) \/ Acknowledge(r)

LedgerSpec == LedgerInit /\ [][LedgerNext]_ledgerVars
=============================================================================
