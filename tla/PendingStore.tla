---------------------------- MODULE PendingStore ----------------------------
(***************************************************************************)
(* What the protocol of LeaderSink relies on in a node's intent store: a    *)
(* set of pending sequences that puts extend and retirements shrink, and    *)
(* that a restart never shrinks.  A restart may bring back sequences that    *)
(* were retired: the state machine's dedup gate has to absorb them.          *)
(***************************************************************************)
CONSTANT Seqs

VARIABLES pend,   \* pending sequences
          owed,   \* sequences recorded and not retired since
          gone    \* sequences retired at least once

Init == pend = {} /\ owed = {} /\ gone = {}

Record == \E S \in SUBSET (Seqs \ pend) :
            pend' = pend \cup S /\ owed' = owed \cup S /\ gone' = gone

Remove == \E S \in SUBSET pend :
            pend' = pend \ S /\ owed' = owed \ S /\ gone' = gone \cup S

Restart == \E R \in SUBSET gone : pend' = pend \cup R /\ owed' = owed /\ gone' = gone

Next == Record \/ Remove \/ Restart

Spec == Init /\ [][Next]_<<pend, owed, gone>>
=============================================================================
