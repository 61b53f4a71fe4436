----------------------------- MODULE SessionQueue -----------------------------
(***************************************************************************)
(* What the Queue/Steer feature promises about one Session, without the    *)
(* ledger, the positions, the operation ids or the process that runs it.   *)
(*                                                                         *)
(* A follow-up message (an item) is accepted, waits in a total order, and  *)
(* ends in exactly one of two ways: a Run takes it, or the user withdraws  *)
(* it.  While it waits it is either for the next Run or aimed at one Run.  *)
(* Runs are serial.  SessionStore implements this module.                  *)
(***************************************************************************)
CONSTANTS Items,   \* follow-up messages a user may submit
          Runs,    \* Run identifiers
          NoRun    \* "no Run", not one of Runs

VARIABLES
  pending,    \* items waiting
  before,     \* <<i, j>>: i is ahead of j, for waiting items
  aim,        \* the Run a waiting item is steered at, or NoRun
  takenBy,    \* the Run that took the item, or NoRun
  withdrawn,  \* items the user deleted
  live,       \* the Run in progress, or NoRun
  ended,      \* Runs that have their terminal report
  paused      \* the user must resume before the next item starts a Run

vars == <<pending, before, aim, takenBy, withdrawn, live, ended, paused>>

Init ==
  /\ pending = {}
  /\ before = {}
  /\ aim = [i \in Items |-> NoRun]
  /\ takenBy = [i \in Items |-> NoRun]
  /\ withdrawn = {}
  /\ live = NoRun
  /\ ended = {}
  /\ paused = FALSE

AimedAt(r) == {i \in pending : aim[i] = r}

\* i is ahead of every other member of S.
Leads(i, S) == i \in S /\ \A j \in S \ {i} : <<i, j>> \in before

Unseen(i) == i \notin pending /\ i \notin withdrawn /\ takenBy[i] = NoRun

StrictTotalOrder(order, S) ==
  /\ order \subseteq S \X S
  /\ \A i, j \in S : i # j <=> (<<i, j>> \in order \/ <<j, i>> \in order)
  /\ \A i, j, k \in S : <<i, j>> \in order /\ <<j, k>> \in order => <<i, k>> \in order

Remove(i) ==
  /\ pending' = pending \ {i}
  /\ before' = {p \in before : p[1] # i /\ p[2] # i}
  /\ aim' = [aim EXCEPT ![i] = NoRun]

-------------------------------------------------------------------------------
\* A new item goes to the back, for the next Run or aimed at the live one.
Accept(i) ==
  /\ Unseen(i)
  /\ pending' = pending \cup {i}
  /\ before' = before \cup (pending \X {i})
  /\ aim' \in {aim, [aim EXCEPT ![i] = live]}
  /\ UNCHANGED <<takenBy, withdrawn, live, ended, paused>>

\* A waiting item is promoted to a Steer of the live Run, in place.
Steer(i) ==
  /\ i \in AimedAt(NoRun)
  /\ live # NoRun
  /\ aim' = [aim EXCEPT ![i] = live]
  /\ UNCHANGED <<pending, before, takenBy, withdrawn, live, ended, paused>>

\* Every Steer of one Run falls back to "next Run", keeping its place.
Release(r) ==
  /\ aim' = [i \in Items |-> IF aim[i] = r THEN NoRun ELSE aim[i]]
  /\ UNCHANGED <<pending, before, takenBy, withdrawn, live, ended, paused>>

Withdraw(i) ==
  /\ i \in pending
  /\ Remove(i)
  /\ withdrawn' = withdrawn \cup {i}
  /\ UNCHANGED <<takenBy, live, ended, paused>>

Rearrange ==
  /\ before' \in SUBSET (pending \X pending)
  /\ StrictTotalOrder(before', pending)
  /\ UNCHANGED <<pending, aim, takenBy, withdrawn, live, ended, paused>>

\* The live Run takes the first item aimed at it.
TakeSteer(i) ==
  /\ live # NoRun
  /\ Leads(i, AimedAt(live))
  /\ Remove(i)
  /\ takenBy' = [takenBy EXCEPT ![i] = live]
  /\ UNCHANGED <<withdrawn, live, ended, paused>>

\* A Run that never ran starts, from a prompt or from the first unaimed item.
Begin(r) ==
  /\ live = NoRun
  /\ r \in Runs \ ended
  /\ live' = r
  /\ UNCHANGED <<pending, before, aim, takenBy, withdrawn, ended, paused>>

BeginWith(i, r) ==
  /\ live = NoRun
  /\ r \in Runs \ ended
  /\ Leads(i, AimedAt(NoRun))
  /\ Remove(i)
  /\ takenBy' = [takenBy EXCEPT ![i] = r]
  /\ live' = r
  /\ paused' = FALSE
  /\ UNCHANGED <<withdrawn, ended>>

End ==
  /\ live # NoRun
  /\ ended' = ended \cup {live}
  /\ live' = NoRun
  /\ UNCHANGED <<pending, before, aim, takenBy, withdrawn, paused>>

\* A restarted process closes the Run it finds open and pauses what waits.
Interrupt ==
  /\ live # NoRun
  /\ ended' = ended \cup {live}
  /\ live' = NoRun
  /\ aim' = [i \in Items |-> IF aim[i] = live THEN NoRun ELSE aim[i]]
  /\ paused' = (paused \/ pending # {})
  /\ UNCHANGED <<pending, before, takenBy, withdrawn>>

SetPaused ==
  /\ paused' \in BOOLEAN
  /\ UNCHANGED <<pending, before, aim, takenBy, withdrawn, live, ended>>

Next ==
  \/ \E i \in Items : Accept(i) \/ Steer(i) \/ Withdraw(i) \/ TakeSteer(i)
  \/ \E r \in Runs : Release(r) \/ Begin(r)
  \/ \E i \in Items, r \in Runs : BeginWith(i, r)
  \/ Rearrange \/ End \/ Interrupt \/ SetPaused

Spec == Init /\ [][Next]_vars
===============================================================================
