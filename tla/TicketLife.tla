----------------------------- MODULE TicketLife -----------------------------
(***************************************************************************)
(* What a workflow promises to those who see it from outside - the user,   *)
(* who finds a ticket open or not, and the subscribers, who are told of    *)
(* its completion - however many steps, waits, cuts and commits it takes.  *)
(* WorkflowTurn implements it.                                             *)
(***************************************************************************)
EXTENDS Naturals

CONSTANT MaxRuns       \* bound on the tickets of a session

VARIABLES last,        \* the ticket begun last, 0 before the first
          open,        \* the ticket the session has open, 0 if none
          done,        \* tickets that are completed
          told         \* tickets whose completion was announced

vars == <<last, open, done, told>>

Init == last = 0 /\ open = 0 /\ done = {} /\ told = {}

(* A ticket is begun only when none is open; it need not come to anything. *)
Begin == /\ open = 0 /\ last < MaxRuns
         /\ last' = last + 1
         /\ UNCHANGED <<open, done, told>>

Stay == UNCHANGED <<open, done>>
Open == open = 0 /\ last # 0 /\ last \notin done /\ open' = last /\ UNCHANGED done
Give == open # 0 /\ open' = 0 /\ UNCHANGED done
Complete == open # 0 /\ open' = 0 /\ done' = done \cup {open}
OpenAndComplete == open = 0 /\ last # 0 /\ last \notin done /\ done' = done \cup {last} /\ UNCHANGED open

(* A completion may be announced with the step that makes it so, later or never. *)
Turn == /\ UNCHANGED last
        /\ Stay \/ Open \/ Give \/ Complete \/ OpenAndComplete
        /\ told \subseteq told' /\ told' \subseteq done'

Next == Begin \/ Turn
Spec == Init /\ [][Next]_vars
=============================================================================
