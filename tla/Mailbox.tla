------------------------------ MODULE Mailbox -------------------------------
(***************************************************************************)
(* What the send outbox promises its user, without POSTs, probes, queues   *)
(* or timers: a message that was written is held until it is confirmed,    *)
(* and it is confirmed only if it is stored.  It is stored once.  Only the *)
(* user's own acts make an exception: dropping a message, or forcing one   *)
(* out although nobody can tell whether it is stored already.              *)
(***************************************************************************)
EXTENDS Integers

CONSTANT Messages

VARIABLES
    held,     \* messages the mailbox is responsible for
    failed,   \* those of them that wait for the user (Retry or Discard)
    stored,   \* how many copies of a message the server has
    forced,   \* messages the user forced out
    dropped,  \* messages the user dropped
    written   \* messages written so far, a number: they are written in order

box == <<held, failed, stored, forced, dropped, written>>

MailboxInit ==
    /\ held = {} /\ failed = {} /\ forced = {} /\ dropped = {} /\ written = 0
    /\ stored = [m \in Messages |-> 0]

Write(m) ==
    /\ m = written + 1 /\ written' = m
    /\ held' = held \cup {m}
    /\ UNCHANGED <<failed, stored, forced, dropped>>

\* A second copy appears only of a message the user forced.
Store(m) ==
    /\ m \in 1..written
    /\ stored[m] > 0 => m \in forced
    /\ stored' = [stored EXCEPT ![m] = @ + 1]
    /\ UNCHANGED <<held, failed, forced, dropped, written>>

\* Some messages turn out to be stored, some are given up, some are forced.
\* Only one that is held and not given up is decided about.
Reconcile(confirmed, givenUp, force) ==
    /\ confirmed \subseteq {m \in held : stored[m] > 0}
    /\ givenUp \subseteq held \ (failed \cup confirmed)
    /\ force \subseteq held \ failed
    /\ held' = held \ confirmed
    /\ failed' = (failed \ confirmed) \cup givenUp
    /\ forced' = forced \cup force
    /\ UNCHANGED <<stored, dropped, written>>

Revive(m) ==
    /\ m \in failed /\ failed' = failed \ {m}
    /\ UNCHANGED <<held, stored, forced, dropped, written>>

Abandon(gone) ==
    /\ gone \subseteq held
    /\ held' = held \ gone /\ failed' = failed \ gone /\ dropped' = dropped \cup gone
    /\ UNCHANGED <<stored, forced, written>>

MailboxNext ==
    \/ \E m \in Messages : Write(m) \/ Store(m) \/ Revive(m)
    \/ \E confirmed, givenUp, force \in SUBSET held : Reconcile(confirmed, givenUp, force)
    \/ \E gone \in SUBSET held : Abandon(gone)

MailboxSpec == MailboxInit /\ [][MailboxNext]_box

=============================================================================
