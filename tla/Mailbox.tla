------------------------------- MODULE Mailbox -------------------------------
(***************************************************************************)
(* What a Consumer promises to the rest of the MMS about the messages that *)
(* are queued for it: a queued message waits until it is handed over, at   *)
(* most once, or until it has expired; nothing else ever happens to it.    *)
(*                                                                         *)
(* The module says nothing of locks, connections, requests or              *)
(* notifications: Consumer.tla has those and is shown to implement this.   *)
(***************************************************************************)
EXTENDS Naturals

CONSTANTS
    Msgs,       \* the messages, one UUID each
    Expires     \* the expiry time of each message

VARIABLES
    now,        \* the clock
    pending,    \* the messages the mailbox is responsible for
    delivered,  \* the messages handed over to the consumer
    discarded   \* the messages given up because they had expired

mailboxVars == <<now, pending, delivered, discarded>>

MailboxInit ==
    /\ now = 0
    /\ pending = {}
    /\ delivered = {}
    /\ discarded = {}

(* Time passes. *)
Advance ==
    /\ now' = now + 1
    /\ UNCHANGED <<pending, delivered, discarded>>

(* A message that was never in the mailbox arrives. *)
Deposit(m) ==
    /\ m \notin pending \cup delivered \cup discarded
    /\ pending' = pending \cup {m}
    /\ UNCHANGED <<now, delivered, discarded>>

(* One response carries the messages of S; those of X have expired and are *)
(* given up in the same step. Either set may be empty.                     *)
Release(S, X) ==
    /\ S \subseteq pending
    /\ X \subseteq pending \ S
    /\ \A m \in X : now > Expires[m]
    /\ pending' = pending \ (S \cup X)
    /\ delivered' = delivered \cup S
    /\ discarded' = discarded \cup X
    /\ UNCHANGED now

MailboxNext ==
    \/ Advance
    \/ \E m \in Msgs : Deposit(m)
    \/ \E S, X \in SUBSET Msgs : Release(S, X)

MailboxSpec == MailboxInit /\ [][MailboxNext]_mailboxVars
=============================================================================
