------------------------------- MODULE Mailbox -------------------------------
(***************************************************************************)
(* What the offline store promises a sender and a recipient, without keys, *)
(* frontiers, locks, batches or a collector.  Each recipient has a box of  *)
(* numbered messages.  A message enters under the next number, can be      *)
(* handed over any number of times while it has not expired, and leaves in *)
(* one of two ways only: it expires, or it is confirmed together with      *)
(* everything older, all of which was handed over or has expired.  Numbers *)
(* are never used twice.                                                   *)
(***************************************************************************)
EXTENDS Integers

CONSTANTS
    Recipients,
    Entry,          \* messages: records with an expiry time in field exp
    NoMsg,          \* an empty slot
    Seqs            \* the numbers

VARIABLES
    box,            \* box[r][s]: the message numbered s, or NoMsg
    top,            \* the last number given
    handed,         \* numbers handed over at least once
    now             \* the clock

mvars == <<box, top, handed, now>>

InBox(r) == {s \in Seqs : box[r][s] # NoMsg}

MInit ==
    /\ box = [r \in Recipients |-> [s \in Seqs |-> NoMsg]]
    /\ top = [r \in Recipients |-> 0]
    /\ handed = [r \in Recipients |-> {}]
    /\ now = 0

\* Some message that is still alive enters under the next number.
Accept(r) ==
    LET n == top[r] + 1
        e == box'[r][n]
    IN /\ n \in Seqs
       /\ e \in Entry
       /\ e.exp > now
       /\ box' = [box EXCEPT ![r][n] = e]
       /\ top' = [top EXCEPT ![r] = n]
       /\ UNCHANGED <<handed, now>>

HandOver(r, S) ==
    /\ \A s \in S : s \in InBox(r) /\ box[r][s].exp > now
    /\ handed' = [handed EXCEPT ![r] = @ \cup S]
    /\ UNCHANGED <<box, top, now>>

Without(r, S) == [box EXCEPT ![r] = [s \in Seqs |-> IF s \in S THEN NoMsg ELSE box[r][s]]]

Expire(r, s) ==
    /\ s \in InBox(r)
    /\ box[r][s].exp <= now
    /\ box' = Without(r, {s})
    /\ UNCHANGED <<top, handed, now>>

\* Everything up to n leaves at once.
Confirm(r, n) ==
    LET S == {s \in InBox(r) : s <= n}
    IN /\ \A s \in S : s \in handed[r] \/ box[r][s].exp <= now
       /\ box' = Without(r, S)
       /\ UNCHANGED <<top, handed, now>>

Tick ==
    /\ now' = now + 1
    /\ UNCHANGED <<box, top, handed>>

MNext ==
    \/ \E r \in Recipients : Accept(r)
    \/ \E r \in Recipients, S \in SUBSET Seqs : HandOver(r, S)
    \/ \E r \in Recipients, s \in Seqs : Expire(r, s)
    \/ \E r \in Recipients, n \in Seqs : Confirm(r, n)
    \/ Tick

MSpec == MInit /\ [][MNext]_mvars
==============================================================================
