--------------------------- MODULE MCPublicChannel ---------------------------
(* Small instances of PublicChannel for TLC. *)
EXTENDS PublicChannel, TLC

CONSTANTS p1, p2, rd1, alice, bob

Symmetry == Permutations(Pushers)

Msg(id, ver, seq) == [id |-> id, ver |-> ver, seq |-> seq]

\* A push of alice with these messages.
By(lastSeq, pv, ms) ==
    [peer |-> alice, owner |-> alice, headOwner |-> alice, valid |-> TRUE, pv |-> pv,
     lastId |-> MaxId, lastSeq |-> lastSeq, messages |-> ms, changes |-> <<>>]

ByBob(q) == [q EXCEPT !.peer = bob, !.owner = bob, !.headOwner = bob]

\* Bob's profile (and messages) with a head of alice.
UnderAlicesHead(q) == [ByBob(q) EXCEPT !.headOwner = alice]

OneMessage == {<<Msg(id, ver, seq)>> : id \in Ids, ver \in {1, 2}, seq \in Seqs \ {0}}

\* Anything an owner might send: any version of a message under any seq, two
\* messages at once, profiles alone, heads above their messages.
AnyPushes ==
    {By(s, 1, ms) : s \in Seqs \ {0}, ms \in OneMessage}
        \cup {By(2, 2, <<>>), By(2, 1, <<Msg(1, 1, 1), Msg(2, 1, 2)>>),
              By(2, 2, <<Msg(2, 2, 2), Msg(1, 1, 2)>>)}

Profile(pv) == [kind |-> "profile", id |-> 0, ver |-> 0, pv |-> pv]
WithChange(q, s, ours) ==
    [q EXCEPT !.changes = <<[seq |-> s, row |-> Profile(q.pv), ours |-> ours]>>]

\* An owner that gives each seq one meaning, in one push, whose head ends with
\* it; its pushes may be lost, repeated and reordered.  Bob uses the same id.
FirstPushes == {By(1, 1, <<Msg(1, 1, 1)>>), By(3, 1, <<Msg(2, 1, 2), Msg(1, 2, 3)>>)}

OwnersPushes == FirstPushes \cup {By(4, 2, <<>>), WithChange(By(5, 3, <<>>), 5, TRUE)}

AndOthers ==
    LET first == By(1, 1, <<Msg(1, 1, 1)>>)
    IN OwnersPushes \cup
       {ByBob(first), ByBob(By(5, 1, <<>>)),
        UnderAlicesHead(By(4, 2, <<>>)), UnderAlicesHead(By(3, 1, <<Msg(2, 2, 3)>>)),
        [first EXCEPT !.valid = FALSE], [first EXCEPT !.peer = bob],
        By(1, 1, <<Msg(1, 1, 2)>>),
        WithChange(By(5, 3, <<Msg(2, 2, 5)>>), 4, FALSE)}

\* The proofs about subscribers are about an owner like this one.
ASSUME OwnerIsOrderly == Pushes \in {OwnersPushes, AndOthers} => OrderlyOwner
==============================================================================
