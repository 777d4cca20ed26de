----------------------------- MODULE SubmissionMC -----------------------------
(***************************************************************************)
(* Two lists on one queue and a third on another; each start looks at one  *)
(* kind of object.                                                         *)
(***************************************************************************)
EXTENDS SubmissionProperties

CONSTANTS g, c, l1, l2, l3, b, tex, r, s, t, e

QueueOrder == <<g, c>>
QueueOfList == (l1 :> g) @@ (l2 :> g) @@ (l3 :> c)
UsedOnQueue == (r :> g) @@ (s :> g) @@ (t :> g) @@ (e :> g)

Start(objects, lists, kinds, opens, submits, regions, waits) ==
    [objects |-> objects, lists |-> lists, kinds |-> kinds, opens |-> opens, submits |-> submits,
     regions |-> regions, waits |-> waits]

SomeStarts ==
    {Start({b}, {l1}, {}, 3, 2, 2, 0), Start({tex}, {l1}, {"upload"}, 2, 2, 2, 0),
     Start({}, {l1}, {"scratch"}, 3, 2, 2, 0),
     Start({b, r}, {l1}, {}, 3, 2, 0, 0), Start({b, r}, {l1, l2}, {}, 2, 2, 0, 0), Start({tex, s}, {l1}, {}, 2, 2, 0, 0),
     Start({t}, {l1}, {}, 3, 3, 0, 0), Start({e}, {l1}, {}, 2, 2, 0, 0),
     Start({}, {l1, l3}, {}, 1, 1, 0, 1)}
=============================================================================
